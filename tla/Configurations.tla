--------------------------- MODULE Configurations ---------------------------
(***************************************************************************)
(* How a device comes to its functions: the configuration descriptor is    *)
(* checked and walked through (usbconfigparser.cpp), every interface gets  *)
(* the driver of its name (usbdevice.cpp, usbdevicefactory.cpp), and each  *)
(* driver looks for its endpoints from where the walk stood (usbfunction   *)
(* .cpp and the Configure of the drivers).  A configuration is a sequence  *)
(* of descriptors; the device that sends it is external.                   *)
(***************************************************************************)
EXTENDS Integers, Sequences, SequencesExt, FiniteSetsExt

CONSTANTS
  Settings,       (* the interface settings devices have: a name and the
                     descriptors that follow                                *)
  MaxSettings,    (* bound on the settings of a configuration               *)
  USBDEV_MAX_FUNCTIONS

VARIABLES
  descs,   (* the configuration, and what is wrong with its lengths         *)
  usbdev   (* the device object: its parser and its functions               *)

configurationVars == <<descs, usbdev>>

Endpoints == {"int in", "int out", "bulk in", "bulk out"}

\* What follows an interface is its endpoints, and descriptors of its class.  ucInterfaceNumber is
\* a byte, and counts as far as the number behind that of the last interface.
ASSUME ConfigurationAssumption ==
  /\ MaxSettings \in Nat /\ MaxSettings <= 255 /\ USBDEV_MAX_FUNCTIONS \in Nat \ {0}
  /\ \A setting \in Settings : setting.body \in Seq(Endpoints \cup {"hid", "cs"})

Drivers == {"hub", "keyboard", "mouse", "storage", "midi", "gamepad"}

-----------------------------------------------------------------------------
(* Descriptors, and the configurations a device may send.                    *)

Descriptor0(type) == [type |-> type, num |-> 0, alt |-> 0, name |-> "none", endpoints |-> 0]

IsEndpoint(d) == d.type \in Endpoints

Interface(num, alt, setting) ==
  <<[Descriptor0("interface") EXCEPT !.num = num, !.alt = alt, !.name = setting.name,
       !.endpoints = Cardinality({i \in DOMAIN setting.body : setting.body[i] \in Endpoints})]>>
  \o [i \in DOMAIN setting.body |-> Descriptor0(setting.body[i])]

\* Settings in the order of their interface numbers; one that is not fresh is an alternate.
InterfaceNumber(fresh, i) == Cardinality({j \in 2 .. i : fresh[j]})

AlternateSetting(fresh, i) ==
  Cardinality({j \in 1 .. i - 1 : InterfaceNumber(fresh, j) = InterfaceNumber(fresh, i)})

Configuration(settings, fresh) ==
  LET f[n \in 0 .. Len(settings)] ==
        IF n = 0 THEN <<Descriptor0("configuration")>>
        ELSE f[n - 1] \o Interface(InterfaceNumber(fresh, n), AlternateSetting(fresh, n), settings[n])
  IN f[Len(settings)]

-----------------------------------------------------------------------------
(* USBConfigurationParser.                                                   *)

\* Every descriptor has the length of its type, and they fill the buffer.
IsValid ==
  /\ descs.lengths = "right"
  /\ \A i \in DOMAIN descs.seq :
       /\ descs.seq[i].type = "configuration" => i = 1
       /\ descs.seq[i].type = "interface" => i > 1
       /\ IsEndpoint(descs.seq[i]) => i > 1 /\ descs.seq[i - 1].type # "configuration"

Matches(i, type) == IF type = "endpoint" THEN IsEndpoint(descs.seq[i]) ELSE descs.seq[i].type = type

\* GetDescriptor: the position of the next descriptor of a type, if there is one; for an endpoint
\* before the next interface.
DescriptorFrom(next, type) ==
  {i \in next .. Len(descs.seq) :
     /\ Matches(i, type)
     /\ \A j \in next .. i - 1 : ~Matches(j, type) /\ (type = "endpoint" => descs.seq[j].type # "interface")}

\* Where the parser stands after that.
After0(next, type) ==
  LET found == DescriptorFrom(next, type)
      stops == {i \in next .. Len(descs.seq) : type = "endpoint" /\ descs.seq[i].type = "interface"}
  IN IF found # {} THEN Max(found) + 1 ELSE IF stops # {} THEN Min(stops) ELSE Len(descs.seq) + 1

\* All endpoints there are from a position on.
EndpointsFrom(next) ==
  LET f[n \in 1 .. Len(descs.seq) + 1] ==
        IF DescriptorFrom(n, "endpoint") = {} THEN {}
        ELSE DescriptorFrom(n, "endpoint") \cup f[After0(n, "endpoint")]
  IN f[next]

-----------------------------------------------------------------------------
(* USBDeviceInitialize, one interface after the other.                       *)

NewDevice == [pc |-> "parse", next |-> 1, ucInterfaceNumber |-> 0, m_pFunction |-> <<>>, at |-> 1]

Parse == /\ usbdev.pc = "parse"
         /\ usbdev' = [usbdev EXCEPT !.pc = IF IsValid THEN "interfaces" ELSE "failed"]
         /\ UNCHANGED descs

\* USBDeviceFactoryGetDevice: the name of the vendor goes before that of the first interface.
DriverFor(i) ==
  IF descs.vendor = "lan" /\ usbdev.m_pFunction = <<>> THEN "lan"
  ELSE IF descs.seq[i].name \in Drivers THEN descs.seq[i].name ELSE "none"

\* A function has a copy of the parser, which stands behind its interface.
NewFunction(i) == [driver |-> DriverFor(i), interface |-> i, next |-> i + 1, endpoints |-> {}, state |-> "new"]

\* Slip: the next setting of an interface that has its function is taken for another one.
TakenAgain(number) == number

\* The number the next interface must have at least.
Taken(number) == number + 1

NextInterface ==
  /\ usbdev.pc = "interfaces"
  /\ LET found == DescriptorFrom(usbdev.next, "interface")
         i     == Max(found)
         least == Max({usbdev.ucInterfaceNumber, descs.seq[i].num})
         on    == [usbdev EXCEPT !.next = After0(@, "interface")]
     IN usbdev' =
          IF found = {} THEN [on EXCEPT !.pc = IF on.m_pFunction = <<>> THEN "failed" ELSE "configure"]
          ELSE IF descs.seq[i].num # least \/ DriverFor(i) = "none"
          THEN [on EXCEPT !.ucInterfaceNumber = least]
          ELSE [on EXCEPT !.ucInterfaceNumber = Taken(least),
                          !.m_pFunction = Append(@, NewFunction(i)),
                          !.pc = IF Len(on.m_pFunction) + 1 = USBDEV_MAX_FUNCTIONS THEN "configure" ELSE @]
  /\ UNCHANGED descs

-----------------------------------------------------------------------------
(* The endpoints that the drivers choose: a set, or none that will do.      *)

OfType(next, type) == {i \in EndpointsFrom(next) : descs.seq[i].type = type}

\* The first of a type.
FirstOf(next, type) == IF OfType(next, type) = {} THEN {} ELSE {{Min(OfType(next, type))}}

\* One to the host, one to the device, and not two of either.
Pair(next, in, out) ==
  IF Cardinality(OfType(next, in)) = 1 /\ Cardinality(OfType(next, out)) = 1
  THEN {OfType(next, in) \cup OfType(next, out)} ELSE {}

\* Drivers that want the HID descriptor first search it, wherever it is.
BehindHID(next) == IF DescriptorFrom(next, "hid") = {} THEN {} ELSE {After0(next, "hid")}

\* MIDI: an endpoint to the host with the class's descriptor right behind it; the last one stays.
Streaming(next) ==
  LET f[n \in 1 .. Len(descs.seq) + 1] ==
        IF DescriptorFrom(n, "endpoint") = {} THEN {}
        ELSE LET e == Max(DescriptorFrom(n, "endpoint"))
                 more == After0(e + 1, "cs")
             IN IF descs.seq[e].type # "bulk in" THEN f[e + 1]
                ELSE IF DescriptorFrom(e + 1, "cs") = {e + 1} /\ f[more] = {} THEN {{e}} ELSE f[more]
  IN f[next]

Choice(f) ==
  LET n == descs.seq[f.interface].endpoints
  IN CASE f.driver = "hub" -> IF n # 1 THEN {} ELSE FirstOf(f.next, "int in")
       [] f.driver = "keyboard" -> IF n < 1 THEN {} ELSE FirstOf(f.next, "int in")
       [] f.driver = "mouse" -> IF n < 1 THEN {}
                                ELSE UNION {FirstOf(m, "int in") : m \in BehindHID(f.next)}
       [] f.driver = "gamepad" ->
            IF n < 1 THEN {}
            ELSE {OfType(m, "int in") \cup OfType(m, "int out") : m \in
                    {k \in BehindHID(f.next) :
                       Cardinality(OfType(k, "int in")) = 1 /\ Cardinality(OfType(k, "int out")) <= 1}}
       [] f.driver = "storage" -> IF n < 2 THEN {} ELSE Pair(f.next, "bulk in", "bulk out")
       [] f.driver = "lan" -> IF n # 3 THEN {} ELSE Pair(f.next, "bulk in", "bulk out")
       [] f.driver = "midi" -> IF n < 1 THEN {} ELSE Streaming(f.next)

\* USBDeviceConfigure: a function whose Configure fails, here or later, is gone.
ConfigureFunction(done) ==
  /\ usbdev.pc = "configure" /\ usbdev.at <= Len(usbdev.m_pFunction)
  /\ LET f == usbdev.m_pFunction[usbdev.at]
     IN usbdev' = [usbdev EXCEPT
          !.at = @ + 1,
          !.m_pFunction[usbdev.at] =
             IF Choice(f) = {} \/ ~done THEN [f EXCEPT !.state = IF done THEN "unfit" ELSE "failed"]
             ELSE [f EXCEPT !.state = "configured", !.endpoints = CHOOSE e \in Choice(f) : TRUE]]
  /\ UNCHANGED descs

Configured0 == /\ usbdev.pc = "configure" /\ usbdev.at > Len(usbdev.m_pFunction)
               /\ usbdev' = [usbdev EXCEPT !.pc = IF \E f \in ToSet(usbdev.m_pFunction) : f.state = "configured"
                                                  THEN "ready" ELSE "failed"]
               /\ UNCHANGED descs

ConfigurationInit ==
  /\ usbdev = NewDevice
  /\ \E n \in 1 .. MaxSettings, vendor \in {"lan", "any"}, lengths \in {"right", "wrong"} :
       \E settings \in [1 .. n -> Settings], fresh \in [1 .. n -> BOOLEAN] :
         /\ fresh[1]
         /\ descs = [seq |-> Configuration(settings, fresh), vendor |-> vendor, lengths |-> lengths]

ConfigurationNext ==
  Parse \/ NextInterface \/ Configured0 \/ \E done \in BOOLEAN : ConfigureFunction(done)

-----------------------------------------------------------------------------
(* Properties.                                                              *)

EndpointsOf(i) ==
  {e \in i + 1 .. Len(descs.seq) :
     IsEndpoint(descs.seq[e]) /\ \A j \in i + 1 .. e : descs.seq[j].type # "interface"}

InterfacesOf(names) == {i \in DOMAIN descs.seq : descs.seq[i].type = "interface" /\ descs.seq[i].name \in names}

\* What the drivers of HID devices and of MIDI take for granted.
Orderly ==
  /\ \A i \in InterfacesOf({"mouse", "gamepad"}) : i < Len(descs.seq) /\ descs.seq[i + 1].type = "hid"
  /\ \A i \in InterfacesOf({"midi"}) :
       \A e \in EndpointsOf(i) : descs.seq[e].type = "bulk in" => e < Len(descs.seq) /\ descs.seq[e + 1].type = "cs"

Wants(driver) ==
  CASE driver \in {"hub", "keyboard", "mouse"} -> {{"int in"}}
    [] driver = "gamepad" -> {{"int in"}, {"int in", "int out"}}
    [] driver \in {"storage", "lan"} -> {{"bulk in", "bulk out"}}
    [] driver = "midi" -> {{"bulk in"}}

\* The first setting of each interface that has a driver.
Supported ==
  {i \in InterfacesOf(Drivers) :
     \A j \in InterfacesOf(Drivers) : descs.seq[j].num = descs.seq[i].num => i <= j}

(***************************************************************************)
(* A function that is configured uses endpoints of its own interface and   *)
(* setting, one of every type that its driver wants, and no interface has  *)
(* two functions; of each interface the first setting with a driver has    *)
(* one, up to the number of functions a device may have.  The drivers take *)
(* for granted that the class descriptors they search are there.           *)
(***************************************************************************)
FunctionsOwnEndpoints ==
  LET fs == usbdev.m_pFunction
  IN /\ Orderly =>
          \A k \in DOMAIN fs : fs[k].state = "configured" =>
             /\ fs[k].endpoints \subseteq EndpointsOf(fs[k].interface)
             /\ {descs.seq[e].type : e \in fs[k].endpoints} \in Wants(fs[k].driver)
             /\ Cardinality(fs[k].endpoints) <= 2
     /\ \A k, l \in DOMAIN fs : k < l => descs.seq[fs[k].interface].num < descs.seq[fs[l].interface].num
     /\ usbdev.pc = "configure" /\ descs.vendor # "lan" =>
          /\ {fs[k].interface : k \in DOMAIN fs} \subseteq Supported
          /\ Len(fs) = Min({Cardinality(Supported), USBDEV_MAX_FUNCTIONS})
=============================================================================

---------------------------- MODULE Enumeration ----------------------------
(***************************************************************************)
(* How the devices on the bus are found, addressed and configured at boot  *)
(* (usbdevice.cpp, usbstandardhub.cpp, usbfunction.cpp, dwhcirootport.cpp, *)
(* usbdevicefactory.cpp, DeviceNameService.cpp, uspilibrary.cpp).  The     *)
(* kernel thread walks the tree of hubs; every control message it sends    *)
(* may fail.  A device has one function here.                              *)
(***************************************************************************)
EXTENDS Integers, FiniteSets, Sequences

CONSTANTS
  NDevices, (* the places of the tree: 1 is the root port                   *)
  Parent,   (* the hub that a place belongs to                              *)
  PortOf,   (* and its port there                                           *)
  NPorts,   (* of every hub                                                 *)
  MayBe,    (* what may be plugged in at a place                            *)
  MaxAddress (* USB_MAX_ADDRESS                                             *)

Devices == 1 .. NDevices
Root == 1
None == 0

Kinds  == {"hub", "keyboard", "other", "empty"}
Speeds == {"low", "full", "high"}

(***************************************************************************)
(* A bus has room for MaxAddress devices.  With more than twice as many    *)
(* s_ucNextAddress, which never gets an address back, would wrap around    *)
(* and give out addresses that are in use.                                 *)
(***************************************************************************)
ASSUME ConstantsAssumption ==
  /\ NDevices \in Nat \ {0} /\ NPorts \in Nat \ {0} /\ MaxAddress \in Nat \ {0}
  /\ NDevices <= 2 * MaxAddress
  /\ Parent \in [Devices \ {Root} -> Devices] /\ PortOf \in [Devices \ {Root} -> 1 .. NPorts]
  /\ \A d \in Devices \ {Root} : Parent[d] < d
  /\ \A d, e \in Devices \ {Root} : Parent[d] = Parent[e] /\ PortOf[d] = PortOf[e] => d = e
  /\ MayBe \in [Devices -> SUBSET Kinds]

\* ucAddress and s_ucNextAddress are bytes; USB_MAX_ADDRESS is 127.
AddressSize == 2 * (MaxAddress + 1)

VARIABLES
  kind, speed,      (* what is plugged in                                   *)
  link,             (* the port a device is at: "off", "powered", "enabled" *)
  busAddress,       (* the address a device answers to; 0 after a reset     *)
  at,               (* how far USBDevice* got with the object of a device   *)
  port,             (* nPort, of the loops of USBStandardHubEnumeratePorts  *)
  result,           (* bResult of the same                                  *)
  address, split, hubAddress, hubPort, (* of TUSBDevice                     *)
  current,          (* the device the thread works on, None at the end      *)
  nextAddress,      (* s_ucNextAddress                                      *)
  names,            (* the devices of the name service, in their order      *)
  main,             (* where KernelMain is                                  *)
  keyboard          (* s_pLibrary->pUKBD1                                   *)

vars == <<kind, speed, link, busAddress, at, port, result, address, split, hubAddress,
          hubPort, current, nextAddress, names, main, keyboard>>

bus    == <<link, busAddress>>
object == <<address, split, hubAddress, hubPort>>
loop   == <<port, result>>
system == <<kind, speed, names, main, keyboard>>

-----------------------------------------------------------------------------
(* The tree.                                                                 *)

Above[d \in Devices] == IF d = Root THEN {} ELSE {Parent[d]} \cup Above[Parent[d]]

SubTree(d) == {e \in Devices : e = d \/ d \in Above[e]}

At(h, p) == {d \in Devices \ {Root} : Parent[d] = h /\ PortOf[d] = p /\ kind[d] # "empty"}

\* What may be plugged in where: only hubs have ports, and only high-speed hubs are fast.
WellConnected ==
  \A d \in Devices :
    /\ kind[d] \in MayBe[d]
    /\ kind[d] = "hub" => speed[d] # "low"
    /\ kind[d] = "empty" => speed[d] = "full"
    /\ d # Root /\ kind[d] # "empty" => kind[Parent[d]] = "hub"
    /\ d # Root /\ speed[d] = "high" => speed[Parent[d]] = "high"

Init ==
  /\ kind \in [Devices -> Kinds] /\ speed \in [Devices -> Speeds] /\ WellConnected
  /\ link = [d \in Devices |-> IF d = Root /\ kind[d] # "empty" THEN "enabled" ELSE "off"]
  /\ busAddress = [d \in Devices |-> 0]
  /\ at = [d \in Devices |-> IF d = Root /\ kind[d] # "empty" THEN "descriptor" ELSE "absent"]
  /\ port = [d \in Devices |-> 1] /\ result = [d \in Devices |-> TRUE]
  /\ address = [d \in Devices |-> 0] /\ split = [d \in Devices |-> FALSE]
  /\ hubAddress = [d \in Devices |-> 0] /\ hubPort = [d \in Devices |-> 1]
  /\ current = IF kind[Root] = "empty" THEN None ELSE Root
  /\ nextAddress = 1
  /\ names = <<>> /\ main = "usb" /\ keyboard = None

Working(d, where) == current = d /\ at[d] = where

\* Who called USBDeviceInitialize or USBDeviceConfigure.
Caller(d) == IF d = Root THEN Root ELSE Parent[d]

(***************************************************************************)
(* The object of the device is destroyed, and the caller goes on.  Of a    *)
(* hub, _USBFunction frees the function only: the objects behind it stay.  *)
(***************************************************************************)
GiveUp(d) == at' = [at EXCEPT ![d] = "absent"] /\ current' = Caller(d)

GoOn(d, where) == at' = [at EXCEPT ![d] = where] /\ UNCHANGED current

-----------------------------------------------------------------------------
(* USBDeviceInitialize.                                                      *)

\* Twice: the first packet, and the whole descriptor.
GetDeviceDescriptor(d) ==
  /\ Working(d, "descriptor")
  /\ GoOn(d, "address") \/ GiveUp(d)
  /\ UNCHANGED <<bus, object, loop, nextAddress, system>>

\* The devices that hear a message to the default address, besides the one it is for.
Strangers(d) == {e \in Devices \ {d} : link[e] = "enabled" /\ busAddress[e] = 0}

TakeAddress(d, a) ==
  \E heard \in SUBSET Strangers(d) :
    busAddress' = [e \in Devices |-> IF e = d \/ e \in heard THEN a ELSE busAddress[e]]

\* A device may take the address although the message fails.
SetAddress(d) ==
  /\ Working(d, "address")
  /\ nextAddress' = (nextAddress + 1) % AddressSize
  /\ \/ /\ nextAddress <= MaxAddress
        /\ TakeAddress(d, nextAddress)
        /\ \/ GoOn(d, "configuration") /\ address' = [address EXCEPT ![d] = nextAddress]
           \/ GiveUp(d) /\ UNCHANGED address
     \/ GiveUp(d) /\ UNCHANGED <<busAddress, address>>
  /\ UNCHANGED <<link, split, hubAddress, hubPort, loop, system>>

\* The strings, the configuration descriptor, its parser and the functions.
GetConfiguration(d) ==
  /\ Working(d, "configuration")
  /\ \/ /\ kind[d] # "other"
        /\ at' = [at EXCEPT ![d] = "initialized"] /\ current' = Caller(d)
     \/ GiveUp(d)
  /\ UNCHANGED <<bus, object, loop, nextAddress, system>>

-----------------------------------------------------------------------------
(* USBDeviceConfigure, and the Configure of its function.                    *)

SetConfiguration(d) ==
  /\ Working(d, "setConfiguration")
  /\ GoOn(d, IF kind[d] = "hub" THEN "hubDescriptor" ELSE "function") \/ GiveUp(d)
  /\ UNCHANGED <<bus, object, loop, nextAddress, system>>

Configured(d) == at' = [at EXCEPT ![d] = "configured"] /\ current' = Caller(d)

\* DeviceNameService: a name stays with its device for ever.
AddDevice(d) == names' = Append(names, d)

GetFirstDevice == IF names = <<>> THEN None ELSE names[1]

\* USBKeyboardDeviceConfigure; there are fewer keyboards than channels to start on.
ConfigureFunction(d) ==
  /\ Working(d, "function")
  /\ \/ Configured(d) /\ AddDevice(d)
     \/ GiveUp(d) /\ UNCHANGED names
  /\ UNCHANGED <<bus, object, loop, nextAddress, kind, speed, main, keyboard>>

GetHubDescriptor(h) ==
  /\ Working(h, "hubDescriptor")
  /\ \/ GoOn(h, "power") /\ port' = [port EXCEPT ![h] = 1]
                         /\ result' = [result EXCEPT ![h] = TRUE]
     \/ GiveUp(h) /\ UNCHANGED loop
  /\ UNCHANGED <<bus, object, nextAddress, system>>

-----------------------------------------------------------------------------
(* USBStandardHubEnumeratePorts.                                             *)

LastPort(h) == port[h] = NPorts

\* The next port of the loop, or what comes behind the loop.
NextPort(h) == port' = [port EXCEPT ![h] = IF LastPort(h) THEN 1 ELSE port[h] + 1]
Continue(h, where, behind) == GoOn(h, IF LastPort(h) THEN behind ELSE where) /\ NextPort(h)

\* Slip: the ports are reset as soon as they have power.
PowerAndResetPort(h) ==
  /\ Working(h, "power")
  /\ \/ /\ link' = [d \in Devices |-> IF d \in At(h, port[h]) THEN "enabled" ELSE link[d]]
        /\ Continue(h, "power", "status")
     \/ GiveUp(h) /\ UNCHANGED <<link, port>>
  /\ UNCHANGED <<busAddress, object, result, nextAddress, system>>

PowerPort(h) ==
  /\ Working(h, "power")
  /\ \/ /\ link' = [d \in Devices |-> IF d \in At(h, port[h]) THEN "powered" ELSE link[d]]
        /\ Continue(h, "power", "status")
     \/ GiveUp(h) /\ UNCHANGED <<link, port>>
  /\ UNCHANGED <<busAddress, object, result, nextAddress, system>>

\* The port has no status, or nobody is there.
GetPortStatus(h) ==
  /\ Working(h, "status")
  /\ \/ At(h, port[h]) # {} /\ GoOn(h, "reset") /\ UNCHANGED port
     \/ Continue(h, "status", "configure")
  /\ UNCHANGED <<bus, object, result, nextAddress, system>>

\* Slip: a port that cannot be reset is looked at again.
ResetPortAgain(h) ==
  /\ Working(h, "reset")
  /\ \E d \in At(h, port[h]) :
       /\ link' = [link EXCEPT ![d] = "enabled"]
       /\ busAddress' = [busAddress EXCEPT ![d] = 0]
  /\ GoOn(h, "resetStatus") \/ GoOn(h, "status")
  /\ UNCHANGED <<port, object, result, nextAddress, system>>

\* A device may be reset although the message fails, and not be when it succeeds.
ResetPort(h) ==
  /\ Working(h, "reset")
  /\ \/ \E d \in At(h, port[h]) :
          /\ link' = [link EXCEPT ![d] = "enabled"]
          /\ busAddress' = [busAddress EXCEPT ![d] = 0]
     \/ UNCHANGED bus
  /\ \/ GoOn(h, "resetStatus") /\ UNCHANGED port
     \/ Continue(h, "status", "configure")
  /\ UNCHANGED <<object, result, nextAddress, system>>

PowerOff(devices) ==
  link' = [d \in Devices |->
             IF \E e \in devices : d \in SubTree(e) THEN "off" ELSE link[d]]

\* Slip: a low-speed device behind any hub is reached by split transactions.
NeedsOwnTranslator(h, d) == ~split[h] /\ speed[d] # "high"

\* The first high-speed hub with a non-high-speed device following in chain.
NeedsTranslator(h, d) == ~split[h] /\ speed[h] = "high" /\ speed[d] # "high"

\* USBDevice: the default device, with the translator of its split transactions.
NewDevice(h, d) ==
  LET first == NeedsTranslator(h, d) IN
  /\ address' = [address EXCEPT ![d] = 0]
  /\ split' = [split EXCEPT ![d] = split[h] \/ first]
  /\ hubAddress' = [hubAddress EXCEPT ![d] = IF first THEN address[h] ELSE hubAddress[h]]
  /\ hubPort' = [hubPort EXCEPT ![d] = IF first THEN port[h] ELSE hubPort[h]]

\* The status behind the reset: no status, not enabled, over-current, or a new device.
GetResetStatus(h) ==
  /\ Working(h, "resetStatus")
  /\ \/ GiveUp(h) /\ UNCHANGED <<bus, object, port>>
     \/ /\ \A d \in At(h, port[h]) : link[d] # "enabled"
        /\ Continue(h, "status", "configure") /\ UNCHANGED <<bus, object>>
     \/ /\ PowerOff(At(h, port[h])) \/ UNCHANGED link
        /\ GiveUp(h) /\ UNCHANGED <<busAddress, object, port>>
     \/ \E d \in At(h, port[h]) :
          /\ link[d] = "enabled"
          /\ NewDevice(h, d)
          /\ at' = [at EXCEPT ![d] = "descriptor",
                              ![h] = IF LastPort(h) THEN "configure" ELSE "status"]
          /\ NextPort(h)
          /\ current' = d /\ UNCHANGED bus
  /\ UNCHANGED <<result, nextAddress, system>>

ConfigureDevice(h) ==
  /\ Working(h, "configure")
  /\ \/ /\ \A d \in At(h, port[h]) : at[d] = "absent"
        /\ Continue(h, "configure", "hubStatus")
     \/ \E d \in At(h, port[h]) :
          /\ at[d] # "absent"
          /\ at' = [at EXCEPT ![d] = "setConfiguration",
                              ![h] = IF LastPort(h) THEN "hubStatus" ELSE "configure"]
          /\ NextPort(h)
          /\ current' = d
  /\ UNCHANGED <<bus, object, result, nextAddress, system>>

\* Over-current of the hub: all its ports lose power, unless a message fails.
GetHubStatus(h) ==
  /\ Working(h, "hubStatus")
  /\ \/ GoOn(h, "portStatus") /\ UNCHANGED link
     \/ /\ \E ports \in SUBSET (1 .. NPorts) : PowerOff(UNION {At(h, p) : p \in ports})
        /\ GiveUp(h)
  /\ UNCHANGED <<busAddress, object, loop, nextAddress, system>>

EndOfPorts(h, ok) ==
  IF ~LastPort(h) THEN GoOn(h, "portStatus") ELSE IF ok THEN Configured(h) ELSE GiveUp(h)

\* Slip: the over-current of a port is forgotten.
CheckPortOnly(h) ==
  /\ Working(h, "portStatus")
  /\ PowerOff(At(h, port[h])) \/ UNCHANGED link
  /\ EndOfPorts(h, TRUE)
  /\ NextPort(h)
  /\ UNCHANGED <<busAddress, result, object, nextAddress, system>>

\* Over-current of a port: it loses power, unless the message fails.
CheckPort(h) ==
  /\ Working(h, "portStatus")
  /\ \/ UNCHANGED <<link, result>> /\ EndOfPorts(h, result[h])
     \/ /\ PowerOff(At(h, port[h])) \/ UNCHANGED link
        /\ result' = [result EXCEPT ![h] = FALSE]
        /\ EndOfPorts(h, FALSE)
  /\ NextPort(h)
  /\ UNCHANGED <<busAddress, object, nextAddress, system>>

Enumerate(h) ==
  \/ PowerPort(h) \/ GetPortStatus(h) \/ ResetPort(h) \/ GetResetStatus(h)
  \/ ConfigureDevice(h) \/ GetHubStatus(h) \/ CheckPort(h)

-----------------------------------------------------------------------------
(* DWHCIRootPortInitialize, USPiInitialize and KernelMain.                   *)

RootPortConfigure ==
  /\ Working(Root, "initialized")
  /\ GoOn(Root, "setConfiguration")
  /\ UNCHANGED <<bus, object, loop, nextAddress, system>>

\* With an over-current the root port is disabled and its device destroyed.
RootPortReturns ==
  /\ current = Root /\ at[Root] \in {"absent", "configured"}
  /\ \/ UNCHANGED <<at, link>>
     \/ /\ at[Root] = "configured"
        /\ at' = [at EXCEPT ![Root] = "absent"]
        /\ link' = [d \in Devices |-> "off"]
  /\ current' = None
  /\ UNCHANGED <<busAddress, object, loop, nextAddress, system>>

\* The keyboard that was registered first is "ukbd1".
LibraryInitialized ==
  /\ current = None /\ main = "usb"
  /\ main' = "register"
  /\ keyboard' = GetFirstDevice
  /\ UNCHANGED <<bus, at, loop, object, current, nextAddress, kind, speed, names>>

RegisterHandler ==
  /\ main = "register"
  /\ main' = "idle"
  /\ UNCHANGED <<bus, at, loop, object, current, nextAddress, kind, speed, names, keyboard>>

Boot == RootPortConfigure \/ RootPortReturns \/ LibraryInitialized \/ RegisterHandler

Next ==
  \/ \E d \in Devices :
       \/ GetDeviceDescriptor(d) \/ SetAddress(d) \/ GetConfiguration(d)
       \/ SetConfiguration(d) \/ ConfigureFunction(d) \/ GetHubDescriptor(d)
       \/ Enumerate(d)
  \/ Boot

Spec == Init /\ [][Next]_vars

\* Every blocking request returns (module Dwhci), so the thread goes on.
FairSpec == Spec /\ WF_vars(Next)

-----------------------------------------------------------------------------

Progress ==
  {"absent", "descriptor", "address", "configuration", "initialized", "setConfiguration",
   "function", "hubDescriptor", "power", "status", "reset", "resetStatus", "configure",
   "hubStatus", "portStatus", "configured"}

TypeOK ==
  /\ link \in [Devices -> {"off", "powered", "enabled"}]
  /\ busAddress \in [Devices -> 0 .. MaxAddress] /\ address \in [Devices -> 0 .. MaxAddress]
  /\ nextAddress \in 0 .. AddressSize - 1
  /\ at \in [Devices -> Progress]
  /\ port \in [Devices -> 1 .. NPorts] /\ result \in [Devices -> BOOLEAN]
  /\ split \in [Devices -> BOOLEAN]
  /\ hubAddress \in [Devices -> 0 .. MaxAddress] /\ hubPort \in [Devices -> 1 .. NPorts]
  /\ current \in Devices \cup {None} /\ keyboard \in Devices \cup {None}
  /\ main \in {"usb", "register", "idle"} /\ names \in Seq(Devices)

(***************************************************************************)
(* Two devices answer to the same address only when one of them was given  *)
(* up before: ports are reset one after the other, and an address is used  *)
(* once, also when the message that sets it fails.                         *)
(***************************************************************************)
OneDeviceAnswers ==
  /\ TypeOK
  /\ \A d, e \in Devices :
       d # e /\ link[d] = "enabled" /\ link[e] = "enabled" /\ busAddress[d] = busAddress[e]
         => "absent" \in {at[d], at[e]}

(***************************************************************************)
(* The split transactions of a device go to the nearest high-speed hub in  *)
(* its chain, at the address and port that hub really has on the bus; a    *)
(* high-speed device, or one without such a hub, needs none.               *)
(***************************************************************************)
TranslatorIsNearest ==
  \A d \in Devices : at[d] # "absent" /\ link[d] = "enabled" =>
    LET fast == {h \in Above[d] : speed[h] = "high"} IN
    IF speed[d] = "high" \/ fast = {} THEN ~split[d]
    ELSE \E h \in fast, k \in Above[d] \cup {d} :
           /\ \A g \in fast : g = h \/ g \in Above[h]
           /\ k # Root /\ Parent[k] = h
           /\ split[d] /\ hubAddress[d] = busAddress[h] /\ hubPort[d] = PortOf[k]

(***************************************************************************)
(* When all is done, a device whose hubs all are configured is either      *)
(* configured, has power and answers to its address, or has no object: no  *)
(* over-current, failed message or unsupported device leaves it between.   *)
(***************************************************************************)
UsableWhenDone ==
  current = None =>
    \A d \in Devices : at[d] # "absent" /\ (\A h \in Above[d] : at[h] = "configured") =>
      at[d] = "configured" /\ link[d] = "enabled" /\ address[d] = busAddress[d]

\* Enumeration comes to an end, whatever fails.
EnumerationEnds == <>(main = "idle")
=============================================================================

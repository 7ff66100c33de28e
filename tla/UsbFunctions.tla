---------------------------- MODULE UsbFunctions ----------------------------
(***************************************************************************)
(* The functions of USB devices, one at a time: what they share is the     *)
(* host controller, which the model of each already takes for one that may *)
(* fail a transfer at any time.  A function that is not plugged in is as   *)
(* its constructor leaves it, at a device that does nothing.               *)
(***************************************************************************)
EXTENDS Configurations, MassStorage, UsbKeyboard, Ethernet, GamePad

VARIABLE plugged

functionVars == <<plugged, configurationVars, storageVars, keyboardVars, ethernetVars, gamePadVars>>

NoConfiguration == usbdev = NewDevice /\ descs = [seq |-> <<>>, vendor |-> "any", lengths |-> "wrong"]
NoStorage == umsd = NewObject /\ drive = NewDrive("other", BlockSize, {}, -1)
NoEthernet == lan = NewLan("smsc951x") /\ chip = NewChip("smsc951x", {})
NoGamePad == pad = NewPad /\ stick = [layout |-> CHOOSE l \in Layouts : TRUE, polls |-> 0, last |-> <<>>]

Init ==
  /\ plugged \in {"configuration", "storage", "keyboard", "ethernet", "gamepad"}
  /\ IF plugged = "configuration" THEN ConfigurationInit ELSE NoConfiguration
  /\ IF plugged = "storage" THEN StorageInit ELSE NoStorage
  /\ KeyboardInit
  /\ IF plugged = "ethernet" THEN EthernetInit ELSE NoEthernet
  /\ IF plugged = "gamepad" THEN GamePadInit ELSE NoGamePad

Next ==
  /\ UNCHANGED plugged
  /\ \/ /\ plugged = "configuration" /\ ConfigurationNext
        /\ UNCHANGED <<storageVars, keyboardVars, ethernetVars, gamePadVars>>
     \/ /\ plugged = "storage" /\ StorageNext
        /\ UNCHANGED <<configurationVars, keyboardVars, ethernetVars, gamePadVars>>
     \/ /\ plugged = "keyboard" /\ KeyboardNext
        /\ UNCHANGED <<configurationVars, storageVars, ethernetVars, gamePadVars>>
     \/ /\ plugged = "ethernet" /\ EthernetNext
        /\ UNCHANGED <<configurationVars, storageVars, keyboardVars, gamePadVars>>
     \/ /\ plugged = "gamepad" /\ GamePadNext
        /\ UNCHANGED <<configurationVars, storageVars, keyboardVars, ethernetVars>>

Spec == Init /\ [][Next]_functionVars
=============================================================================

---------------------------- MODULE DescriptionJson ----------------------------
(***************************************************************************)
(* A virtual machine as JSON (pkg/config/json.go): what GET /vm/inspect    *)
(* answers, and what a program makes of that answer.                       *)
(*                                                                         *)
(* An object is a record that has the fields the document has; its keys    *)
(* are the names of the fields here. A part of the machine that is empty   *)
(* is not written and read as empty. The parts are read in any order, each *)
(* for itself, and the first error ends it: an error is the whole result.  *)
(***************************************************************************)
EXTENDS DeviceOptions

NoFile == -2   \* the descriptor of an os.File that has none
NoBoot == [kind |-> "none"]
NoIgnition == [path |-> "", port |-> 0]

\* The fields tagged omitempty, and the values that are empty.
OmitEmpty(kind) ==
  CASE kind \in {"nvme", "usb", "blk"} -> {"path", "type", "readonly", "deviceId"}
    [] kind = "nbd"    -> {"uri", "readonly"}
    [] kind = "net"    -> {"fd", "path", "magic", "mac"}
    [] kind = "serial" -> {"logFile", "stdio", "pty"}
    [] kind = "vsock"  -> {"listen"}
    [] OTHER           -> {}

GoZero == [Empty EXCEPT !.nbd.timeout = 0, !.nbd.sync = "", !.vsock.listen = FALSE]

\* A file has no field to write.
MarshalDevice(d) ==
  [f \in {f \in DOMAIN d : f \in OmitEmpty(d.kind) => d[f] # GoZero[d.kind][f]} |->
     IF f = "fd" /\ d.fd # NoFd THEN NoFile ELSE d[f]]

\* Slip: the address stays in the field that hides the one of the device.
UnmarshalVirtioNet_NoMac(o) ==
  LET d == Over(o, [GoZero.net EXCEPT !.magic = "on"])
  IN  [d EXCEPT !.mac = "", !.magic = IF d.path = "" THEN "off" ELSE @]

\* The address is put where the device has it; the magic is on unless the
\* document says otherwise, and off without a path.
UnmarshalVirtioNet(o) ==
  LET d == Over(o, [GoZero.net EXCEPT !.magic = "on"])
  IN  IF "mac" \in DOMAIN o /\ o.mac \notin DOMAIN ParseMAC THEN Error
      ELSE [d EXCEPT !.mac = IF @ = "" THEN "" ELSE ParseMAC[@],
                     !.magic = IF d.path = "" THEN "off" ELSE @]

UnmarshalDevice(o) == IF o.kind = "net" THEN UnmarshalVirtioNet(o) ELSE Over(o, GoZero[o.kind])

\* Only two boot loaders have a MarshalJSON that writes their kind.
MarshalBootloader(b) == IF b.kind = "macos" THEN [b EXCEPT !.kind = ""] ELSE b

UnmarshalBootloader(o) == IF o.kind \in {"efi", "linux", "none"} THEN o ELSE Error

\* The vsock port of the ignition server is tagged "-".
MarshalJSON(vm) ==
  [vm EXCEPT !.boot = MarshalBootloader(@), !.ignition.port = 0,
             !.devices = [i \in DOMAIN @ |-> MarshalDevice(@[i])]]

\* "nested" is not among the keys that are read.
UnmarshalJSON(doc) ==
  LET boot == UnmarshalBootloader(doc.boot)
      devices == [i \in DOMAIN doc.devices |-> UnmarshalDevice(doc.devices[i])]
  IN  IF boot = Error \/ Error \in ToSet(devices) THEN Error
      ELSE [doc EXCEPT !.boot = boot, !.devices = devices, !.nested = FALSE]
=============================================================================

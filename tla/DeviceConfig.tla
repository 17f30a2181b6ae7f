----------------------------- MODULE DeviceConfig -----------------------------
(***************************************************************************)
(* Building the configuration of the virtual machine (pkg/vf): the devices *)
(* of the command line are added one after the other, some of them take    *)
(* something from the host and register an exit handler that gives it      *)
(* back, and the first error ends the process.                             *)
(*                                                                         *)
(* A device is a kind; its options only matter in whether the framework    *)
(* accepts it, which is nondeterministic. An entry of the configuration is *)
(* the position of its device on the command line, 0 for the vsock devices *)
(* of time synchronisation and of ignition.                                *)
(***************************************************************************)
EXTENDS Naturals, Sequences

CONSTANTS
  Kinds,       \* the kinds of device on the command line
  MaxDevices   \* bound: how many of them

\* The list of the configuration a device is added to.
Slot ==
  [nvme |-> "storage", blk |-> "storage", usb |-> "storage", nbd |-> "storage",
   blockDev |-> "storage", fs |-> "sharing", rosetta |-> "sharing",
   pointing |-> "pointing", keyboard |-> "keyboard", gpu |-> "graphics",
   nat |-> "network", netFd |-> "network", netUnix |-> "network",
   rng |-> "entropy", balloon |-> "balloon", logFile |-> "serial",
   stdio |-> "serial", pty |-> "console", vsock |-> "socket"]

Slots == {Slot[k] : k \in DOMAIN Slot}

ASSUME KindsAssumption == Kinds \subseteq DOMAIN Slot
ASSUME MaxDevicesAssumption == MaxDevices \in Nat

VARIABLES
  devices,    \* the kinds of the devices, as on the command line
  automatic,  \* which of time synchronisation and ignition want a vsock device
  at,         \* the position of the device that is being added
  dial,       \* how far connectUnixPath is for that device
  cfg,        \* the configuration: positions for each slot
  host,       \* what the process has from the host, as <<what, position>>
  handlers,   \* what the exit handlers give back, in the order they run
  phase       \* where the process is

request == <<devices, automatic>>
vars == <<request, at, dial, cfg, host, handlers, phase>>

Features == {"timesync", "ignition"}

Resource == {"blockDev", "socketFile", "netFd", "pty", "rawStdin"} \X (1 .. MaxDevices)

CommandLines == UNION {[1 .. n -> Kinds] : n \in 0 .. MaxDevices}

TypeOK ==
  /\ devices \in CommandLines
  /\ automatic \in SUBSET Features
  /\ at \in 1 .. Len(devices) + 1
  /\ dial \in {"none", "reserved", "bound"}
  /\ cfg \in [Slots -> Seq(0 .. MaxDevices)]
  /\ host \subseteq Resource
  /\ handlers \in Seq(Resource)
  /\ phase \in {"devices", "automatic", "validate", "built", "failed", "ended", "killed"}

Init ==
  /\ devices \in CommandLines
  /\ automatic \in SUBSET Features
  /\ at = 1 /\ dial = "none"
  /\ cfg = [s \in Slots |-> <<>>]
  /\ host = {} /\ handlers = <<>>
  /\ phase = "devices"

------------------------------------------------------------------------------
\* AddToVirtualMachineConfig.

\* The next device is one of these kinds.
Adding(kinds) ==
  /\ phase = "devices" /\ at <= Len(devices)
  /\ devices[at] \in kinds

Added(entries) ==
  /\ cfg' = [cfg EXCEPT ![Slot[devices[at]]] = entries]
  /\ at' = at + 1
  /\ dial' = "none"
  /\ UNCHANGED <<request, phase>>

Appended == Append(cfg[Slot[devices[at]]], at)

\* An error of any call ends NewVirtualMachine.
Fail ==
  /\ phase' = "failed"
  /\ dial' = "none"
  /\ UNCHANGED <<request, at, cfg>>

\* Devices that keep nothing from the host when they fail.
Disks == {"nvme", "blk", "usb"}
NetworkDisks == {"nbd"}
SharedDirs == {"fs"}
RosettaShares == {"rosetta"}
Plain == Disks \cup NetworkDisks \cup SharedDirs \cup RosettaShares
         \cup {"pointing", "keyboard", "gpu", "nat", "rng", "logFile"}

\* Slip: the device is put before the others.
AddPlain_First ==
  /\ Adding(Plain)
  /\ Added(<<at>> \o cfg[Slot[devices[at]]]) \/ Fail
  /\ UNCHANGED <<host, handlers>>

AddPlain ==
  /\ Adding(Plain)
  /\ Added(Appended) \/ Fail
  /\ UNCHANGED <<host, handlers>>

\* There is one balloon: the last one given.
AddBalloon ==
  /\ Adding({"balloon"})
  /\ Added(<<at>>) \/ Fail
  /\ UNCHANGED <<host, handlers>>

\* A file is opened and given back when the attachment fails; the device itself
\* may still fail with the handler registered.
AddBlockDevice ==
  /\ Adding({"blockDev"})
  /\ \/ /\ host' = host \cup {<<"blockDev", at>>}
        /\ handlers' = Append(handlers, <<"blockDev", at>>)
        /\ Added(Appended) \/ Fail
     \/ Fail /\ UNCHANGED <<host, handlers>>

\* virtio-net,fd=: the descriptor is there from the start, its handler is
\* registered first
AddNetFd ==
  /\ Adding({"netFd"})
  /\ host' = host \cup {<<"netFd", at>>}
  /\ handlers' = Append(handlers, <<"netFd", at>>)
  /\ Added(Appended) \/ Fail

\* localUnixSocketPath: the name is reserved by a file, and the file removed
ReservePath ==
  /\ Adding({"netUnix"}) /\ dial = "none"
  /\ \/ /\ dial' = "reserved"
        /\ UNCHANGED <<request, at, cfg, phase>>
     \/ Fail
  /\ UNCHANGED <<host, handlers>>

\* net.DialUnix binds the local socket, then connects it; the file of a socket
\* that could not connect stays
Dial ==
  /\ Adding({"netUnix"}) /\ dial = "reserved"
  /\ \/ /\ host' = host \cup {<<"socketFile", at>>}
        /\ \/ dial' = "bound" /\ UNCHANGED <<request, at, cfg, phase>>
           \/ Fail
     \/ Fail /\ UNCHANGED host
  /\ UNCHANGED handlers

\* Slip: Shutdown only closes the descriptor.
Connect_KeepsFile ==
  /\ Adding({"netUnix"}) /\ dial = "bound"
  /\ \/ /\ handlers' = Append(handlers, <<"netFd", at>>)
        /\ host' = host \cup {<<"netFd", at>>}
        /\ Added(Appended) \/ Fail
     \/ Fail /\ UNCHANGED <<host, handlers>>

\* Buffers are set, the magic is sent and the descriptor duplicated, or an error
\* returns at once; only then is Shutdown registered, which gives both back.
Connect ==
  /\ Adding({"netUnix"}) /\ dial = "bound"
  /\ \/ /\ handlers' = handlers \o << <<"socketFile", at>>, <<"netFd", at>> >>
        /\ host' = host \cup {<<"netFd", at>>}
        /\ Added(Appended) \/ Fail
     \/ Fail /\ UNCHANGED <<host, handlers>>

\* virtio-serial,stdio: standard input is made raw, and nothing undoes it
AddStdio ==
  /\ Adding({"stdio"})
  /\ \/ /\ host' = host \cup {<<"rawStdin", at>>}
        /\ Added(Appended) \/ Fail
     \/ Fail /\ UNCHANGED host
  /\ UNCHANGED handlers

\* virtio-serial,pty: the handler is registered as soon as the pty is open
AddPty ==
  /\ Adding({"pty"})
  /\ \/ /\ host' = host \cup {<<"pty", at>>}
        /\ handlers' = Append(handlers, <<"pty", at>>)
        /\ Added(Appended) \/ Fail
     \/ Fail /\ UNCHANGED <<host, handlers>>

\* A second vsock device is not added.
AddVsock ==
  /\ Adding({"vsock"})
  /\ \/ Added(IF cfg["socket"] = <<>> THEN <<at>> ELSE cfg["socket"])
     \/ cfg["socket"] = <<>> /\ Fail
  /\ UNCHANGED <<host, handlers>>

AddDevice ==
  \/ AddPlain \/ AddBalloon \/ AddBlockDevice \/ AddNetFd
  \/ ReservePath \/ Dial \/ Connect
  \/ AddStdio \/ AddPty \/ AddVsock

\* All devices of the command line are added.
DevicesAdded ==
  /\ phase = "devices" /\ at = Len(devices) + 1
  /\ phase' = "automatic"
  /\ UNCHANGED <<request, at, dial, cfg, host, handlers>>

\* Slip: nobody looks whether there is a vsock device already.
AddAutomatic_Always ==
  /\ phase = "automatic"
  /\ cfg' = [cfg EXCEPT !["socket"] = IF automatic = {} THEN @ ELSE Append(@, 0)]
  /\ phase' = "validate"
  /\ UNCHANGED <<request, at, dial, host, handlers>>

\* Time synchronisation and ignition each add a vsock device, unless there is one.
AddAutomatic ==
  /\ phase = "automatic"
  /\ \/ /\ cfg' = [cfg EXCEPT !["socket"] = IF automatic # {} /\ @ = <<>> THEN <<0>> ELSE @]
        /\ phase' = "validate"
        /\ UNCHANGED <<request, at, dial>>
     \/ automatic # {} /\ cfg["socket"] = <<>> /\ Fail
  /\ UNCHANGED <<host, handlers>>

\* The framework accepts the configuration, or does not.
Validate ==
  /\ phase = "validate"
  /\ phase' \in {"built", "failed"}
  /\ UNCHANGED <<request, at, dial, cfg, host, handlers>>

------------------------------------------------------------------------------
\* The end of the process.

\* The machine of a configuration that was built has run, or there was none: the
\* first handler runs.
RunHandler ==
  /\ phase \in {"built", "failed"} /\ handlers # <<>>
  /\ host' = host \ {Head(handlers)}
  /\ handlers' = Tail(handlers)
  /\ UNCHANGED <<request, at, dial, cfg, phase>>

\* Descriptors are closed with the process in any case.
Persistent == {r \in host : r[1] \in {"socketFile", "rawStdin"}}

Exit ==
  /\ phase \in {"built", "failed"} /\ handlers = <<>>
  /\ phase' = "ended"
  /\ host' = Persistent
  /\ UNCHANGED <<request, at, dial, cfg, handlers>>

Killed ==
  /\ phase \notin {"ended", "killed"}
  /\ phase' = "killed"
  /\ host' = Persistent
  /\ UNCHANGED <<request, at, dial, cfg, handlers>>

Ended == phase \in {"ended", "killed"} /\ UNCHANGED vars

Next ==
  \/ AddDevice \/ DevicesAdded \/ AddAutomatic \/ Validate
  \/ RunHandler \/ Exit \/ Killed \/ Ended

Spec == Init /\ [][Next]_vars

------------------------------------------------------------------------------
\* Correctness.

Wanted(s) == {i \in 1 .. Len(devices) : Slot[devices[i]] = s}

\* All the positions, each of them once, in their order.
Lists(entries, positions) ==
  /\ {entries[i] : i \in DOMAIN entries} = positions
  /\ \A i, j \in DOMAIN entries : i < j => entries[i] < entries[j]

\* The machine that is built has what was asked for, in the order it was asked
\* for, which is the order the guest numbers disks and interfaces in.
InOrder ==
  phase = "built" => \A s \in Slots \ {"socket", "balloon"} : Lists(cfg[s], Wanted(s))

\* However many features and options ask for a vsock device, the machine has
\* one, and none when nobody asks: ConnectVsockSync and the ignition server
\* refuse any other number.
OneVsock ==
  phase = "built" =>
    Len(cfg["socket"]) = IF automatic = {} /\ Wanted("socket") = {} THEN 0 ELSE 1

\* A process that ends by itself, wherever its set-up failed, gives everything
\* back except the terminal and the socket of a device that could not connect.
GivenBack ==
  phase = "ended" =>
    \A r \in host :
      \/ r[1] = "rawStdin"
      \/ r[1] = "socketFile" /\ r[2] = at
===============================================================================

------------------------- MODULE DeviceConfig_proofs -------------------------
(***************************************************************************)
(* Theorems about the configuration of the machine and what is taken from  *)
(* the host for it, for every command line.                                *)
(***************************************************************************)
EXTENDS DeviceConfig, SequenceTheorems, TLAPS

Configuring == phase \in {"devices", "automatic", "validate", "built"}

\* The device of a local socket is being connected.
Dialling ==
  dial # "none" => /\ phase \in {"devices", "killed"} /\ at \in 1 .. Len(devices)
                   /\ devices[at] = "netUnix"

\* The devices before this one are in their lists, and nothing else is.
Positions(s) == {i \in 1 .. at - 1 : Slot[devices[i]] = s}

Entries ==
  Configuring => \A s \in Slots \ {"socket", "balloon"} : Lists(cfg[s], Positions(s))

\* The vsock device: from the command line, or from a feature.
Sockets ==
  /\ phase \in {"devices", "automatic"} =>
       Len(cfg["socket"]) = IF Positions("socket") = {} THEN 0 ELSE 1
  /\ phase \in {"validate", "built"} =>
       Len(cfg["socket"]) = IF automatic = {} /\ Positions("socket") = {} THEN 0 ELSE 1

\* All devices are in the configuration when the last steps are taken.
Complete == phase \in {"automatic", "validate", "built"} => at = Len(devices) + 1

\* One of the exit handlers gives it back.
Among(r, seq) == \E i \in 1 .. Len(seq) : seq[i] = r

\* What the process has is given back by a handler, except the terminal and the
\* socket of a device that is not connected.
Held ==
  \A r \in host :
    \/ r[1] = "rawStdin"
    \/ r[1] = "socketFile" /\ r[2] = at /\ (dial = "bound" \/ ~Configuring)
    \/ Among(r, handlers)
    \/ phase = "killed"

\* A process that ended by itself ran all its handlers.
Drained == phase = "ended" => handlers = <<>>

IInv ==
  /\ TypeOK
  /\ Dialling
  /\ Entries
  /\ Sockets
  /\ Complete
  /\ Held
  /\ Drained

------------------------------------------------------------------------------
\* The lists of the two kinds of device that are treated apart.
LEMMA SlotFacts ==
  /\ "socket" \in Slots /\ "balloon" \in Slots
  /\ Slot["vsock"] = "socket" /\ Slot["balloon"] = "balloon"
  /\ \A k \in DOMAIN Slot : Slot[k] \in Slots
  /\ \A k \in DOMAIN Slot : Slot[k] = "socket" => k = "vsock"
  /\ \A k \in DOMAIN Slot : Slot[k] = "balloon" => k = "balloon"
  /\ "netUnix" \in DOMAIN Slot /\ "vsock" \in DOMAIN Slot /\ "balloon" \in DOMAIN Slot
BY DEF Slot, Slots

LEMMA DevicesAreSeq ==
  ASSUME devices \in CommandLines
  PROVE  /\ Len(devices) \in 0 .. MaxDevices
         /\ devices \in [1 .. Len(devices) -> Kinds]
<1>1. PICK n \in 0 .. MaxDevices : devices \in [1 .. n -> Kinds]
  BY DEF CommandLines
<1>2. Len(devices) = n
  BY <1>1, MaxDevicesAssumption
<1> QED
  BY <1>1, <1>2

\* A position behind all others goes to the end of a list.
LEMMA ListsAppend ==
  ASSUME NEW entries \in Seq(Nat), NEW positions, NEW n \in Nat,
         Lists(entries, positions), \A p \in positions : p < n
  PROVE  Lists(Append(entries, n), positions \cup {n})
<1> DEFINE longer == Append(entries, n)
<1>1. /\ longer \in Seq(Nat) /\ DOMAIN longer = 1 .. Len(entries) + 1
      /\ DOMAIN entries = 1 .. Len(entries) /\ Len(entries) \in Nat
      /\ \A i \in 1 .. Len(entries) : longer[i] = entries[i]
      /\ longer[Len(entries) + 1] = n
  OBVIOUS
<1>2. {longer[i] : i \in DOMAIN longer} = positions \cup {n}
  BY <1>1 DEF Lists
<1>3. ASSUME NEW i \in DOMAIN longer, NEW j \in DOMAIN longer, i < j PROVE longer[i] < longer[j]
  <2>1. CASE j = Len(entries) + 1
    BY <2>1, <1>1, <1>3 DEF Lists
  <2>2. CASE j # Len(entries) + 1
    BY <2>2, <1>1, <1>3 DEF Lists
  <2> QED
    BY <2>1, <2>2
<1> QED
  BY <1>2, <1>3 DEF Lists

\* One device more is in the configuration.
LEMMA PositionsGrow ==
  ASSUME TypeOK, at \in 1 .. Len(devices), at' = at + 1, UNCHANGED request, NEW s
  PROVE  Positions(s)' = IF Slot[devices[at]] = s THEN Positions(s) \cup {at} ELSE Positions(s)
<1>1. devices' = devices /\ 1 .. at' - 1 = (1 .. at - 1) \cup {at}
  <2>1. Len(devices) \in Nat
    BY DevicesAreSeq, MaxDevicesAssumption DEF TypeOK
  <2> QED
    BY <2>1 DEF request
<1> QED
  BY <1>1 DEF Positions

\* The position of the device that is added is one of the command line.
LEMMA AddingFacts ==
  ASSUME IInv, NEW kinds, Adding(kinds)
  PROVE  /\ at \in 1 .. Len(devices) /\ at \in 1 .. MaxDevices
         /\ devices[at] \in DOMAIN Slot /\ Slot[devices[at]] \in Slots
         /\ devices[at] \in kinds
         /\ phase = "devices"
<1>1. /\ Len(devices) \in 0 .. MaxDevices
      /\ devices \in [1 .. Len(devices) -> Kinds]
  BY DevicesAreSeq DEF IInv, TypeOK
<1>2. at \in 1 .. Len(devices)
  BY <1>1, MaxDevicesAssumption DEF IInv, TypeOK, Adding
<1> QED
  BY <1>1, <1>2, KindsAssumption, SlotFacts, MaxDevicesAssumption DEF Adding

------------------------------------------------------------------------------
LEMMA InitEstablishes == Init => IInv
<1> SUFFICES ASSUME Init PROVE IInv
  OBVIOUS
<1>1. TypeOK
  <2>1. Len(devices) \in Nat
    BY DevicesAreSeq, MaxDevicesAssumption DEF Init
  <2> QED
    BY <2>1 DEF Init, TypeOK
<1>2. \A s : Positions(s) = {}
  BY DEF Init, Positions
<1>3. Entries /\ Sockets
  BY <1>2, SlotFacts DEF Init, Entries, Sockets, Lists
<1> QED
  BY <1>1, <1>3 DEF Init, IInv, Dialling, Complete, Held, Drained

------------------------------------------------------------------------------
\* The configuration: what the steps that add a device have in common.

CfgTypeOK ==
  /\ devices \in CommandLines /\ automatic \in SUBSET Features
  /\ at \in 1 .. Len(devices) + 1
  /\ dial \in {"none", "reserved", "bound"}
  /\ cfg \in [Slots -> Seq(0 .. MaxDevices)]
  /\ phase \in {"devices", "automatic", "validate", "built", "failed", "ended", "killed"}

Configuration == CfgTypeOK /\ Dialling /\ Entries /\ Sockets /\ Complete

LEMMA FailKeeps ==
  ASSUME IInv, Fail PROVE Configuration'
BY DEF IInv, TypeOK, Fail, Configuration, CfgTypeOK, Dialling, Entries, Sockets, Complete,
       Configuring, Positions, Lists, request

LEMMA AddedKeeps ==
  ASSUME IInv, NEW kinds, Adding(kinds), NEW entries, Added(entries),
         \/ Slot[devices[at]] \notin {"socket", "balloon"} /\ entries = Appended
         \/ Slot[devices[at]] = "balloon" /\ entries = <<at>>
         \/ /\ Slot[devices[at]] = "socket"
            /\ entries = IF cfg["socket"] = <<>> THEN <<at>> ELSE cfg["socket"]
  PROVE  Configuration'
<1> DEFINE slot == Slot[devices[at]]
<1>1. /\ at \in 1 .. Len(devices) /\ at \in 1 .. MaxDevices /\ slot \in Slots
      /\ phase = "devices" /\ Len(devices) \in Nat
  BY AddingFacts, DevicesAreSeq, MaxDevicesAssumption DEF IInv, TypeOK
<1>2. /\ at' = at + 1 /\ dial' = "none" /\ phase' = "devices" /\ UNCHANGED request
      /\ cfg' = [cfg EXCEPT ![slot] = entries]
      /\ devices' = devices /\ automatic' = automatic
  BY <1>1 DEF Added, request
<1>3. cfg \in [Slots -> Seq(0 .. MaxDevices)] /\ entries \in Seq(0 .. MaxDevices)
  <2>1. cfg \in [Slots -> Seq(0 .. MaxDevices)] /\ at \in 0 .. MaxDevices
    BY <1>1 DEF IInv, TypeOK
  <2>2. cfg[slot] \in Seq(0 .. MaxDevices) /\ cfg["socket"] \in Seq(0 .. MaxDevices)
    BY <2>1, <1>1, SlotFacts
  <2>3. Appended \in Seq(0 .. MaxDevices)
    BY <2>1, <2>2 DEF Appended
  <2>4. <<at>> \in Seq(0 .. MaxDevices)
    BY <2>1
  <2> QED
    BY <2>1, <2>2, <2>3, <2>4
<1>4. CfgTypeOK'
  BY <1>1, <1>2, <1>3 DEF CfgTypeOK, IInv, TypeOK
<1>5. Dialling' /\ Complete'
  BY <1>2 DEF Dialling, Complete
<1>6. ASSUME NEW s \in Slots PROVE Positions(s)' = IF slot = s THEN Positions(s) \cup {at} ELSE Positions(s)
  BY <1>1, <1>2, PositionsGrow DEF IInv
<1>7. Entries'
  <2> SUFFICES ASSUME NEW s \in Slots \ {"socket", "balloon"} PROVE Lists(cfg'[s], Positions(s)')
    BY DEF Entries
  <2>1. Lists(cfg[s], Positions(s))
    BY <1>1 DEF IInv, Entries, Configuring
  <2>2. CASE slot # s
    BY <2>1, <2>2, <1>2, <1>3, <1>6
  <2>3. CASE slot = s
    <3>1. cfg'[s] = Append(cfg[s], at)
      BY <2>3, <1>2, <1>3 DEF Appended
    <3>2. cfg[s] \in Seq(Nat) /\ at \in Nat
      BY <1>1, <1>3, MaxDevicesAssumption
    <3>3. \A p \in Positions(s) : p < at
      BY <1>1 DEF Positions
    <3> QED
      BY <3>1, <3>2, <3>3, <2>1, <2>3, <1>6, ListsAppend
  <2> QED
    BY <2>2, <2>3
<1>8. Sockets'
  <2>1. cfg["socket"] \in Seq(0 .. MaxDevices) /\ Len(cfg["socket"]) = IF Positions("socket") = {} THEN 0 ELSE 1
    BY <1>1, <1>3, SlotFacts DEF IInv, Sockets
  <2>2. CASE slot # "socket"
    BY <2>1, <2>2, <1>2, <1>3, <1>6, SlotFacts DEF Sockets
  <2>3. CASE slot = "socket"
    <3>1. Positions("socket")' # {}
      BY <2>3, <1>6, SlotFacts
    <3>2. Len(entries) = 1
      <4>1. CASE cfg["socket"] = <<>>
        <5>1. entries = <<at>>
          BY <4>1, <2>3
        <5> QED
          BY <5>1
      <4>2. CASE cfg["socket"] # <<>>
        <5>1. entries = cfg["socket"]
          BY <4>2, <2>3
        <5>2. Len(cfg["socket"]) # 0
          BY <4>2, <2>1, EmptySeq
        <5> QED
          BY <5>1, <5>2, <2>1
      <4> QED
        BY <4>1, <4>2
    <3> QED
      BY <3>1, <3>2, <2>3, <1>2, <1>3, SlotFacts DEF Sockets
  <2> QED
    BY <2>2, <2>3
<1> QED
  BY <1>4, <1>5, <1>7, <1>8 DEF Configuration

\* Every way of adding a device keeps the configuration right.
LEMMA DeviceKeepsConfiguration ==
  ASSUME IInv, AddDevice PROVE Configuration'
<1> DEFINE slot == Slot[devices[at]]
<1> USE SlotFacts
<1>1. ASSUME NEW kinds, Adding(kinds), "vsock" \notin kinds, "balloon" \notin kinds, Added(Appended) \/ Fail
      PROVE  Configuration'
  <2>1. slot \notin {"socket", "balloon"}
    BY <1>1, AddingFacts
  <2> QED
    BY <2>1, <1>1, FailKeeps, AddedKeeps
<1>2. CASE AddPlain
  BY <1>2, <1>1 DEF AddPlain, Plain, Disks, NetworkDisks, SharedDirs, RosettaShares
<1>3. CASE AddBlockDevice \/ AddNetFd \/ Connect
  BY <1>3, <1>1 DEF AddBlockDevice, AddNetFd, Connect
<1>4. CASE AddStdio \/ AddPty
  BY <1>4, <1>1 DEF AddStdio, AddPty
<1>5. CASE AddBalloon
  <2>1. Adding({"balloon"}) /\ (Added(<<at>>) \/ Fail)
    BY <1>5 DEF AddBalloon
  <2>2. slot = "balloon"
    BY <2>1, AddingFacts
  <2> QED
    BY <2>1, <2>2, FailKeeps, AddedKeeps
<1>6. CASE AddVsock
  <2>1. Adding({"vsock"}) /\ (Added(IF cfg["socket"] = <<>> THEN <<at>> ELSE cfg["socket"]) \/ Fail)
    BY <1>6 DEF AddVsock
  <2>2. slot = "socket"
    BY <2>1, AddingFacts
  <2> QED
    BY <2>1, <2>2, FailKeeps, AddedKeeps
<1>7. CASE ReservePath \/ Dial
  <2>1. Adding({"netUnix"}) /\ (Fail \/ (dial' \in {"reserved", "bound"} /\ UNCHANGED <<request, at, cfg, phase>>))
    BY <1>7 DEF ReservePath, Dial
  <2>2. CASE Fail
    BY <2>2, FailKeeps
  <2>3. CASE dial' \in {"reserved", "bound"} /\ UNCHANGED <<request, at, cfg, phase>>
    <3>1. at \in 1 .. Len(devices) /\ devices[at] = "netUnix" /\ phase = "devices"
      BY <2>1, AddingFacts
    <3> QED
      BY <3>1, <2>3
      DEF IInv, TypeOK, Configuration, CfgTypeOK, Dialling, Entries, Sockets, Complete, Configuring,
          Positions, Lists, request
  <2> QED
    BY <2>1, <2>2, <2>3
<1> QED
  BY <1>2, <1>3, <1>4, <1>5, <1>6, <1>7 DEF AddDevice

\* So do the steps that follow.
LEMMA ConfigurationKept ==
  ASSUME IInv, [Next]_vars PROVE Configuration'
<1> USE DEF IInv, TypeOK, Configuration, CfgTypeOK, Dialling, Entries, Sockets, Complete, Configuring,
            Positions, Lists, request
<1>1. CASE AddDevice
  BY <1>1, DeviceKeepsConfiguration
<1>2. CASE DevicesAdded
  BY <1>2 DEF DevicesAdded
<1>3. CASE AddAutomatic
  <2>1. phase = "automatic" /\ dial = "none"
    BY <1>3 DEF AddAutomatic
  <2>2. CASE Fail
    BY <2>2, FailKeeps
  <2>3. CASE ~Fail
    <3> DEFINE sockets == IF automatic # {} /\ cfg["socket"] = <<>> THEN <<0>> ELSE cfg["socket"]
    <3>1. /\ cfg' = [cfg EXCEPT !["socket"] = sockets]
          /\ phase' = "validate" /\ UNCHANGED <<request, at, dial>>
      BY <1>3, <2>3 DEF AddAutomatic
    <3>2. cfg["socket"] \in Seq(0 .. MaxDevices) /\ sockets \in Seq(0 .. MaxDevices)
      <4>1. cfg["socket"] \in Seq(0 .. MaxDevices)
        BY SlotFacts
      <4>2. <<0>> \in Seq(0 .. MaxDevices)
        BY MaxDevicesAssumption
      <4> QED
        BY <4>1, <4>2
    <3>3. cfg'["socket"] = sockets /\ cfg' \in [Slots -> Seq(0 .. MaxDevices)]
      BY <3>1, <3>2, SlotFacts
    <3>4. \A s \in Slots \ {"socket"} : cfg'[s] = cfg[s]
      BY <3>1
    <3>5. Len(sockets) = IF automatic = {} /\ Positions("socket") = {} THEN 0 ELSE 1
      BY <2>1, <3>2, EmptySeq
    <3> QED
      BY <2>1, <3>1, <3>3, <3>4, <3>5
  <2> QED
    BY <2>2, <2>3
<1>4. CASE Validate
  BY <1>4 DEF Validate
<1>5. CASE UNCHANGED <<request, at, dial, cfg, phase>>
  <2> USE <1>5
  <2>1. \A s : Positions(s)' = Positions(s)
    OBVIOUS
  <2> QED
    BY <2>1 DEF Lists
<1>6. CASE Exit \/ Killed
  BY <1>6 DEF Exit, Killed
<1>7. CASE RunHandler \/ Ended \/ UNCHANGED vars
  BY <1>7, <1>5 DEF RunHandler, Ended, vars
<1> QED
  BY <1>1, <1>2, <1>3, <1>4, <1>6, <1>7 DEF Next

------------------------------------------------------------------------------
\* What the process has from the host.

HostTypeOK == host \subseteq Resource /\ handlers \in Seq(Resource)

\* A handler that is registered is the last one, and the others stay.
LEMMA HandlerAdded ==
  ASSUME NEW hs \in Seq(Resource), NEW x \in Resource
  PROVE  /\ Append(hs, x) \in Seq(Resource) /\ Among(x, Append(hs, x))
         /\ \A r : Among(r, hs) => Among(r, Append(hs, x))
<1>1. /\ Append(hs, x) \in Seq(Resource) /\ Len(Append(hs, x)) = Len(hs) + 1 /\ Len(hs) \in Nat
      /\ Append(hs, x)[Len(hs) + 1] = x
      /\ \A i \in 1 .. Len(hs) : Append(hs, x)[i] = hs[i]
  OBVIOUS
<1> QED
  BY <1>1 DEF Among

\* Two handlers are registered one after the other.
LEMMA HandlersAdded ==
  ASSUME NEW hs \in Seq(Resource), NEW x \in Resource, NEW y \in Resource
  PROVE  /\ hs \o <<x, y>> \in Seq(Resource)
         /\ Among(x, hs \o <<x, y>>) /\ Among(y, hs \o <<x, y>>)
         /\ \A r : Among(r, hs) => Among(r, hs \o <<x, y>>)
<1>1. hs \o <<x, y>> = Append(Append(hs, x), y)
  OBVIOUS
<1>2. Append(hs, x) \in Seq(Resource)
  OBVIOUS
<1> QED
  BY <1>1, <1>2, HandlerAdded

\* A device was added or refused, or the local socket of one is being made: all
\* that is taken for it is handled, or excepted.
LEMMA StepHolds ==
  ASSUME IInv, HostTypeOK', phase = "devices",
         \/ dial = "none" /\ at' = at + 1 /\ dial' = "none" /\ UNCHANGED phase
         \/ phase' = "failed" /\ UNCHANGED at
         \/ UNCHANGED <<at, phase>> /\ dial # "bound",
         \A r : Among(r, handlers) => Among(r, handlers'),
         \A r \in host' \ host : \/ r[1] = "rawStdin" \/ Among(r, handlers')
                                 \/ r[1] = "socketFile" /\ r[2] = at' /\ (dial' = "bound" \/ phase' = "failed")
  PROVE  Held'
<1> SUFFICES ASSUME NEW r \in host'
             PROVE  \/ r[1] = "rawStdin" \/ Among(r, handlers')
                    \/ r[1] = "socketFile" /\ r[2] = at' /\ (dial' = "bound" \/ ~Configuring')
  BY DEF Held
<1>1. CASE r \notin host
  BY <1>1 DEF Configuring
<1>2. CASE r \in host
  <2>1. \/ r[1] = "rawStdin" \/ Among(r, handlers)
        \/ r[1] = "socketFile" /\ r[2] = at /\ dial = "bound"
    BY <1>2 DEF IInv, Held, Configuring
  <2> QED
    BY <2>1 DEF Configuring
<1> QED
  BY <1>1, <1>2

LEMMA DeviceHolds ==
  ASSUME IInv, AddDevice PROVE HostTypeOK' /\ Held'
<1>2. HostTypeOK
  BY DEF IInv, TypeOK, HostTypeOK
\* A device other than one of a local socket.
<1>3. ASSUME NEW kinds, Adding(kinds), "netUnix" \notin kinds,
             NEW entries, Added(entries) \/ Fail,
             HostTypeOK',
             \A r : Among(r, handlers) => Among(r, handlers'),
             \A r \in host' \ host : r[1] = "rawStdin" \/ Among(r, handlers')
      PROVE  HostTypeOK' /\ Held'
  <2>1. phase = "devices" /\ dial = "none"
    BY <1>3, AddingFacts DEF IInv, Dialling
  <2>2. \/ at' = at + 1 /\ dial' = "none" /\ UNCHANGED phase
        \/ phase' = "failed" /\ UNCHANGED at
    BY <1>3 DEF Added, Fail
  <2> QED
    BY <2>1, <2>2, <1>3, StepHolds
\* It takes nothing, ...
<1>4. CASE AddPlain \/ AddBalloon \/ AddVsock
  <2>1. HostTypeOK' /\ (\A r : Among(r, handlers) => Among(r, handlers')) /\ host' = host
    BY <1>2, <1>4 DEF AddPlain, AddBalloon, AddVsock, HostTypeOK, Among
  <2> QED
    BY <2>1, <1>3, <1>4 DEF AddPlain, Plain, Disks, NetworkDisks, SharedDirs, RosettaShares, AddBalloon, AddVsock
\* ... or takes something and registers its handler, ...
<1>5. ASSUME NEW what \in {"blockDev", "netFd", "pty"}, NEW kinds, Adding(kinds), "netUnix" \notin kinds,
             NEW entries, Added(entries) \/ Fail,
             host' = host \cup {<<what, at>>}, handlers' = Append(handlers, <<what, at>>)
      PROVE  HostTypeOK' /\ Held'
  <2>1. <<what, at>> \in Resource
    BY <1>5, AddingFacts DEF Resource
  <2>2. handlers' \in Seq(Resource) /\ Among(<<what, at>>, handlers') /\ \A r : Among(r, handlers) => Among(r, handlers')
    BY <2>1, <1>2, <1>5, HandlerAdded DEF HostTypeOK
  <2>3. HostTypeOK'
    BY <2>1, <2>2, <1>2, <1>5 DEF HostTypeOK
  <2> QED
    BY <2>2, <2>3, <1>3, <1>5
\* ... or fails before that.
<1>6. ASSUME NEW kinds, Adding(kinds), "netUnix" \notin kinds, Fail, UNCHANGED <<host, handlers>>
      PROVE  HostTypeOK' /\ Held'
  <2>1. HostTypeOK' /\ (\A r : Among(r, handlers) => Among(r, handlers')) /\ host' = host
    BY <1>2, <1>6 DEF HostTypeOK, Among
  <2> QED
    BY <2>1, <1>3, <1>6
<1>7. CASE AddBlockDevice \/ AddPty \/ AddNetFd
  BY <1>7, <1>5, <1>6 DEF AddBlockDevice, AddPty, AddNetFd
<1>8. CASE AddStdio
  <2>1. /\ Adding({"stdio"}) /\ handlers' = handlers /\ (Added(Appended) \/ Fail)
        /\ host' \subseteq host \cup {<<"rawStdin", at>>}
    BY <1>8 DEF AddStdio
  <2>2. <<"rawStdin", at>> \in Resource
    BY <2>1, AddingFacts DEF Resource
  <2>3. HostTypeOK' /\ (\A r : Among(r, handlers) => Among(r, handlers'))
    BY <1>2, <2>1, <2>2 DEF HostTypeOK, Among
  <2> QED
    BY <2>1, <2>3, <1>3
\* The steps of a local socket.
<1>9. CASE ReservePath \/ Dial
  <2>1. /\ Adding({"netUnix"}) /\ handlers' = handlers
        /\ dial # "bound"
        /\ \/ Fail
           \/ UNCHANGED <<at, phase>>
        /\ host' \subseteq host \cup {<<"socketFile", at>>}
        /\ host' # host => Fail \/ dial' = "bound"
    BY <1>9 DEF ReservePath, Dial
  <2>2. <<"socketFile", at>> \in Resource /\ phase = "devices"
    BY <2>1, AddingFacts DEF Resource
  <2>3. HostTypeOK' /\ (\A r : Among(r, handlers) => Among(r, handlers'))
    BY <1>2, <2>1, <2>2 DEF HostTypeOK, Among
  <2>4. (phase' = "failed" /\ UNCHANGED at) \/ (UNCHANGED <<at, phase>> /\ dial # "bound")
    BY <2>1 DEF Fail
  <2>5. \A r \in host' \ host : r[1] = "socketFile" /\ r[2] = at' /\ (dial' = "bound" \/ phase' = "failed")
    BY <2>1 DEF Fail
  <2> QED
    BY <2>2, <2>3, <2>4, <2>5, StepHolds
<1>10. CASE Connect
  <2>1. Adding({"netUnix"}) /\ dial = "bound"
    BY <1>10 DEF Connect
  <2>2. at \in 1 .. MaxDevices /\ phase = "devices"
    BY <2>1, AddingFacts
  <2>3. CASE Fail /\ UNCHANGED <<host, handlers>>
    <3>1. HostTypeOK' /\ (\A r : Among(r, handlers) => Among(r, handlers')) /\ host' = host
      BY <1>2, <2>3 DEF HostTypeOK, Among
    <3> QED
      BY <3>1, <2>2, <2>3, StepHolds DEF Fail
  <2>4. CASE /\ handlers' = handlers \o << <<"socketFile", at>>, <<"netFd", at>> >>
             /\ host' = host \cup {<<"netFd", at>>}
             /\ Added(Appended) \/ Fail
    <3>1. <<"socketFile", at>> \in Resource /\ <<"netFd", at>> \in Resource
      BY <2>2 DEF Resource
    <3>3. /\ handlers' \in Seq(Resource)
          /\ Among(<<"socketFile", at>>, handlers') /\ Among(<<"netFd", at>>, handlers')
          /\ \A r : Among(r, handlers) => Among(r, handlers')
      BY <1>2, <2>4, <3>1, HandlersAdded DEF HostTypeOK
    <3>4. HostTypeOK'
      BY <1>2, <2>4, <3>1, <3>3 DEF HostTypeOK
    <3>5. CASE Fail
      BY <3>3, <3>4, <3>5, <2>2, <2>4, StepHolds DEF Fail
    <3>6. CASE Added(Appended)
      <4> SUFFICES ASSUME NEW r \in host' PROVE r[1] = "rawStdin" \/ Among(r, handlers')
        BY <3>4 DEF Held
      <4>1. CASE r = <<"netFd", at>>
        BY <4>1, <3>3
      <4>2. CASE r \in host
        <5>1. r[1] = "rawStdin" \/ Among(r, handlers) \/ (r[1] = "socketFile" /\ r[2] = at)
          BY <4>2, <2>2 DEF IInv, Held, Configuring
        <5>2. r[1] = "socketFile" /\ r[2] = at => r = <<"socketFile", at>>
          BY <4>2, <1>2 DEF HostTypeOK, Resource
        <5> QED
          BY <5>1, <5>2, <3>3
      <4> QED
        BY <4>1, <4>2, <2>4
    <3> QED
      BY <3>5, <3>6, <2>4
  <2> QED
    BY <1>10, <2>3, <2>4 DEF Connect
<1> QED
  BY <1>4, <1>7, <1>8, <1>9, <1>10 DEF AddDevice

\* The later steps give back or keep.
LEMMA HostKept ==
  ASSUME IInv, [Next]_vars PROVE HostTypeOK' /\ Held'
<1>1. HostTypeOK
  BY DEF IInv, TypeOK, HostTypeOK
<1>2. CASE AddDevice
  BY <1>2, DeviceHolds
<1>3. CASE DevicesAdded \/ AddAutomatic \/ Validate \/ Ended \/ UNCHANGED vars
  <2>1. UNCHANGED <<at, host, handlers>> /\ (UNCHANGED <<phase, dial>> \/ dial # "bound" \/ ~Configuring')
    BY <1>3
    DEF DevicesAdded, AddAutomatic, Validate, Ended, vars, Fail, request, IInv, Dialling, Complete, Configuring
  <2>2. phase = "killed" => phase' = "killed"
    BY <1>3 DEF DevicesAdded, AddAutomatic, Validate, Ended, vars
  <2>3. dial # "bound" => \A r \in host : r[1] = "rawStdin" \/ Among(r, handlers) \/ ~Configuring
    BY DEF IInv, Held, Configuring
  <2>4. ~Configuring => ~Configuring'
    BY <1>3 DEF DevicesAdded, AddAutomatic, Validate, Ended, vars, Configuring
  <2> QED
    BY <1>1, <2>1, <2>2, <2>3, <2>4 DEF HostTypeOK, IInv, Held
<1>4. CASE RunHandler
  <2>1. /\ handlers # <<>> /\ handlers \in Seq(Resource)
        /\ host' = host \ {Head(handlers)} /\ handlers' = Tail(handlers)
        /\ UNCHANGED <<at, dial, phase>>
    BY <1>1, <1>4 DEF RunHandler, HostTypeOK
  <2>2. /\ handlers' \in Seq(Resource) /\ Len(handlers') = Len(handlers) - 1
        /\ Len(handlers) \in Nat
        /\ \A i \in 1 .. Len(handlers') : handlers'[i] = handlers[i + 1]
        /\ Head(handlers) = handlers[1]
    BY <2>1
  <2>3. ASSUME NEW r \in host', Among(r, handlers) PROVE Among(r, handlers')
    <3>1. PICK i \in 1 .. Len(handlers) : handlers[i] = r
      BY <2>3 DEF Among
    <3>2. i # 1
      BY <3>1, <2>1, <2>2, <2>3
    <3>3. i - 1 \in 1 .. Len(handlers') /\ handlers'[i - 1] = r
      BY <3>1, <3>2, <2>2
    <3> QED
      BY <3>3 DEF Among
  <2>4. \A r \in host' : r \in host
    BY <2>1
  <2> QED
    BY <1>1, <2>1, <2>2, <2>3, <2>4 DEF HostTypeOK, IInv, Held, Configuring
<1>5. CASE Exit
  <2>1. host' \subseteq host /\ handlers' = handlers /\ handlers = <<>> /\ UNCHANGED <<at, dial>>
        /\ ~Configuring' /\ phase \in {"built", "failed"}
    BY <1>5 DEF Exit, Persistent, Configuring
  <2>2. \A r \in host' : r[1] = "rawStdin" \/ (r[1] = "socketFile" /\ r[2] = at)
    BY <2>1 DEF IInv, Held, Among
  <2> QED
    BY <1>1, <2>1, <2>2 DEF HostTypeOK, Held
<1>6. CASE Killed
  BY <1>1, <1>6 DEF Killed, Persistent, HostTypeOK, Held
<1> QED
  BY <1>2, <1>3, <1>4, <1>5, <1>6 DEF Next

LEMMA DrainedKept ==
  ASSUME IInv, [Next]_vars PROVE Drained'
<1>1. CASE AddDevice
  BY <1>1 DEF AddDevice, AddPlain, AddBalloon, AddBlockDevice, AddNetFd, ReservePath, Dial, Connect,
              AddStdio, AddPty, AddVsock, Adding, Added, Fail, Drained
<1>2. CASE ~AddDevice
  BY <1>2 DEF Next, DevicesAdded, AddAutomatic, Validate, RunHandler, Exit, Killed, Ended, Fail, vars,
              IInv, Drained
<1> QED
  BY <1>1, <1>2

LEMMA StepKeeps == IInv /\ [Next]_vars => IInv'
<1> SUFFICES ASSUME IInv, [Next]_vars PROVE IInv'
  OBVIOUS
<1>1. TypeOK'
  BY ConfigurationKept, HostKept DEF Configuration, CfgTypeOK, HostTypeOK, TypeOK
<1> QED
  BY <1>1, ConfigurationKept, HostKept, DrainedKept DEF Configuration, IInv

LEMMA Invariance == Spec => []IInv
BY InitEstablishes, StepKeeps, PTL DEF Spec

------------------------------------------------------------------------------
\* The machine that NewVirtualMachine makes has the devices of every command
\* line in its order.
THEOREM DevicesAreInOrder == Spec => []InOrder
<1>1. IInv => InOrder
  <2> SUFFICES ASSUME IInv, phase = "built", NEW s \in Slots \ {"socket", "balloon"}
               PROVE  Lists(cfg[s], Wanted(s))
    BY DEF InOrder
  <2>1. Len(devices) \in Nat /\ at = Len(devices) + 1
    BY DevicesAreSeq, MaxDevicesAssumption DEF IInv, TypeOK, Complete
  <2>2. Positions(s) = Wanted(s)
    BY <2>1 DEF Positions, Wanted
  <2> QED
    BY <2>2 DEF IInv, Entries, Configuring
<1> QED
  BY <1>1, Invariance, PTL

\* AddToVirtualMachineConfig and the features that need one make at most one
\* vsock device between them, and one when any of them wants it.
THEOREM VsockIsUnique == Spec => []OneVsock
<1>1. IInv => OneVsock
  <2> SUFFICES ASSUME IInv, phase = "built"
               PROVE  Len(cfg["socket"]) = IF automatic = {} /\ Wanted("socket") = {} THEN 0 ELSE 1
    BY DEF OneVsock
  <2>1. Len(devices) \in Nat /\ at = Len(devices) + 1
    BY DevicesAreSeq, MaxDevicesAssumption DEF IInv, TypeOK, Complete
  <2>2. Positions("socket") = Wanted("socket")
    BY <2>1 DEF Positions, Wanted
  <2> QED
    BY <2>2 DEF IInv, Sockets
<1> QED
  BY <1>1, Invariance, PTL

\* The exit handlers of a process whose set-up failed, at whatever device, or
\* whose machine ended, give back all but the terminal and the socket of a
\* device that could not connect.
THEOREM HostGetsItBack == Spec => []GivenBack
<1>1. IInv => GivenBack
  BY DEF IInv, Held, Drained, GivenBack, Among
<1> QED
  BY <1>1, Invariance, PTL
==============================================================================

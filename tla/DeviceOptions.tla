---------------------------- MODULE DeviceOptions ----------------------------
(***************************************************************************)
(* The devices of pkg/config/virtio.go between their two forms: a Go value *)
(* that a program builds or vfkit keeps, and the options after --device.   *)
(* A program writes its devices with ToCmdLine and starts vfkit, which     *)
(* reads them with deviceFromCmdLine. The options after --timesync are     *)
(* written and read in the same way, and are one more kind here.           *)
(*                                                                         *)
(* An option is a key, the text of its value, and the number that text     *)
(* stands for, if it is "number". Texts are opaque, except that Comma has a*)
(* comma in it, and what follows that comma is no option. Empty options,   *)
(* which are skipped, are left out. What files hold and what net.ParseMAC  *)
(* takes are constants; the limits of integers are scaled down.            *)
(***************************************************************************)
EXTENDS Integers, Sequences, SequencesExt

CONSTANTS
  Int32Max, Uint32Max,          \* math.MaxInt32 and math.MaxUint32
  DefaultTimeout,               \* 15000 milliseconds
  DefaultWidth, DefaultHeight,  \* 800 and 600
  RawFiles,                     \* paths of readable files without a qcow2 header
  ParseMAC,                     \* the address of each text that is one; an address
                                \* is the text it is printed as
  MaxOptions,                   \* bound: options typed after a device
  Typed,                        \* for each kind, the options a user may type
  Built                         \* the devices a program may build

ASSUME NumbersAssumption ==
  /\ Int32Max \in Nat /\ Uint32Max = 2 * Int32Max + 1
  /\ DefaultTimeout \in 1 .. Int32Max
  /\ DefaultWidth \in 1 .. Int32Max /\ DefaultHeight \in 1 .. Int32Max
ASSUME ParseMACAssumption ==
  \A text \in DOMAIN ParseMAC :
    /\ ParseMAC[text] \in DOMAIN ParseMAC
    /\ ParseMAC[ParseMAC[text]] = ParseMAC[text]
    /\ text # "" /\ text # "with,comma"
ASSUME MaxOptionsAssumption == MaxOptions \in Nat

VARIABLES
  phase,   \* "typed", "parsed", "built", "written", "read" or "refused"
  line,    \* the kind and the options a user typed, or NoLine
  dev,     \* the device
  written, \* what ToCmdLine makes of it
  back     \* the device vfkit reads from that

vars == <<phase, line, dev, written, back>>

------------------------------------------------------------------------------
\* Options and devices.

Comma == "with,comma"

Flag(key) == [key |-> key, value |-> "", num |-> 0]
Text(key, value) == [key |-> key, value |-> value, num |-> 0]
Number(key, n) == [key |-> key, value |-> "number", num |-> n]

Error == [kind |-> "error"]
NoLine == [kind |-> "none", options |-> <<>>]
NoFd == -1

\* The device of each kind before its options are read.
Disk(kind) == [kind |-> kind, path |-> "", type |-> "", readonly |-> FALSE, deviceId |-> ""]

Empty ==
  [nvme    |-> Disk("nvme"),
   usb     |-> Disk("usb"),
   blk     |-> Disk("blk"),
   nbd     |-> [kind |-> "nbd", uri |-> "", readonly |-> FALSE, deviceId |-> "",
                timeout |-> DefaultTimeout, sync |-> "full"],
   net     |-> [kind |-> "net", nat |-> FALSE, mac |-> "", fd |-> NoFd, path |-> "", magic |-> "off"],
   serial  |-> [kind |-> "serial", logFile |-> "", stdio |-> FALSE, pty |-> FALSE],
   input   |-> [kind |-> "input", type |-> ""],
   gpu     |-> [kind |-> "gpu", width |-> 0, height |-> 0, usesGUI |-> FALSE],
   vsock   |-> [kind |-> "vsock", port |-> 0, url |-> "", listen |-> TRUE],
   fs      |-> [kind |-> "fs", dir |-> "", tag |-> ""],
   rosetta |-> [kind |-> "rosetta", tag |-> "", install |-> FALSE, ignore |-> FALSE],
   rng     |-> [kind |-> "rng"],
   balloon |-> [kind |-> "balloon"],
   timesync |-> [kind |-> "timesync", port |-> 0]]

\* The Go types: a device has the fields of its kind, and flags are booleans,
\* numbers integers, and an address prints as itself. Any text is possible.
IsDevice(d) ==
  /\ d.kind \in DOMAIN Empty /\ d = [f \in DOMAIN Empty[d.kind] |-> d[f]]
  /\ \A f \in DOMAIN d :
       /\ f \in {"readonly", "nat", "stdio", "pty", "usesGUI", "listen", "install", "ignore"} => d[f] \in BOOLEAN
       /\ f \in {"timeout", "fd", "width", "height", "port"} => d[f] \in Int
       /\ f = "magic" => d[f] \in {"on", "off"}
       /\ f = "mac" => (d[f] \in DOMAIN ParseMAC => ParseMAC[d[f]] = d[f])

\* What an option is for: the text, or the number, is put in the field; the
\* field is set, by any value or only without one; or the value is only checked.
Put(f) == [sort |-> "text", field |-> f]
OneOf(f, texts) == [sort |-> "oneOf", field |-> f, values |-> texts]
Num(f, range) == [sort |-> "number", field |-> f, values |-> range]
Sets(f, v) == [sort |-> "any", field |-> f, to |-> v]
Bare(f, v) == [sort |-> "bare", field |-> f, to |-> v]
Check(f, texts) == [sort |-> "check", field |-> f, values |-> texts]

\* The rules f, and those of g for the keys that f has none for.
Over(f, g) == [x \in DOMAIN f \cup DOMAIN g |-> IF x \in DOMAIN f THEN f[x] ELSE g[x]]

StorageRules == [readonly |-> Bare("readonly", TRUE)]

DiskTypes == {"image", "dev", ""}

DiskRules == Over([path |-> Put("path"), type |-> OneOf("type", DiskTypes)], StorageRules)

BlkRules == Over([deviceId |-> Put("deviceId")], DiskRules)

NbdRules ==
  Over([uri |-> Put("uri"), deviceId |-> Put("deviceId"),
        timeout |-> Num("timeout", -Int32Max - 1 .. Int32Max),
        sync |-> OneOf("sync", {"full", "none"})], StorageRules)

NetRules ==
  [nat |-> Bare("nat", TRUE), mac |-> [sort |-> "mac", field |-> "mac"],
   fd |-> Num("fd", 0 .. Int32Max),
   unixSocketPath |-> Put("path"), path |-> Put("path"),
   type |-> Check("type", {"unixgram"}), offloading |-> Check("offloading", {"off"}),
   vfkitMagic |-> OneOf("magic", {"on", "off"})]

SerialRules == [logFilePath |-> Put("logFile"), stdio |-> Bare("stdio", TRUE), pty |-> Sets("pty", TRUE)]

InputRules == [pointing |-> Bare("type", "pointing"), keyboard |-> Bare("type", "keyboard")]

GpuRules == [width |-> Num("width", Nat \ {0}), height |-> Num("height", Nat \ {0})]

VsockRules ==
  [socketURL |-> Put("url"), port |-> Num("port", 0 .. Uint32Max),
   listen |-> Sets("listen", TRUE), connect |-> Sets("listen", FALSE)]

FsRules == [sharedDir |-> Put("dir"), mountTag |-> Put("tag")]

RosettaRules ==
  Over([mountTag |-> Put("tag"), install |-> Sets("install", TRUE)],
       [key \in {"ignore-if-missing"} |-> Sets("ignore", TRUE)])

TimeSyncRules == [vsockPort |-> Num("port", 0 .. Uint32Max)]

Rules ==
  [nvme |-> DiskRules, usb |-> DiskRules, blk |-> BlkRules, nbd |-> NbdRules, net |-> NetRules,
   serial |-> SerialRules, input |-> InputRules, gpu |-> GpuRules, vsock |-> VsockRules,
   fs |-> FsRules, rosetta |-> RosettaRules, rng |-> <<>>, balloon |-> <<>>, timesync |-> TimeSyncRules]

------------------------------------------------------------------------------
\* Reading: deviceFromCmdLine and FromOptions.

\* The value an option has for its rule, if it is accepted.
Accepts(rule, o) ==
  CASE rule.sort \in {"text", "any"}      -> TRUE
    [] rule.sort = "bare"                 -> o.value = ""
    [] rule.sort \in {"oneOf", "check"}   -> o.value \in rule.values
    [] rule.sort = "number"               -> o.value = "number" /\ o.num \in rule.values
    [] rule.sort = "mac"                  -> o.value \in DOMAIN ParseMAC

Value(rule, o) ==
  CASE rule.sort \in {"text", "oneOf"} -> o.value
    [] rule.sort = "number"            -> o.num
    [] rule.sort \in {"any", "bare"}   -> rule.to
    [] rule.sort = "mac"               -> ParseMAC[o.value]

Known(kind, o) == o.key \in DOMAIN Rules[kind]

\* Slip: the path turns the magic on where it is read.
Apply_TurnsMagicOn(d, o) ==
  IF d = Error \/ ~Known(d.kind, o) \/ ~Accepts(Rules[d.kind][o.key], o) THEN Error
  ELSE LET rule == Rules[d.kind][o.key]
           e == IF d.kind = "net" /\ rule.field = "path" THEN [d EXCEPT !.magic = "on"] ELSE d
       IN  IF rule.sort = "check" THEN e ELSE [e EXCEPT ![rule.field] = Value(rule, o)]

\* One turn of the loop over the options.
Apply(d, o) ==
  IF d = Error \/ ~Known(d.kind, o) \/ ~Accepts(Rules[d.kind][o.key], o) THEN Error
  ELSE LET rule == Rules[d.kind][o.key]
       IN  IF rule.sort = "check" THEN d ELSE [d EXCEPT ![rule.field] = Value(rule, o)]

Keys(options) == {o.key : o \in ToSet(options)}

\* Slip: the old syntax does not turn the magic on.
Start_NewSyntaxOnly(kind, options) ==
  IF kind = "net" /\ "path" \in Keys(options)
  THEN [Empty.net EXCEPT !.magic = "on"] ELSE Empty[kind]

\* The device before the loop: any path turns the magic on, for the loop to
\* turn it off.
Start(kind, options) ==
  IF kind = "net" /\ Keys(options) \cap {"path", "unixSocketPath"} # {}
  THEN [Empty.net EXCEPT !.magic = "on"] ELSE Empty[kind]

\* The validate methods.
Exactly1(conditions) == \E i \in DOMAIN conditions : \A j \in DOMAIN conditions : conditions[j] <=> i = j

BlkValid(d) == d.path \in RawFiles
NetValid(d) == Exactly1(<<d.nat, d.fd # NoFd, d.path # "">>)
SerialValid(d) == Exactly1(<<d.logFile # "", d.stdio, d.pty>>)
InputValid(d) == d.type \in {"pointing", "keyboard"}
GpuValid(d) == d.width >= 1 /\ d.height >= 1

Valid(d) ==
  CASE d.kind = "blk"    -> BlkValid(d)
    [] d.kind = "net"    -> NetValid(d)
    [] d.kind = "serial" -> SerialValid(d)
    [] d.kind = "input"  -> InputValid(d)
    [] d.kind = "gpu"    -> GpuValid(d)
    [] d.kind = "timesync" -> d.port # 0
    [] OTHER             -> TRUE

\* type and path of a network device depend on each other.
TypeFits(d, options) ==
  LET keys == Keys(options)
  IN  IF "type" \in keys THEN d.path # "" ELSE keys \cap {"path", "offloading"} = {}

WithDefaults(d) ==
  IF d.kind = "gpu" /\ d.width = 0 /\ d.height = 0
  THEN [d EXCEPT !.width = DefaultWidth, !.height = DefaultHeight] ELSE d

\* The device after the loop.
Loop(kind, options) ==
  LET d[n \in 0 .. Len(options)] ==
        IF n = 0 THEN Start(kind, options) ELSE Apply(d[n - 1], options[n])
  IN  d[Len(options)]

FromOptions(kind, options) ==
  LET d == Loop(kind, options)
  IN  IF d # Error /\ (kind = "net" => TypeFits(d, options)) /\ Valid(WithDefaults(d))
      THEN WithDefaults(d) ELSE Error

\* strings.Split at the commas.
Split(o) == IF o.value = Comma THEN <<Text(o.key, "with"), Flag("comma")>> ELSE <<o>>

DeviceFromCmdLine(l) ==
  FromOptions(l.kind, FlattenSeq([i \in 1 .. Len(l.options) |-> Split(l.options[i])]))

------------------------------------------------------------------------------
\* Writing: ToCmdLine.

CanWrite(d) ==
  CASE d.kind \in {"nvme", "usb", "blk"}           -> d.path # ""
    [] d.kind = "nbd"                              -> d.uri # ""
    [] d.kind = "vsock"                            -> d.port # 0 /\ d.url # ""
    [] d.kind = "fs"                               -> d.dir # ""
    [] d.kind = "rosetta"                          -> d.tag # ""
    [] d.kind \in {"net", "serial", "input", "gpu"} -> Valid(d)
    [] OTHER                                       -> TRUE

When(condition, option) == IF condition THEN <<option>> ELSE <<>>

DiskOptions(d) ==
  <<Text("path", d.path)>> \o When(d.type # "", Text("type", d.type))
    \o When(d.readonly, Flag("readonly")) \o When(d.deviceId # "", Text("deviceId", d.deviceId))

NetworkStorageOptions(d) == <<Text("uri", d.uri)>> \o When(d.readonly, Flag("readonly"))

NbdOptions(d) ==
  NetworkStorageOptions(d)
    \o When(d.deviceId # "", Text("deviceId", d.deviceId))
    \o When(d.timeout > 0, Number("timeout", d.timeout))
    \o When(d.sync \in {"none", "full"}, Text("sync", d.sync))

SerialOptions(d) ==
  CASE d.stdio           -> <<Flag("stdio")>>
    [] ~d.stdio /\ d.pty -> <<Flag("pty")>>
    [] OTHER             -> <<Text("logFilePath", d.logFile)>>

InputOptions(d) == <<Flag(d.type)>>
GpuOptions(d) == <<Number("width", d.width), Number("height", d.height)>>
FsOptions(d) == <<Text("sharedDir", d.dir)>> \o When(d.tag # "", Text("mountTag", d.tag))

RosettaOptions(d) ==
  <<Text("mountTag", d.tag)>> \o When(d.install, Flag("install"))
    \o When(d.ignore, Flag("ignore-if-missing"))

NetOptions(d) ==
  (CASE d.nat -> <<Flag("nat")>>
     [] ~d.nat /\ d.path # "" /\ d.magic = "on" -> <<Text("unixSocketPath", d.path)>>
     [] ~d.nat /\ d.path # "" /\ d.magic = "off" ->
          <<Text("type", "unixgram"), Text("path", d.path), Text("vfkitMagic", "off")>>
     [] OTHER -> <<Number("fd", d.fd)>>)
  \o When(d.mac # "", Text("mac", d.mac))

VsockOptions_ListenOnly(d) ==
  <<Number("port", d.port), Text("socketURL", d.url)>> \o When(d.listen, Flag("listen"))

\* Which end listens is always written.
VsockOptions(d) ==
  <<Number("port", d.port), Text("socketURL", d.url), Flag(IF d.listen THEN "listen" ELSE "connect")>>

TimeSyncOptions(d) == When(d.port # 0, Number("vsockPort", d.port))

Options(d) ==
  CASE d.kind \in {"nvme", "usb", "blk"} -> DiskOptions(d)
    [] d.kind = "nbd"     -> NbdOptions(d)
    [] d.kind = "net"     -> NetOptions(d)
    [] d.kind = "serial"  -> SerialOptions(d)
    [] d.kind = "input"   -> InputOptions(d)
    [] d.kind = "gpu"     -> GpuOptions(d)
    [] d.kind = "vsock"   -> VsockOptions(d)
    [] d.kind = "fs"      -> FsOptions(d)
    [] d.kind = "rosetta" -> RosettaOptions(d)
    [] d.kind = "timesync" -> TimeSyncOptions(d)
    [] OTHER              -> <<>>

------------------------------------------------------------------------------
\* A device typed by a user, or built by a program, written and read again.

Lines == UNION {[kind : {k}, options : UNION {[1 .. n -> Typed[k]] : n \in 0 .. MaxOptions}]
                  : k \in DOMAIN Typed}

Init ==
  /\ written = NoLine /\ back = Error
  /\ \/ phase = "typed" /\ line \in Lines /\ dev = Error
     \/ phase = "built" /\ line = NoLine /\ dev \in Built

ASSUME TypedAssumption == DOMAIN Typed \subseteq DOMAIN Empty
ASSUME BuiltAssumption == \A d \in Built : IsDevice(d)

\* vfkit reads a line a user typed.
Parse ==
  /\ phase = "typed"
  /\ dev' = DeviceFromCmdLine(line)
  /\ phase' = IF dev' = Error THEN "refused" ELSE "parsed"
  /\ UNCHANGED <<line, written, back>>

\* The device is written for another vfkit.
ToCmdLine ==
  /\ phase \in {"parsed", "built"}
  /\ IF CanWrite(dev)
     THEN phase' = "written" /\ written' = [kind |-> dev.kind, options |-> Options(dev)]
     ELSE phase' = "refused" /\ UNCHANGED written
  /\ UNCHANGED <<line, dev, back>>

\* That vfkit reads the line.
ReadBack ==
  /\ phase = "written"
  /\ back' = DeviceFromCmdLine(written)
  /\ phase' = "read"
  /\ UNCHANGED <<line, dev, written>>

Done == phase \in {"read", "refused"} /\ UNCHANGED vars

Next == Parse \/ ToCmdLine \/ ReadBack \/ Done

Spec == Init /\ [][Next]_vars

------------------------------------------------------------------------------
\* Correctness.

\* What a line is known not to carry: whether a GPU has a window, which is an
\* option of its own; the magic of an interface that has no path; a timeout that
\* is not positive; a synchronization mode that does not exist.
Carried(d) ==
  CASE d.kind = "gpu" -> [d EXCEPT !.usesGUI = FALSE]
    [] d.kind = "net" -> [d EXCEPT !.magic = IF d.path = "" THEN "off" ELSE @]
    [] d.kind = "nbd" -> [d EXCEPT !.timeout = IF @ > 0 THEN @ ELSE DefaultTimeout,
                                   !.sync = IF @ = "none" THEN @ ELSE "full"]
    [] OTHER          -> d

\* A device that one vfkit accepted and wrote with ToCmdLine is accepted by the
\* next one, as the same device.
RereadSame ==
  phase = "read" /\ line # NoLine => back # Error /\ Carried(back) = Carried(dev)

\* Whatever device a program builds, valid or not, vfkit refuses the line that
\* ToCmdLine writes of it or makes that device of it, never another one.
NeverAnother ==
  phase = "read" => back = Error \/ Carried(back) = Carried(dev)

\* The fields an option decides on.
Field(kind, o) == IF Known(kind, o) THEN Rules[kind][o.key].field ELSE o.key

Independent(l) ==
  \A i, j \in 1 .. Len(l.options) : i # j => Field(l.kind, l.options[i]) # Field(l.kind, l.options[j])

\* A device does not depend on the order its options are typed in, unless two of
\* them decide on the same thing.
OrderFree ==
  phase \in {"parsed", "refused"} /\ line # NoLine /\ Independent(line) =>
    \A options \in SetToSeqs(ToSet(line.options)) :
      DeviceFromCmdLine([kind |-> line.kind, options |-> options]) = dev
=============================================================================

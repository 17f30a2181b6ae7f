---------------------------- MODULE MCDescription ----------------------------
(* Options, devices, machines, lists and addresses for the instances of     *)
(* Description that TLC checks: for every option a good value, and a bad    *)
(* one where there is any; for every field of a device an empty, a good and *)
(* a bad value.                                                             *)
EXTENDS Description

Macs == ("dashes" :> "colons") @@ ("colons" :> "colons")

BlkTyped == {Text("path", "raw"), Text("path", "qcow2"), Text("type", "dev"), Text("type", "tape"),
            Flag("readonly"), Text("readonly", "yes"), Text("deviceId", "id")}

NetTyped ==
  {Flag("nat"), Text("nat", "yes"), Text("mac", "dashes"), Text("mac", "bad"), Number("fd", 3),
   Number("fd", -1), Text("unixSocketPath", "old"), Text("path", "new"), Text("path", ""),
   Text("type", "unixgram"), Text("type", "tap"), Text("vfkitMagic", "on"),
   Text("vfkitMagic", "off"), Text("vfkitMagic", "no"), Text("offloading", "off"), Text("offloading", "on")}

AllTyped ==
  [nvme    |-> {Text("path", "raw"), Text("path", Comma), Text("type", "image"), Flag("readonly"), Text("deviceId", "id")},
   usb     |-> {Text("path", "raw"), Text("type", "dev"), Text("type", "tape"), Flag("readonly")},
   blk     |-> BlkTyped,
   nbd     |-> {Text("uri", "server"), Flag("readonly"), Text("deviceId", "id"), Number("timeout", 0),
                Number("timeout", -1), Number("timeout", Int32Max), Number("timeout", Int32Max + 1),
                Text("timeout", "long"), Text("sync", "none"), Text("sync", "full"), Text("sync", "often")},
   net     |-> NetTyped,
   serial  |-> {Text("logFilePath", "log"), Text("logFilePath", ""), Flag("stdio"), Text("stdio", "yes"),
                Flag("pty"), Text("pty", "yes")},
   input   |-> {Flag("pointing"), Flag("keyboard"), Text("keyboard", "yes"), Flag("pen")},
   gpu     |-> {Number("width", 1), Number("width", 5), Number("width", 0), Number("height", 1),
                Number("height", 5), Text("height", "tall")},
   vsock   |-> {Text("socketURL", "sock"), Number("port", 0), Number("port", Uint32Max),
                Number("port", Uint32Max + 1), Flag("listen"), Flag("connect"), Text("connect", "yes")},
   fs      |-> {Text("sharedDir", "dir"), Text("mountTag", "tag"), Flag("readonly")},
   rosetta |-> {Text("mountTag", "tag"), Flag("install"), Flag("ignore-if-missing"), Flag("ignoreIfMissing")},
   timesync |-> {Number("vsockPort", 0), Number("vsockPort", Uint32Max), Number("vsockPort", Uint32Max + 1), Flag("port")},
   rng     |-> {Flag("fast")},
   balloon |-> {Flag("big")}]

\* No device is typed on its own.
NoneTyped == [kind \in {} |-> {}]

DiskBuilt(kind, deviceIds) ==
  [kind : {kind}, path : {"", "raw", "qcow2", Comma}, type : {"", "dev", "tape"}, readonly : BOOLEAN, deviceId : deviceIds]

AllBuilt ==
  DiskBuilt("nvme", {""}) \cup DiskBuilt("usb", {""}) \cup DiskBuilt("blk", {"", "id"})
  \cup [kind : {"nbd"}, uri : {"", "server"}, readonly : BOOLEAN, deviceId : {"", "id"},
        timeout : {0, 1, Int32Max, Uint32Max}, sync : {"none", "full", "often"}]
  \cup [kind : {"net"}, nat : BOOLEAN, mac : {"", "colons", "odd"}, fd : {NoFd, 3}, path : {"", "path", Comma},
        magic : {"on", "off"}]
  \cup [kind : {"serial"}, logFile : {"", "log"}, stdio : BOOLEAN, pty : BOOLEAN]
  \cup [kind : {"input"}, type : {"", "pointing", "keyboard", "pen"}]
  \cup [kind : {"gpu"}, width : {0, 1, 5}, height : {0, 1, 5}, usesGUI : BOOLEAN]
  \cup [kind : {"vsock"}, port : {0, 1, Uint32Max}, url : {"", "sock"}, listen : BOOLEAN]
  \cup [kind : {"fs"}, dir : {"", "dir", Comma}, tag : {"", "tag"}]
  \cup [kind : {"rosetta"}, tag : {"", "tag"}, install : BOOLEAN, ignore : BOOLEAN]
  \cup [kind : {"timesync"}, port : {0, 1, Uint32Max}] \cup [kind : {"rng"}] \cup [kind : {"balloon"}]

------------------------------------------------------------------------------
\* Machines.

Q == QuoteCh
x == <<"x">>
BareComma == <<"x", CommaCh, "x">>
Quoted == <<Q, "x", CommaCh, "x", Q>>

Word2(key, text) == <<CommaCh, key, "=">> \o text

\* Uses of --bootloader: quotes around a value, an option and nothing, options in
\* two uses, and what is refused.
LoaderLists ==
  {<<>>,
   <<(<<"efi">> \o Word2("variable-store", x) \o <<CommaCh, "create">>)>>,
   <<(<<"efi">> \o Word2("variable-store", Quoted))>>,
   <<(<<"efi", CommaCh, Q, "variable-store", "=", "x", CommaCh, "x", Q>>)>>,
   <<(<<"efi", CommaCh, Q, "variable-store", "=", "x", CommaCh, Q>>)>>,
   <<(<<"efi", CommaCh, Q, Q, "variable-store", "=", "x", Q, "x", Q>>)>>,
   <<(<<"efi">>), <<"create", CommaCh, "variable-store", "=", "x">>>>,
   <<(<<"efi">> \o Word2("create", x))>>,
   <<(<<"efi">> \o Word2("variable-store", <<Q, "x">>))>>,
   <<(<<"linux">> \o Word2("kernel", x) \o Word2("cmdline", Quoted) \o Word2("initrd", x))>>,
   <<(<<"linux">> \o Word2("kernel", x))>>,
   <<(<<"macos">> \o Word2("auxImagePath", x))>>,
   <<(<<"bios">>)>>}

LegacyFlags == {[NoLegacy EXCEPT !.kernel = x, !.initrd = i, !.cmdline = c] : i \in {x, <<>>}, c \in {x, Quoted}}

MagicOff ==
  <<[kind |-> "net", options |-> <<Text("type", "unixgram"), Text("path", "p"), Text("vfkitMagic", "off"), Text("mac", "dashes")>>],
    [kind |-> "vsock", options |-> <<Number("port", 1), Text("socketURL", "s"), Flag("connect")>>]>>

VmDevices ==
  {<<>>,
   <<[kind |-> "gpu", options |-> <<>>], [kind |-> "gpu", options |-> <<>>]>>,
   MagicOff,
   <<[kind |-> "input", options |-> <<Flag("pointing")>>], [kind |-> "net", options |-> <<Number("fd", 4)>>],
     [kind |-> "nbd", options |-> <<Text("uri", "u"), Number("timeout", 1)>>]>>,
   <<[kind |-> "net", options |-> <<Flag("nat")>>], [kind |-> "rng", options |-> <<Flag("fast")>>]>>}

Opts(loaders) ==
  [cpus : {0, 2}, memory : {0, 1, (Word \div MiB) - 1, Word \div MiB}, legacy : {NoLegacy}, bootloader : loaders,
   timesync : {<<>>, <<Number("vsockPort", 1)>>, <<Number("vsockPort", 0)>>}, devices : VmDevices,
   ignition : {"", "file", Comma}, nested : BOOLEAN, gui : BOOLEAN, cloudInit : BOOLEAN]

\* Every boot loader with few other flags, and every other flag with one boot loader.
AllTypedVms ==
  Opts({<<(<<"efi">> \o Word2("variable-store", x))>>})
  \cup {o \in Opts(LoaderLists) : o.cpus = 2 /\ o.memory = 1 /\ o.timesync = <<>> /\ o.ignition = "" /\ ~o.gui}
  \cup {[o EXCEPT !.legacy = l] : l \in LegacyFlags, o \in {o \in Opts({<<>>}) : o.cpus = 2 /\ o.ignition = "" /\ ~o.gui}}

Net(fd) == [Empty.net EXCEPT !.fd = fd]
\* Machines whose interface is used without the magic of vfkit.
InspectedVms == {o \in AllTypedVms : o.devices = MagicOff /\ o.legacy # NoLegacy /\ ~o.nested /\ o.ignition = ""}

MC_Nat == [Empty.net EXCEPT !.nat = TRUE]

Vm(boot, memory, devices) ==
  [kind |-> "vm", vcpus |-> 2, memory |-> memory, boot |-> boot, devices |-> devices, timesync |-> Empty.timesync,
   ignition |-> NoIgnition, nested |-> FALSE]

Efi(path) == [Loader.efi EXCEPT !.path = path]

\* Paths of a variable store: up to three of a comma, a quote, an option and others.
StorePaths == UNION {[1 .. n -> {"x", "create", CommaCh, QuoteCh}] : n \in 0 .. 3} \cup {Quoted}

\* Every size of memory; every path of a variable store; up to three interfaces,
\* each with a file or none, in any order of their descriptors; every device alone.
AllBuiltVms ==
  {Vm(Efi(x), b, <<>>) : b \in 0 .. Word - 1}
  \cup {Vm(b, MiB, <<>>) : b \in {NoBoot, Loader.macos} \cup {Efi(p) : p \in StorePaths}
                                 \cup [kind : {"linux"}, kernel : {<<>>, x}, cmdline : {<<>>, BareComma, Quoted, <<Q, "x">>}, initrd : {<<>>, x}]}
  \cup {Vm(Efi(x), MiB, nets) : nets \in UNION {[1 .. n -> {MC_Nat} \cup {Net(fd) : fd \in 3 .. 6}] : n \in 1 .. 3}}
  \cup {[Vm(Efi(x), MiB, <<d>>) EXCEPT !.ignition = i, !.nested = n, !.timesync.port = t] :
           d \in {d \in AllBuilt : d.kind # "timesync"}, i \in {NoIgnition, [path |-> "file", port |-> IgnitionPort], [path |-> Comma, port |-> IgnitionPort]},
           n \in BOOLEAN, t \in {0, 1}}

------------------------------------------------------------------------------
\* Lists and addresses.

Texts(n) == UNION {[1 .. k -> {"x", CommaCh, QuoteCh}] : k \in 0 .. n}

\* One use of the flag with a long text, or two with short ones.
AllTypedLists == {<<s>> : s \in Texts(7)} \cup {<<s, t>> : s \in Texts(3), t \in Texts(3)}

AllTypedURIs ==
  [scheme : {"none", "unix", "tcp", "http", "vsock"}, host : {"", "h", "h:1"},
   path : UNION {[1 .. k -> {"x", "?", "%", "25", "3F"}] : k \in 0 .. 4}]
=============================================================================

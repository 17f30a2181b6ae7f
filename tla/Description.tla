------------------------------ MODULE Description ------------------------------
(***************************************************************************)
(* A virtual machine between its forms: the command line of vfkit, the     *)
(* description of pkg/config, and JSON. A user types a command line, or a  *)
(* program builds a description; it is written with Cmd and read by the    *)
(* vfkit that is started so, or written as JSON and read by a program. So  *)
(* are the devices alone (DeviceOptions), the lists of the command line    *)
(* (QuotedList) and the address of the RESTful service (Endpoint).         *)
(*                                                                         *)
(* A command line is what cobra makes of it, a value for every flag. The   *)
(* paths and the kernel command line of a boot loader are texts of         *)
(* QuotedList. Sizes are scaled down: 2^64 is Word.                        *)
(***************************************************************************)
EXTENDS QuotedList, Endpoint, DescriptionJson

CONSTANTS
  MiB, Word,                   \* 2^20 and 2^64 bytes
  DefaultMemory,               \* 512 mebibytes, of vfkit's --memory
  IgnitionPort,                \* 1024
  NestedSupported,             \* what the host's vz.IsNestedVirtualizationSupported says
  CloudInitImage,              \* the path of the image vfkit makes
  TypedVms, BuiltVms,          \* command lines, and descriptions of programs
  TypedLists, TypedURIs        \* uses of a list flag, and of --restful-uri

ASSUME NestedAssumption == NestedSupported \in BOOLEAN
ASSUME SizesAssumption ==
  /\ MiB \in Nat \ {0} /\ Word \in Nat /\ Word % MiB = 0
  /\ DefaultMemory \in 0 .. Word \div MiB

------------------------------------------------------------------------------
\* Boot loaders.

Loader ==
  [efi   |-> [kind |-> "efi", path |-> <<>>, create |-> FALSE],
   linux |-> [kind |-> "linux", kernel |-> <<>>, cmdline |-> <<>>, initrd |-> <<>>],
   macos |-> [kind |-> "macos", machine |-> <<>>, hardware |-> <<>>, aux |-> <<>>]]

\* The field each key of a boot loader is for.
LoaderFields ==
  [efi   |-> [key \in {"variable-store", "create"} |-> IF key = "create" THEN key ELSE "path"],
   linux |-> [kernel |-> "kernel", cmdline |-> "cmdline", initrd |-> "initrd"],
   macos |-> [machineIdentifierPath |-> "machine", hardwareModelPath |-> "hardware",
              auxImagePath |-> "aux"]]

\* strToOption: the text before and after the equals sign. No key of a boot
\* loader is more than a run of characters.
Key(e) == IF Len(e) = 1 \/ e[2] = "=" THEN e[1] ELSE "other"
Val(e) == SubSeq(e, 3, Len(e))

LoaderApply(b, e) ==
  LET key == Key(e)
  IN  IF b = Error \/ key \notin DOMAIN LoaderFields[b.kind] \/ (key = "create" /\ Val(e) # <<>>)
      THEN Error
      ELSE [b EXCEPT ![LoaderFields[b.kind][key]] =
              CASE key = "create"  -> TRUE
                [] key = "cmdline" -> TrimQuotes(Val(e))
                [] OTHER           -> Val(e)]

BootloaderFromCmdLine(list) ==
  IF list = <<>> \/ Len(Head(list)) # 1 \/ Head(list)[1] \notin DOMAIN Loader THEN Error
  ELSE LET b[n \in 1 .. Len(list)] ==
             CASE n = 1                        -> Loader[Head(list)[1]]
               [] n > 1 /\ list[n] = <<>>      -> b[n - 1]
               [] OTHER                        -> LoaderApply(b[n - 1], list[n])
       IN  b[Len(list)]

NoLegacy == Loader.linux

\* The flags that came before --bootloader win; cobra has none of them or all,
\* and then no --bootloader.
NewBootloaderConfiguration(o) ==
  LET boot == SetEach(o.bootloader)
  IN  IF ~boot.ok THEN Error ELSE IF o.legacy # NoLegacy THEN o.legacy ELSE BootloaderFromCmdLine(boot.list)

CanWriteLoader(b) ==
  CASE b.kind = "efi"   -> b.path # <<>>
    [] b.kind = "linux" -> b.kernel # <<>> /\ b.initrd # <<>> /\ b.cmdline # <<>>
    [] b.kind = "macos" -> TRUE
    [] OTHER            -> FALSE

\* A boot loader of Linux is written with the old flags, one of macOS not at all.
LoaderArgs(b) ==
  LET create == IF b.create THEN <<CommaCh, "create">> ELSE <<>>
  IN  IF b.kind = "efi" THEN <<(<<"efi", CommaCh, "variable-store", "=">> \o b.path \o create)>> ELSE <<>>

LegacyArgs(b) == IF b.kind = "linux" THEN b ELSE NoLegacy

------------------------------------------------------------------------------
\* Reading a command line: newVMConfiguration, and runVFKit for the window.

\* NewVirtualMachine: the shift drops what does not fit.
ToBytes(mib) == (mib * MiB) % Word

\* The image of --cloud-init is one more disk.
Devices(o) ==
  LET image == When(o.cloudInit, [kind |-> "blk", options |-> <<Text("path", CloudInitImage)>>])
      lines == o.devices \o image
  IN  [i \in DOMAIN lines |-> DeviceFromCmdLine(lines[i])]

FilterDevices(devices, kind) == SelectSeq(devices, LAMBDA d : d.kind = kind)

\* A window has a GPU and an input device, and is the first GPU's.
WithWindow(devices) ==
  LET gpu == [Empty.gpu EXCEPT !.width = DefaultWidth, !.height = DefaultHeight]
      input == [Empty.input EXCEPT !.type = "keyboard"]
      all == devices \o When(FilterDevices(devices, "gpu") = <<>>, gpu)
                     \o When(FilterDevices(devices, "input") = <<>>, input)
      first == SelectInSeq(all, LAMBDA d : d.kind = "gpu")
  IN  [all EXCEPT ![first].usesGUI = TRUE]

TimeSync(o) ==
  IF o.timesync = <<>> THEN Empty.timesync
  ELSE DeviceFromCmdLine([kind |-> "timesync", options |-> o.timesync])

NewVMConfiguration(o) ==
  LET boot == NewBootloaderConfiguration(o)
      devices == Devices(o)
  IN  IF boot = Error \/ TimeSync(o) = Error \/ Error \in ToSet(devices) \/ o.ignition = Comma
         \/ (o.nested /\ ~NestedSupported)
      THEN Error
      ELSE [kind |-> "vm", vcpus |-> o.cpus, memory |-> ToBytes(o.memory), boot |-> boot,
            timesync |-> TimeSync(o), nested |-> o.nested,
            devices |-> IF o.gui THEN WithWindow(devices) ELSE devices,
            ignition |-> IF o.ignition = "" THEN NoIgnition ELSE [path |-> o.ignition, port |-> IgnitionPort]]

------------------------------------------------------------------------------
\* Writing a command line: ToCmdLine and Cmd.

\* Slip: a whole mebibyte is added.
RoundToMiB_OneMore(bytes) == ((bytes + MiB) % Word) \div MiB

RoundToMiB(bytes) == ((bytes + MiB - 1) % Word) \div MiB

CanWriteVm(vm) == CanWriteLoader(vm.boot) /\ \A i \in DOMAIN vm.devices : CanWrite(vm.devices[i])

DeviceArgs(vm) ==
  [i \in DOMAIN vm.devices |-> [kind |-> vm.devices[i].kind, options |-> Options(vm.devices[i])]]

\* Slip: the ignition file is forgotten with the time synchronisation.
Args_NoIgnition(vm) ==
  [cpus |-> IF vm.vcpus # 0 THEN vm.vcpus ELSE 1,
   memory |-> IF vm.memory # 0 THEN RoundToMiB(vm.memory) ELSE DefaultMemory,
   legacy |-> LegacyArgs(vm.boot), bootloader |-> LoaderArgs(vm.boot),
   devices |-> DeviceArgs(vm),
   timesync |-> <<>>, ignition |-> "", nested |-> vm.nested, gui |-> FALSE, cloudInit |-> FALSE]

\* The flags that are not written have vfkit's defaults.
Args(vm) ==
  [cpus |-> IF vm.vcpus # 0 THEN vm.vcpus ELSE 1,
   memory |-> IF vm.memory # 0 THEN RoundToMiB(vm.memory) ELSE DefaultMemory,
   legacy |-> LegacyArgs(vm.boot), bootloader |-> LoaderArgs(vm.boot),
   devices |-> DeviceArgs(vm),
   timesync |-> <<>>, ignition |-> vm.ignition.path, nested |-> vm.nested, gui |-> FALSE, cloudInit |-> FALSE]

HasFile(d) == d.kind = "net" /\ d.fd # NoFd

\* Slip: a file for every interface, whether it has one or not.
ExtraFiles_AllInterfaces(vm) ==
  LET nets == FilterDevices(vm.devices, "net")
  IN  [i \in DOMAIN nets |-> nets[i].fd]

\* A file of a program is known by its descriptor there.
ExtraFiles(vm) ==
  LET files[n \in 0 .. Len(vm.devices)] ==
        CASE n = 0                              -> <<>>
          [] n > 0 /\ HasFile(vm.devices[n])    -> Append(files[n - 1], vm.devices[n].fd)
          [] OTHER                              -> files[n - 1]
  IN  files[Len(vm.devices)]

------------------------------------------------------------------------------
\* The Go types of what is typed or built.

IsLoader(b) ==
  /\ b.kind \in DOMAIN Loader /\ b = [f \in DOMAIN Loader[b.kind] |-> b[f]]
  /\ \A f \in DOMAIN b \ {"kind"} : IF f = "create" THEN b[f] \in BOOLEAN ELSE IsSeq(b[f])

IsMachine(vm) ==
  /\ vm = [f \in {"kind", "vcpus", "memory", "boot", "timesync", "nested", "devices", "ignition"} |-> vm[f]]
  /\ vm.kind = "vm"
  /\ vm.boot = NoBoot \/ IsLoader(vm.boot)
  /\ vm.nested \in BOOLEAN
  /\ vm.ignition = [path |-> vm.ignition.path, port |-> vm.ignition.port]
  /\ IsSeq(vm.devices) /\ \A i \in DOMAIN vm.devices : IsDevice(vm.devices[i])

IsCommandLine(o) ==
  /\ IsLoader(o.legacy) /\ o.legacy.kind = "linux"
  /\ IsSeq(o.bootloader) /\ \A i \in DOMAIN o.bootloader : IsSeq(o.bootloader[i])
  /\ IsSeq(o.devices) /\ \A i \in DOMAIN o.devices : o.devices[i].kind \in DOMAIN Empty /\ IsSeq(o.devices[i].options)
  /\ IsSeq(o.timesync)
  /\ {o.nested, o.gui, o.cloudInit} \subseteq BOOLEAN

ASSUME TypedVmsAssumption == \A o \in TypedVms : IsCommandLine(o)
ASSUME BuiltVmsAssumption == \A vm \in BuiltVms : IsMachine(vm)
ASSUME TypedListsAssumption == \A l \in TypedLists : IsSeq(l) /\ \A i \in DOMAIN l : IsSeq(l[i])
ASSUME TypedURIsAssumption ==
  \A u \in TypedURIs : u = [scheme |-> u.scheme, host |-> u.host, path |-> u.path] /\ IsSeq(u.path)

------------------------------------------------------------------------------
\* What happens to a description, a list or an address.

DescInit ==
  \/ Init
  \/ /\ written = NoLine /\ back = Error
     /\ \/ phase = "vmTyped" /\ line \in TypedVms /\ dev = Error
        \/ phase = "vmBuilt" /\ line = NoLine /\ dev \in BuiltVms
        \/ phase = "listTyped" /\ line \in TypedLists /\ dev = Error
        \/ phase = "uriTyped" /\ line \in TypedURIs /\ dev = Error

\* vfkit makes a description of a command line.
ParseVm ==
  /\ phase = "vmTyped"
  /\ dev' = NewVMConfiguration(line)
  /\ phase' = IF dev' = Error THEN "vmRefused" ELSE "vmParsed"
  /\ UNCHANGED <<line, written, back>>

\* The command that starts a vfkit with the machine.
Cmd ==
  /\ phase \in {"vmParsed", "vmBuilt"}
  /\ IF CanWriteVm(dev)
     THEN phase' = "vmWritten" /\ written' = [args |-> Args(dev), files |-> ExtraFiles(dev)]
     ELSE phase' = "vmRefused" /\ UNCHANGED written
  /\ UNCHANGED <<line, dev, back>>

StartVfkit ==
  /\ phase = "vmWritten"
  /\ back' = NewVMConfiguration(written.args)
  /\ phase' = "vmRead"
  /\ UNCHANGED <<line, dev, written>>

\* GET /vm/inspect, ...
Inspect ==
  /\ phase \in {"vmParsed", "vmBuilt"}
  /\ written' = MarshalJSON(dev)
  /\ phase' = "inspected"
  /\ UNCHANGED <<line, dev, back>>

\* ... and the program that reads the answer.
Unmarshal ==
  /\ phase = "inspected"
  /\ back' = UnmarshalJSON(written)
  /\ phase' = "unmarshalled"
  /\ UNCHANGED <<line, dev, written>>

SetList ==
  /\ phase = "listTyped"
  /\ dev' = SetEach(line)
  /\ phase' = "listRead"
  /\ UNCHANGED <<line, written, back>>

ParseURI ==
  /\ phase = "uriTyped"
  /\ dev' = NewEndpoint(line)
  /\ phase' = IF dev' = BadURI THEN "uriRefused" ELSE "uriParsed"
  /\ UNCHANGED <<line, written, back>>

WriteURI ==
  /\ phase = "uriParsed"
  /\ written' = EndpointToCmdLine(dev)
  /\ back' = NewEndpoint(written')
  /\ phase' = "uriRead"
  /\ UNCHANGED <<line, dev>>

DescDone ==
  /\ phase \in {"vmRefused", "vmRead", "unmarshalled", "listRead", "uriRefused", "uriRead"}
  /\ UNCHANGED vars

DescNext ==
  \/ Next
  \/ ParseVm \/ Cmd \/ StartVfkit \/ Inspect \/ Unmarshal
  \/ SetList \/ ParseURI \/ WriteURI \/ DescDone

DescSpec == DescInit /\ [][DescNext]_vars

------------------------------------------------------------------------------
\* Correctness.

\* What Cmd is known not to carry: the time synchronisation, the port of the
\* ignition server, which vfkit chooses, and, of the devices, what a line does not
\* carry. No CPUs are the default; memory is MemoryRounded's.
CarriedVm(vm) ==
  [vm EXCEPT !.timesync = Empty.timesync, !.memory = 0, !.ignition.port = 0,
             !.vcpus = IF @ = 0 THEN 1 ELSE @,
             !.devices = [i \in DOMAIN @ |-> Carried(@[i])]]

\* ToCmdLine does not quote the path of a variable store: a comma outside quotes
\* ends it, and a quote without its match is refused.
Cut(b) == b.kind = "efi" /\ (Cuts(b.path) # {} \/ ~Even(QuotesBefore(b.path, Len(b.path) + 1)))

\* What follows the commas is read as options if it could be.
Ambiguous(b) ==
  /\ b.kind = "efi" /\ Cuts(b.path) # {}
  /\ \A k \in 2 .. Len(Fields(b.path)) :
       Fields(b.path)[k] = <<>> \/ Key(Fields(b.path)[k]) \in DOMAIN LoaderFields.efi

\* A machine that vfkit accepted and that can be written is accepted by the vfkit
\* that Cmd starts, unless it boots macOS or the path of its variable store is cut;
\* and whatever a program builds, the vfkit it starts with Cmd has that machine or
\* none, unless that path has options, or nothing, after its commas.
DescriptionKept ==
  phase = "vmRead" =>
    /\ line # NoLine /\ dev.boot.kind # "macos" /\ ~Cut(dev.boot) => back # Error
    /\ back # Error /\ ~Ambiguous(dev.boot) => CarriedVm(back) = CarriedVm(dev)

\* A machine gets the memory that was asked for, and less than a mebibyte more,
\* through the two conversions of its size, up to the last whole mebibyte below
\* 2^64 bytes.
MemoryRounded ==
  phase = "vmRead" /\ back # Error /\ dev.memory \in 1 .. Word - MiB =>
    back.memory \in dev.memory .. dev.memory + MiB - 1

\* The file behind a descriptor of the new process: extra files are numbered from 3.
FileAt(fd) == IF fd - 2 \in DOMAIN written.files THEN written.files[fd - 2] ELSE NoFile

\* The descriptor an interface's file has in the new process.
Inherited(i) == 3 + Cardinality({j \in 1 .. i - 1 : HasFile(dev.devices[j])})

\* An interface of the machine that Cmd starts is connected to the file that the
\* program gave it exactly when that file has, in the program, the descriptor that
\* it gets in the new process, whichever other interfaces have none, if no two
\* interfaces share a file.
InterfaceGetsItsFile ==
  phase = "vmRead" /\ back # Error /\ IsInjective(written.files) =>
    \A i \in DOMAIN dev.devices :
      HasFile(dev.devices[i]) =>
        (FileAt(back.devices[i].fd) = dev.devices[i].fd <=> dev.devices[i].fd = Inherited(i))

\* What JSON is known not to carry: nested virtualization, the port of the ignition
\* server, the file of an interface, and that its magic is off.
CarriedJson(vm) ==
  [vm EXCEPT !.nested = FALSE, !.ignition.port = 0,
             !.devices = [i \in DOMAIN @ |->
               IF @[i].kind # "net" THEN @[i]
               ELSE [@[i] EXCEPT !.magic = "off", !.fd = IF HasFile(vm.devices[i]) THEN NoFile ELSE NoFd]]]

\* What cannot be read: a boot loader of macOS, and an address of an interface that
\* net.ParseMAC does not take, which a program may have made of any bytes.
Unreadable(vm) ==
  \/ vm.boot.kind = "macos"
  \/ \E i \in DOMAIN vm.devices :
       vm.devices[i].kind = "net" /\ vm.devices[i].mac \notin DOMAIN ParseMAC \cup {""}

\* The answer of GET /vm/inspect is read as the machine it was made of, but for
\* what it does not carry, or cannot be read for one of these reasons.
JsonKept ==
  phase = "unmarshalled" =>
    IF Unreadable(dev) THEN back = Error
    ELSE back # Error /\ CarriedJson(back) = CarriedJson(dev)

\* What json_test.go asserts of the machines it lists, of every one: written as
\* JSON and read again it is equal to itself.
JsonReread == phase = "unmarshalled" => back = dev

\* The elements of a list are the texts between the commas outside quotes, and a
\* list is refused exactly when a quote has no match, over all uses of its flag.
ListAsQuoted ==
  phase = "listRead" =>
    /\ \A i \in DOMAIN line : MeansFields(line[i])
    /\ dev.ok => dev.list = FlattenSeq([i \in DOMAIN line |-> Fields(line[i])])

\* The address that vfkit serves is the one it serves again when it is started with
\* what ToCmdLine writes, unless its path has characters that mean something in a
\* URI: ToCmdLine does not escape them.
EndpointKept ==
  phase = "uriRead" /\ dev.scheme # "None" /\ ToSet(dev.path) \cap {"%", "?"} = {} => back = dev
=============================================================================

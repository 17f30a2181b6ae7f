------------------------- MODULE Description_proofs -------------------------
(***************************************************************************)
(* Theorems about what a command line, JSON, a list and an address keep of *)
(* what they are written from, for every description a user types or a     *)
(* program builds: any options, texts, numbers and devices.                *)
(*                                                                         *)
(* The invariant of the specification is simple: what is read was written  *)
(* from what is described. The work is in the operators: that FromOptions  *)
(* undoes ToCmdLine for every kind of device, that parseString cuts a text *)
(* at the commas outside quotes, and so on for texts and lists of every    *)
(* length. Those are proved by induction, in the form of Induction below.  *)
(***************************************************************************)
EXTENDS Description, SequenceTheorems, FiniteSetTheorems, TLAPS

------------------------------------------------------------------------------
\* Induction.

\* A set of numbers that is not empty has a least one.
LEMMA LeastNatural ==
  ASSUME NEW T, T \subseteq Nat, T # {}
  PROVE  \E x \in T : \A y \in T : x <= y
<1> DEFINE R == OpToRel(<, Nat)
<1>1. PICK x \in T : \A y \in T : ~(<<y, x>> \in R)
  <2>1. IsWellFoundedOn(R, Nat)
    BY NatLessThanWellFounded
  <2> HIDE DEF R
  <2> QED
    BY <2>1, WFMin
<1>2. \A y \in T : ~(y < x)
  BY <1>1 DEF OpToRel
<1> QED
  BY <1>2

\* Induction over the numbers. The library states it for a predicate; here it is
\* stated for a set, which the provers can be given.
LEMMA Induction ==
  ASSUME NEW S, 0 \in S, \A n \in Nat : n \in S => n + 1 \in S
  PROVE  \A n \in Nat : n \in S
<1> DEFINE T == Nat \ S
<1>1. SUFFICES ASSUME T # {} PROVE FALSE
  OBVIOUS
<1>2. PICK x \in T : \A y \in T : x <= y
  BY <1>1, LeastNatural
<1>3. x - 1 \in Nat /\ x - 1 \notin T
  BY <1>2
<1> QED
  BY <1>3

\* The loop of FromOptions over the options is what its turns make of the device,
\* one after the other: the recursive function is defined for every length.
LEMMA LoopUnfolds ==
  ASSUME NEW kind, NEW options, Len(options) \in Nat
  PROVE  \E d : /\ Loop(kind, options) = d[Len(options)]
                /\ d[0] = Start(kind, options)
                /\ \A n \in 1 .. Len(options) : d[n] = Apply(d[n - 1], options[n])
<1> DEFINE Def(d, m) == d = [n \in 0 .. m |-> IF n = 0 THEN Start(kind, options) ELSE Apply(d[n - 1], options[n])]
           S == {m \in Nat : \E d : Def(d, m)}
<1>1. 0 \in S
  <2>1. Def([n \in 0 .. 0 |-> Start(kind, options)], 0)
    OBVIOUS
  <2> QED
    BY <2>1
<1>2. ASSUME NEW m \in Nat, m \in S PROVE m + 1 \in S
  <2>1. PICK d : Def(d, m)
    BY <1>2
  <2> DEFINE e == [n \in 0 .. m + 1 |-> IF n = m + 1 THEN Apply(d[m], options[m + 1]) ELSE d[n]]
  <2>2. Def(e, m + 1)
    BY <2>1
  <2>3. \E x : Def(x, m + 1)
    <3> HIDE DEF e, Def
    <3> QED
      BY <2>2
  <2> QED
    BY <2>3
<1>3. Len(options) \in S
  <2> HIDE DEF S
  <2> QED
    BY <1>1, <1>2, Induction
<1>4. PICK d : Def(d, Len(options))
  BY <1>3
<1> DEFINE c == CHOOSE x : Def(x, Len(options))
<1>5. Def(c, Len(options))
  BY <1>4
<1>6. Loop(kind, options) = c[Len(options)]
  BY DEF Loop
<1> HIDE DEF c
<1> QED
  BY <1>5, <1>6

------------------------------------------------------------------------------
\* Reading the options of a device: what FromOptions makes of any options.

\* The kinds of devices that deviceFromCmdLine knows, and --timesync.
Kinds == DOMAIN Empty

\* An option that FromOptions returns an error for.
Refused(kind, o) == ~Known(kind, o) \/ ~Accepts(Rules[kind][o.key], o)

\* An option that is put in the field f.
Decides(kind, o, f) ==
  Known(kind, o) /\ Rules[kind][o.key].sort # "check" /\ Rules[kind][o.key].field = f

\* What the first n options make of the device start.
ReadSoFar(kind, start, options, n, d) ==
  IF \E i \in 1 .. n : Refused(kind, options[i]) THEN d = Error
  ELSE /\ d = [f \in DOMAIN start |-> d[f]]
       /\ \A f \in DOMAIN start :
            \/ d[f] = start[f] /\ \A i \in 1 .. n : ~Decides(kind, options[i], f)
            \/ \E i \in 1 .. n : Decides(kind, options[i], f) /\ d[f] = Value(Rules[kind][options[i].key], options[i])

\* The kinds, one by one.
LEMMA KindsAre ==
  Kinds = {"nvme", "usb", "blk", "nbd", "net", "serial", "input", "gpu", "vsock", "fs", "rosetta",
           "rng", "balloon", "timesync"}
BY DEF Kinds, Empty

\* No option of a kind changes what kind it is, and each is for a field of it.
LEMMA RulesFit ==
  ASSUME NEW kind \in Kinds, NEW key \in DOMAIN Rules[kind]
  PROVE  /\ Rules[kind][key].field # "kind"
         /\ Rules[kind][key].sort # "check" => Rules[kind][key].field \in DOMAIN Empty[kind]
<1> USE DEF Rules, Empty, Put, OneOf, Num, Sets, Bare, Check, Over
<1>1. CASE kind = "nvme"
  BY <1>1 DEF Disk, DiskRules, StorageRules
<1>2. CASE kind = "usb"
  BY <1>2 DEF Disk, DiskRules, StorageRules
<1>3. CASE kind = "blk"
  <2>1. /\ DOMAIN DiskRules = {"path", "type", "readonly"}
        /\ \A k \in DOMAIN DiskRules : DiskRules[k].field = k
    BY DEF DiskRules, StorageRules
  <2>2. /\ DOMAIN BlkRules = {"path", "type", "readonly", "deviceId"}
        /\ \A k \in DOMAIN BlkRules : BlkRules[k].field = k
    BY <2>1 DEF BlkRules
  <2>3. Rules[kind] = BlkRules
    BY <1>3
  <2>4. {"path", "type", "readonly", "deviceId"} \subseteq DOMAIN Empty[kind]
    BY <1>3 DEF Disk
  <2> QED
    <3> USE <2>2, <2>3, <2>4
    <3> HIDE DEF Rules, Empty, Put, OneOf, Num, Sets, Bare, Check, Over
    <3> QED
      OBVIOUS
<1>4. CASE kind = "nbd"
  BY <1>4 DEF NbdRules, StorageRules
<1>5. CASE kind = "net"
  BY <1>5 DEF NetRules
<1>6. CASE kind = "serial"
  BY <1>6 DEF SerialRules
<1>7. CASE kind = "input"
  BY <1>7 DEF InputRules
<1>8. CASE kind = "gpu"
  BY <1>8 DEF GpuRules
<1>9. CASE kind = "vsock"
  BY <1>9 DEF VsockRules
<1>10. CASE kind = "fs"
  BY <1>10 DEF FsRules
<1>11. CASE kind = "rosetta"
  BY <1>11 DEF RosettaRules
<1>12. CASE kind = "rng"
  BY <1>12
<1>13. CASE kind = "balloon"
  BY <1>13
<1>14. CASE kind = "timesync"
  BY <1>14 DEF TimeSyncRules
<1> QED
  BY KindsAre, <1>1, <1>2, <1>3, <1>4, <1>5, <1>6, <1>7, <1>8, <1>9, <1>10, <1>11, <1>12, <1>13, <1>14

\* The device before its options are read has the fields of its kind.
LEMMA EmptyFits ==
  ASSUME NEW kind \in Kinds
  PROVE  /\ Empty[kind] = [f \in DOMAIN Empty[kind] |-> Empty[kind][f]]
         /\ "kind" \in DOMAIN Empty[kind]
         /\ Empty[kind].kind = kind
         /\ kind # "error"
<1>1. CASE kind = "nvme"
  BY <1>1 DEF Empty, Disk
<1>2. CASE kind = "usb"
  BY <1>2 DEF Empty, Disk
<1>3. CASE kind = "blk"
  BY <1>3 DEF Empty, Disk
<1>4. CASE kind = "nbd"
  BY <1>4 DEF Empty
<1>5. CASE kind = "net"
  BY <1>5 DEF Empty
<1>6. CASE kind = "serial"
  BY <1>6 DEF Empty
<1>7. CASE kind = "input"
  BY <1>7 DEF Empty
<1>8. CASE kind = "gpu"
  BY <1>8 DEF Empty
<1>9. CASE kind = "vsock"
  BY <1>9 DEF Empty
<1>10. CASE kind = "fs"
  BY <1>10 DEF Empty
<1>11. CASE kind = "rosetta"
  BY <1>11 DEF Empty
<1>12. CASE kind = "rng"
  BY <1>12 DEF Empty
<1>13. CASE kind = "balloon"
  BY <1>13 DEF Empty
<1>14. CASE kind = "timesync"
  BY <1>14 DEF Empty
<1> QED
  BY KindsAre, <1>1, <1>2, <1>3, <1>4, <1>5, <1>6, <1>7, <1>8, <1>9, <1>10, <1>11, <1>12, <1>13, <1>14

\* So has the device that the loop starts with.
LEMMA StartFits ==
  ASSUME NEW kind \in Kinds, NEW options
  PROVE  /\ Start(kind, options) = [f \in DOMAIN Empty[kind] |-> Start(kind, options)[f]]
         /\ DOMAIN Start(kind, options) = DOMAIN Empty[kind]
         /\ "kind" \in DOMAIN Empty[kind]
         /\ Start(kind, options).kind = kind
         /\ kind # "error"
<1>1. CASE Start(kind, options) = Empty[kind]
  BY <1>1, EmptyFits
<1>2. CASE kind = "net" /\ Start(kind, options) = [Empty.net EXCEPT !.magic = "on"]
  BY <1>2, EmptyFits
<1> QED
  BY <1>1, <1>2 DEF Start

\* One turn of the loop: an option that is refused ends it, and any other decides
\* on its field.
LEMMA ApplyReads ==
  ASSUME NEW kind \in Kinds, NEW options, NEW n \in Nat, n >= 1, NEW d,
         ReadSoFar(kind, Start(kind, options), options, n - 1, d)
  PROVE  ReadSoFar(kind, Start(kind, options), options, n, Apply(d, options[n]))
<1> DEFINE start == Start(kind, options)
           o == options[n]
           rule == Rules[kind][o.key]
<1>0. 1 .. n = 1 .. n - 1 \cup {n}
  OBVIOUS
<1>1. CASE \E i \in 1 .. n - 1 : Refused(kind, options[i])
  BY <1>1, <1>0 DEF ReadSoFar, Apply
<1>2. CASE ~\E i \in 1 .. n - 1 : Refused(kind, options[i])
  <2>1. /\ d = [f \in DOMAIN start |-> d[f]]
        /\ \A f \in DOMAIN start :
             \/ d[f] = start[f] /\ \A i \in 1 .. n - 1 : ~Decides(kind, options[i], f)
             \/ \E i \in 1 .. n - 1 : Decides(kind, options[i], f) /\ d[f] = Value(Rules[kind][options[i].key], options[i])
    BY <1>2 DEF ReadSoFar
  <2>2. d.kind = kind
    BY <2>1, StartFits, RulesFit DEF Decides, Known
  <2>3. d # Error
    BY <2>2, StartFits DEF Error
  <2>4. CASE Refused(kind, o)
    <3>1. Apply(d, o) = Error
      BY <2>2, <2>4 DEF Apply, Refused
    <3> QED
      BY <3>1, <2>4, <1>0 DEF ReadSoFar
  <2>5. CASE ~Refused(kind, o)
    <3>1. ~\E i \in 1 .. n : Refused(kind, options[i])
      BY <1>0, <1>2, <2>5
    <3>2. Apply(d, o) = IF rule.sort = "check" THEN d ELSE [d EXCEPT ![rule.field] = Value(rule, o)]
      BY <2>2, <2>3, <2>5 DEF Apply, Refused
    <3>3. CASE rule.sort = "check"
      <4>1. \A f : ~Decides(kind, o, f)
        BY <3>3 DEF Decides
      <4> QED
        BY <4>1, <3>1, <3>2, <3>3, <2>1, <1>0 DEF ReadSoFar
    <3>4. CASE rule.sort # "check"
      <4>1. Known(kind, o) /\ rule.field \in DOMAIN start
        BY <2>5, <3>4, RulesFit, StartFits DEF Refused, Known
      <4> DEFINE e == [d EXCEPT ![rule.field] = Value(rule, o)]
      <4>2. /\ e = [f \in DOMAIN start |-> e[f]]
            /\ e[rule.field] = Value(rule, o)
            /\ \A f \in DOMAIN start : f # rule.field => e[f] = d[f]
        <5> HIDE DEF start, rule
        <5> QED BY <2>1, <4>1
      <4>3. \A f : Decides(kind, o, f) <=> f = rule.field
        BY <3>4, <4>1 DEF Decides
      <4> HIDE DEF e
      <4>4. ASSUME NEW f \in DOMAIN start
            PROVE  \/ e[f] = start[f] /\ \A i \in 1 .. n : ~Decides(kind, options[i], f)
                   \/ \E i \in 1 .. n : Decides(kind, options[i], f) /\ e[f] = Value(Rules[kind][options[i].key], options[i])
        <5>1. CASE f = rule.field
          BY <5>1, <4>2, <4>3, <1>0
        <5>2. CASE f # rule.field
          <6>1. e[f] = d[f] /\ ~Decides(kind, o, f)
            BY <5>2, <4>2, <4>3
          <6>2. CASE d[f] = start[f] /\ \A i \in 1 .. n - 1 : ~Decides(kind, options[i], f)
            BY <6>1, <6>2, <1>0
          <6>3. CASE \E i \in 1 .. n - 1 : Decides(kind, options[i], f) /\ d[f] = Value(Rules[kind][options[i].key], options[i])
            BY <6>1, <6>3, <1>0
          <6> QED
            BY <6>2, <6>3, <2>1
        <5> QED
          BY <5>1, <5>2
      <4>5. Apply(d, o) = e
        BY <3>2, <3>4 DEF e
      <4> QED
        BY <4>2, <4>4, <4>5, <3>1 DEF ReadSoFar
    <3> QED
      BY <3>3, <3>4
  <2> QED
    BY <2>4, <2>5
<1> QED
  BY <1>1, <1>2

\* After the loop no option was refused, and every field is the one it started
\* with, if no option is for it, or the value of an option that is.
LEMMA LoopReads ==
  ASSUME NEW kind \in Kinds, NEW options, Len(options) \in Nat
  PROVE  ReadSoFar(kind, Start(kind, options), options, Len(options), Loop(kind, options))
<1>1. PICK d : /\ Loop(kind, options) = d[Len(options)]
               /\ d[0] = Start(kind, options)
               /\ \A n \in 1 .. Len(options) : d[n] = Apply(d[n - 1], options[n])
  BY LoopUnfolds
<1> DEFINE S == {n \in Nat : n <= Len(options) => ReadSoFar(kind, Start(kind, options), options, n, d[n])}
<1>2. 0 \in S
  BY <1>1, StartFits DEF ReadSoFar
<1>3. ASSUME NEW n \in Nat, n \in S PROVE n + 1 \in S
  <2>1. SUFFICES ASSUME n + 1 <= Len(options)
                 PROVE  ReadSoFar(kind, Start(kind, options), options, n + 1, d[n + 1])
    OBVIOUS
  <2>2. d[n + 1] = Apply(d[n], options[n + 1])
    BY <1>1, <2>1
  <2>3. ReadSoFar(kind, Start(kind, options), options, (n + 1) - 1, d[n])
    BY <1>3, <2>1
  <2> QED
    BY <2>2, <2>3, ApplyReads
<1>4. Len(options) \in S
  <2> HIDE DEF S
  <2> QED
    BY <1>2, <1>3, Induction
<1> QED
  BY <1>1, <1>4

------------------------------------------------------------------------------
\* Lines: what strings.Split makes of the values.

\* A flattened list is the concatenation of its lists, one after the other.
LEMMA FlattenUnfolds ==
  ASSUME NEW seqs, Len(seqs) \in Nat, Len(seqs) # 0
  PROVE  \E f : /\ FlattenSeq(seqs) = f[Len(seqs)]
                /\ f[1] = seqs[1]
                /\ \A n \in 1 .. Len(seqs) - 1 : f[n + 1] = f[n] \o seqs[n + 1]
<1> DEFINE Cat(s, t) == s \o t
           Def(f, m) == f = [i \in 1 .. m |-> IF i = 1 THEN seqs[i] ELSE Cat(f[i - 1], seqs[i])]
           S == {m \in Nat : \E f : Def(f, m)}
<1> HIDE DEF Cat
<1>1. 0 \in S
  <2>1. Def([i \in 1 .. 0 |-> 0], 0)
    OBVIOUS
  <2>2. \E f : Def(f, 0)
    <3> HIDE DEF Def
    <3> QED
      BY <2>1
  <2> QED
    BY <2>2
<1>2. ASSUME NEW m \in Nat, m \in S PROVE m + 1 \in S
  <2>1. PICK f : Def(f, m)
    BY <1>2
  <2> DEFINE e == [i \in 1 .. m + 1 |-> IF i # m + 1 THEN f[i] ELSE IF m = 0 THEN seqs[1] ELSE Cat(f[m], seqs[m + 1])]
  <2>2. Def(e, m + 1)
    BY <2>1
  <2>3. \E x : Def(x, m + 1)
    <3> HIDE DEF e, Def
    <3> QED
      BY <2>2
  <2> QED
    BY <2>3
<1>3. Len(seqs) \in S
  <2> HIDE DEF S
  <2> QED
    BY <1>1, <1>2, Induction
<1> DEFINE c == CHOOSE f : Def(f, Len(seqs))
<1>4. Def(c, Len(seqs))
  BY <1>3
<1>5. FlattenSeq(seqs) = c[Len(seqs)]
  BY DEF FlattenSeq, Cat
<1> HIDE DEF c
<1>6. /\ c[1] = seqs[1]
      /\ \A n \in 1 .. Len(seqs) - 1 : c[n + 1] = Cat(c[n], seqs[n + 1])
  BY <1>4
<1> QED
  BY <1>5, <1>6 DEF Cat

\* A flattened list has everything that its lists have.
LEMMA FlattenHolds ==
  ASSUME NEW S, NEW seqs \in Seq(Seq(S))
  PROVE  /\ FlattenSeq(seqs) \in Seq(S)
         /\ \A i \in DOMAIN seqs : \A j \in DOMAIN seqs[i] :
              \E k \in DOMAIN FlattenSeq(seqs) : FlattenSeq(seqs)[k] = seqs[i][j]
<1>1. CASE Len(seqs) = 0
  <2>1. seqs = <<>>
    BY <1>1
  <2>2. FlattenSeq(seqs) = <<>>
    BY <1>1, <2>1 DEF FlattenSeq
  <2>3. DOMAIN seqs = {} /\ <<>> \in Seq(S)
    BY <2>1
  <2> QED
    BY <2>2, <2>3
<1>2. CASE Len(seqs) # 0
  <2>1. Len(seqs) \in Nat /\ DOMAIN seqs = 1 .. Len(seqs) /\ \A i \in 1 .. Len(seqs) : seqs[i] \in Seq(S)
    OBVIOUS
  <2>2. PICK f : /\ FlattenSeq(seqs) = f[Len(seqs)]
                 /\ f[1] = seqs[1]
                 /\ \A n \in 1 .. Len(seqs) - 1 : f[n + 1] = f[n] \o seqs[n + 1]
    BY <1>2, <2>1, FlattenUnfolds
  <2> DEFINE Holds(n) == /\ f[n] \in Seq(S)
                         /\ \A i \in 1 .. n : \A j \in DOMAIN seqs[i] :
                              \E k \in DOMAIN f[n] : f[n][k] = seqs[i][j]
             T == {n \in Nat : n + 1 <= Len(seqs) => Holds(n + 1)}
  <2>3. 0 \in T
    BY <1>2, <2>1, <2>2
  <2>4. ASSUME NEW n \in Nat, n \in T PROVE n + 1 \in T
    <3>1. SUFFICES ASSUME n + 2 <= Len(seqs) PROVE Holds(n + 2)
      OBVIOUS
    <3>2. Holds(n + 1)
      BY <2>4, <3>1
    <3> DEFINE s == f[n + 1]
               t == seqs[n + 2]
    <3>3. f[n + 2] = s \o t /\ s \in Seq(S) /\ t \in Seq(S)
      <4>1. n + 1 \in 1 .. Len(seqs) - 1 /\ (n + 1) + 1 = n + 2 /\ n + 2 \in 1 .. Len(seqs)
        BY <2>1, <3>1
      <4> QED
        BY <2>1, <2>2, <3>2, <4>1, Zenon
    <3> HIDE DEF s, t
    <3>4. ASSUME NEW i \in 1 .. n + 2, NEW j \in DOMAIN seqs[i]
          PROVE  \E k \in DOMAIN (s \o t) : (s \o t)[k] = seqs[i][j]
      <4>1. CASE i = n + 2
        <5>1. Len(s) + j \in DOMAIN (s \o t) /\ (s \o t)[Len(s) + j] = t[j]
          <6>1. j \in 1 .. Len(t) /\ Len(t) \in Nat /\ Len(s) \in Nat
            BY <3>3, <4>1 DEF t
          <6>2. s \o t \in Seq(S) /\ Len(s \o t) = Len(s) + Len(t)
            BY <3>3, ConcatProperties
          <6>3. DOMAIN (s \o t) = 1 .. Len(s) + Len(t)
            BY <6>2, LenProperties
          <6> QED
            BY <6>1, <6>3, <3>3, ConcatProperties
        <5> QED
          BY <5>1, <4>1 DEF t
      <4>2. CASE i # n + 2
        <5>1. PICK k \in DOMAIN s : s[k] = seqs[i][j]
          BY <3>2, <4>2 DEF s
        <5>2. k \in DOMAIN (s \o t) /\ (s \o t)[k] = s[k]
          <6>1. k \in 1 .. Len(s) /\ Len(t) \in Nat /\ Len(s) \in Nat
            BY <3>3
          <6>2. s \o t \in Seq(S) /\ Len(s \o t) = Len(s) + Len(t)
            BY <3>3, ConcatProperties
          <6>3. DOMAIN (s \o t) = 1 .. Len(s) + Len(t)
            BY <6>2, LenProperties
          <6> QED
            BY <6>1, <6>3, <3>3, ConcatProperties
        <5> QED
          BY <5>1, <5>2
      <4> QED
        BY <4>1, <4>2
    <3>5. s \o t \in Seq(S)
      BY <3>3, ConcatProperties
    <3>6. f[n + 2] \in Seq(S)
      BY <3>3, <3>5
    <3>7. ASSUME NEW i \in 1 .. n + 2, NEW j \in DOMAIN seqs[i]
          PROVE  \E k \in DOMAIN f[n + 2] : f[n + 2][k] = seqs[i][j]
      BY <3>3, <3>4, Zenon
    <3> QED
      BY <3>6, <3>7
  <2>5. Len(seqs) - 1 \in T
    <3> HIDE DEF T
    <3>1. Len(seqs) - 1 \in Nat
      BY <1>2, <2>1
    <3> QED
      BY <2>3, <2>4, <3>1, Induction
  <2>6. Holds(Len(seqs))
    BY <2>5, <2>1
  <2> QED
    BY <2>1, <2>2, <2>6
<1> QED
  BY <1>1, <1>2

\* Flattening undoes a split that splits nothing.
LEMMA FlattenSingle ==
  ASSUME NEW S, NEW s \in Seq(S), NEW seqs \in Seq(Seq(S)), Len(seqs) = Len(s),
         \A i \in 1 .. Len(s) : seqs[i] = <<s[i]>>
  PROVE  FlattenSeq(seqs) = s
<1>1. CASE Len(s) = 0
  BY <1>1 DEF FlattenSeq
<1>2. CASE Len(s) # 0
  <2>1. Len(seqs) \in Nat /\ Len(seqs) # 0
    BY <1>2
  <2>2. PICK f : /\ FlattenSeq(seqs) = f[Len(seqs)]
                 /\ f[1] = seqs[1]
                 /\ \A n \in 1 .. Len(seqs) - 1 : f[n + 1] = f[n] \o seqs[n + 1]
    BY <2>1, FlattenUnfolds
  <2> DEFINE T == {n \in Nat : n + 1 <= Len(s) => f[n + 1] = SubSeq(s, 1, n + 1)}
  <2>3. 0 \in T
    BY <1>2, <2>2
  <2>4. ASSUME NEW n \in Nat, n \in T PROVE n + 1 \in T
    <3>0. n + 1 \in Nat /\ (n + 1) + 1 = n + 2
      OBVIOUS
    <3>1. SUFFICES ASSUME n + 2 <= Len(s) PROVE f[n + 2] = SubSeq(s, 1, n + 2)
      BY <3>0
    <3>2. f[n + 2] = SubSeq(s, 1, n + 1) \o <<s[n + 2]>>
      <4>1. n + 1 \in 1 .. Len(seqs) - 1 /\ (n + 1) + 1 = n + 2 /\ n + 2 \in 1 .. Len(s) /\ n + 1 <= Len(s)
        BY <2>1, <3>1
      <4>2. f[n + 1] = SubSeq(s, 1, n + 1)
        BY <2>4, <4>1
      <4> QED
        BY <2>2, <4>1, <4>2, Zenon
    <3>3. n + 2 \in 1 .. Len(s) /\ 1 \in 1 .. Len(s) /\ (n + 2) - 1 = n + 1
      BY <3>1
    <3> QED
      BY <3>2, <3>3, SubSeqRecursiveSecond
  <2>5. Len(s) - 1 \in T
    <3> HIDE DEF T
    <3>1. Len(s) - 1 \in Nat
      BY <1>2
    <3> QED
      BY <2>3, <2>4, <3>1, Induction
  <2>6. f[Len(s)] = SubSeq(s, 1, Len(s))
    BY <2>5
  <2> QED
    BY <2>2, <2>6, SubSeqFull
<1> QED
  BY <1>1, <1>2

\* What strings.Split leaves after the comma is no option of any kind.
LEMMA CommaIsNoKey ==
  ASSUME NEW kind \in Kinds
  PROVE  "comma" \notin DOMAIN Rules[kind]
<1> USE DEF Rules, Over
<1>1. CASE kind = "nvme"
  BY <1>1 DEF DiskRules, StorageRules
<1>2. CASE kind = "usb"
  BY <1>2 DEF DiskRules, StorageRules
<1>3. CASE kind = "blk"
  BY <1>3 DEF BlkRules, DiskRules, StorageRules
<1>4. CASE kind = "nbd"
  BY <1>4 DEF NbdRules, StorageRules
<1>5. CASE kind = "net"
  BY <1>5 DEF NetRules
<1>6. CASE kind = "serial"
  BY <1>6 DEF SerialRules
<1>7. CASE kind = "input"
  BY <1>7 DEF InputRules
<1>8. CASE kind = "gpu"
  BY <1>8 DEF GpuRules
<1>9. CASE kind = "vsock"
  BY <1>9 DEF VsockRules
<1>10. CASE kind = "fs"
  BY <1>10 DEF FsRules
<1>11. CASE kind = "rosetta"
  BY <1>11 DEF RosettaRules
<1>12. CASE kind = "rng"
  BY <1>12
<1>13. CASE kind = "balloon"
  BY <1>13
<1>14. CASE kind = "timesync"
  BY <1>14 DEF TimeSyncRules
<1> QED
  BY KindsAre, <1>1, <1>2, <1>3, <1>4, <1>5, <1>6, <1>7, <1>8, <1>9, <1>10, <1>11, <1>12, <1>13, <1>14

\* A value with a comma in it refuses its line, since deviceFromCmdLine splits it
\* there; without one a line is read as it was written.
LEMMA CommasRefuse ==
  ASSUME NEW O, NEW l, l.kind \in Kinds, l.options \in Seq(O)
  PROVE  DeviceFromCmdLine(l) =
           IF \E i \in DOMAIN l.options : l.options[i].value = Comma THEN Error
           ELSE FromOptions(l.kind, l.options)
<1> DEFINE s == l.options
           seqs == [i \in 1 .. Len(s) |-> Split(s[i])]
           Option == O \cup {Text(o.key, "with") : o \in O} \cup {Flag("comma")}
<1>1. s \in Seq(O) /\ Len(s) \in Nat /\ DOMAIN s = 1 .. Len(s)
  OBVIOUS
<1>2. \A i \in 1 .. Len(s) : Split(s[i]) \in Seq(Option)
  <2>1. ASSUME NEW o \in O PROVE <<o>> \in Seq(Option) /\ <<Text(o.key, "with"), Flag("comma")>> \in Seq(Option)
    <3>1. o \in Option /\ Text(o.key, "with") \in Option /\ Flag("comma") \in Option
      OBVIOUS
    <3> HIDE DEF Option
    <3> QED
      BY <3>1
  <2>2. \A i \in 1 .. Len(s) : s[i] \in O
    BY <1>1
  <2> HIDE DEF Option, s
  <2> QED
    BY <2>1, <2>2 DEF Split
<1>8. s \in Seq(Option)
  BY <1>1, SeqMonotonic
<1> HIDE DEF Option
<1>3. seqs \in Seq(Seq(Option)) /\ Len(seqs) = Len(s)
  BY <1>1, <1>2
<1>4. DeviceFromCmdLine(l) = FromOptions(l.kind, FlattenSeq(seqs))
  BY DEF DeviceFromCmdLine
<1>5. CASE \E i \in DOMAIN s : s[i].value = Comma
  <2>1. PICK i \in 1 .. Len(s) : s[i].value = Comma
    BY <1>5, <1>1
  <2>2. i \in DOMAIN seqs /\ 2 \in DOMAIN seqs[i] /\ seqs[i][2] = Flag("comma")
    BY <2>1, <1>1 DEF Split
  <2> DEFINE t == FlattenSeq(seqs)
  <2> HIDE DEF seqs
  <2>3. t \in Seq(Option) /\ \E k \in DOMAIN t : t[k] = Flag("comma")
    BY <2>2, <1>3, FlattenHolds
  <2> HIDE DEF t
  <2>4. PICK k \in 1 .. Len(t) : t[k] = Flag("comma")
    BY <2>3
  <2>5. Refused(l.kind, t[k])
    <3>2. Flag("comma").key = "comma"
      BY DEF Flag
    <3>1. t[k].key = "comma"
      BY <2>4, <3>2, Zenon
    <3> QED
      BY <3>1, CommaIsNoKey DEF Refused, Known
  <2>6. Loop(l.kind, t) = Error
    BY <2>3, <2>4, <2>5, LoopReads DEF ReadSoFar
  <2>7. FromOptions(l.kind, t) = Error
    BY <2>6 DEF FromOptions
  <2> QED
    BY <1>4, <1>5, <2>7 DEF t
<1>6. CASE ~\E i \in DOMAIN s : s[i].value = Comma
  <2>1. \A i \in 1 .. Len(s) : seqs[i] = <<s[i]>>
    BY <1>1, <1>6 DEF Split
  <2>2. FlattenSeq(seqs) = s
    <3> HIDE DEF seqs
    <3> QED
      BY <1>1, <1>3, <1>8, <2>1, FlattenSingle
  <2> QED
    BY <1>4, <1>6, <2>2
<1> QED
  BY <1>5, <1>6

------------------------------------------------------------------------------
\* Options that decide on different fields.

\* s has the options T, and no two of them decide on the same field.
Lists(kind, s, T) ==
  /\ s \in Seq(T) /\ ToSet(s) = T
  /\ \A i, j \in 1 .. Len(s) : i # j => Field(kind, s[i]) # Field(kind, s[j])

\* The list of one option.
LEMMA ListsOne ==
  ASSUME NEW kind, NEW o
  PROVE  Lists(kind, <<o>>, {o})
BY DEF Lists, ToSet

\* The list of an option that is written only on a condition.
LEMMA ListsWhen ==
  ASSUME NEW kind, NEW o, NEW c \in BOOLEAN
  PROVE  Lists(kind, When(c, o), IF c THEN {o} ELSE {})
<1>1. Lists(kind, <<>>, {})
  BY DEF Lists, ToSet
<1> QED
  BY <1>1, ListsOne DEF When

\* Two such lists, if no option of one decides on what an option of the other does.
LEMMA ListsBoth ==
  ASSUME NEW kind, NEW s, NEW t, NEW T, NEW U, Lists(kind, s, T), Lists(kind, t, U),
         \A o \in T, p \in U : Field(kind, o) # Field(kind, p)
  PROVE  Lists(kind, s \o t, T \cup U)
<1> DEFINE V == T \cup U
<1>1. s \in Seq(V) /\ t \in Seq(V) /\ s \in Seq(T) /\ t \in Seq(U)
  BY SeqMonotonic DEF Lists
<1>2. ToSet(s) = T /\ ToSet(t) = U
  BY DEF Lists
<1> HIDE DEF V
<1>3. /\ s \o t \in Seq(V)
      /\ Len(s \o t) = Len(s) + Len(t)
      /\ \A i \in 1 .. Len(s) + Len(t) : (s \o t)[i] = IF i <= Len(s) THEN s[i] ELSE t[i - Len(s)]
      /\ Len(s) \in Nat /\ Len(t) \in Nat
      /\ DOMAIN s = 1 .. Len(s) /\ DOMAIN t = 1 .. Len(t)
  BY <1>1, ConcatProperties, LenProperties
<1>4. DOMAIN (s \o t) = 1 .. Len(s) + Len(t)
  BY <1>3, LenProperties
<1>5. \A i \in 1 .. Len(s) : s[i] \in T
  BY <1>1
<1>6. \A i \in 1 .. Len(t) : t[i] \in U
  BY <1>1
<1>7. ToSet(s \o t) = V
  <2>1. ASSUME NEW o \in V PROVE o \in ToSet(s \o t)
    <3>1. CASE o \in T
      <4>1. PICK i \in 1 .. Len(s) : s[i] = o
        BY <3>1, <1>2, <1>3 DEF ToSet
      <4>2. i \in 1 .. Len(s) + Len(t) /\ (s \o t)[i] = o
        BY <4>1, <1>3
      <4> QED
        BY <4>2, <1>4 DEF ToSet
    <3>2. CASE o \in U
      <4>1. PICK i \in 1 .. Len(t) : t[i] = o
        BY <3>2, <1>2, <1>3 DEF ToSet
      <4>2. Len(s) + i \in 1 .. Len(s) + Len(t) /\ (s \o t)[Len(s) + i] = o
        BY <4>1, <1>3
      <4> QED
        BY <4>2, <1>4 DEF ToSet
    <3> QED
      BY <3>1, <3>2 DEF V
  <2>2. ASSUME NEW o \in ToSet(s \o t) PROVE o \in V
    <3>1. PICK i \in 1 .. Len(s) + Len(t) : o = (s \o t)[i]
      BY <2>2, <1>4 DEF ToSet
    <3>2. CASE i <= Len(s)
      BY <3>1, <3>2, <1>3, <1>5 DEF V
    <3>3. CASE ~(i <= Len(s))
      <4>1. i - Len(s) \in 1 .. Len(t)
        BY <3>1, <3>3, <1>3
      <4> QED
        BY <3>1, <3>3, <4>1, <1>3, <1>6 DEF V
    <3> QED
      BY <3>2, <3>3
  <2> QED
    BY <2>1, <2>2
<1>8. ASSUME NEW i \in 1 .. Len(s) + Len(t), NEW j \in 1 .. Len(s) + Len(t), i # j
      PROVE  Field(kind, (s \o t)[i]) # Field(kind, (s \o t)[j])
  <2>1. CASE i <= Len(s) /\ j <= Len(s)
    BY <2>1, <1>8, <1>3 DEF Lists
  <2>2. CASE i <= Len(s) /\ ~(j <= Len(s))
    <3>1. i \in 1 .. Len(s) /\ j - Len(s) \in 1 .. Len(t)
      BY <2>2, <1>3
    <3> QED
      BY <3>1, <2>2, <1>3, <1>5, <1>6
  <2>3. CASE ~(i <= Len(s)) /\ j <= Len(s)
    <3>1. j \in 1 .. Len(s) /\ i - Len(s) \in 1 .. Len(t)
      BY <2>3, <1>3
    <3> QED
      BY <3>1, <2>3, <1>3, <1>5, <1>6
  <2>4. CASE ~(i <= Len(s)) /\ ~(j <= Len(s))
    <3>1. i - Len(s) \in 1 .. Len(t) /\ j - Len(s) \in 1 .. Len(t) /\ i - Len(s) # j - Len(s)
      BY <2>4, <1>8, <1>3
    <3>2. (s \o t)[i] = t[i - Len(s)] /\ (s \o t)[j] = t[j - Len(s)]
      BY <2>4, <1>3
    <3>3. Field(kind, t[i - Len(s)]) # Field(kind, t[j - Len(s)])
      BY <3>1 DEF Lists
    <3> QED
      BY <3>2, <3>3
  <2> QED
    BY <2>1, <2>2, <2>3, <2>4
<1> QED
  BY <1>3, <1>7, <1>8 DEF Lists, V

\* Each option of a device decides on its own field.
LEMMA FieldDecided ==
  ASSUME NEW kind, NEW o, NEW f, Decides(kind, o, f)
  PROVE  Field(kind, o) = f
BY DEF Decides, Field

\* The device e that the loop makes of the options T.
Makes(kind, start, T, e) ==
  /\ e = [f \in DOMAIN Empty[kind] |-> e[f]]
  /\ \A f \in DOMAIN Empty[kind] :
       /\ \A o \in T : Decides(kind, o, f) => e[f] = Value(Rules[kind][o.key], o)
       /\ (\A o \in T : ~Decides(kind, o, f)) => e[f] = start[f]

\* What the loop makes of options that decide on different fields: the order in
\* which they are listed does not matter.
LEMMA ListsRead ==
  ASSUME NEW kind \in Kinds, NEW s, NEW T, Lists(kind, s, T)
  PROVE  IF \E o \in T : Refused(kind, o) THEN Loop(kind, s) = Error
         ELSE Makes(kind, Start(kind, s), T, Loop(kind, s))
<1> DEFINE d == Loop(kind, s)
           start == Start(kind, s)
<1>1. s \in Seq(T) /\ ToSet(s) = T /\ Len(s) \in Nat /\ DOMAIN s = 1 .. Len(s)
  BY DEF Lists
<1>2. ReadSoFar(kind, start, s, Len(s), d)
  BY <1>1, LoopReads
<1>3. \A o \in T : \E i \in 1 .. Len(s) : s[i] = o
  BY <1>1 DEF ToSet
<1>4. \A i \in 1 .. Len(s) : s[i] \in T
  BY <1>1
<1>5. DOMAIN start = DOMAIN Empty[kind]
  BY StartFits
<1> HIDE DEF d, start
<1>6. CASE \E o \in T : Refused(kind, o)
  BY <1>2, <1>3, <1>6 DEF ReadSoFar, d
<1>7. CASE ~\E o \in T : Refused(kind, o)
  <2>1. /\ d = [f \in DOMAIN start |-> d[f]]
        /\ \A f \in DOMAIN start :
            \/ d[f] = start[f] /\ \A i \in 1 .. Len(s) : ~Decides(kind, s[i], f)
            \/ \E i \in 1 .. Len(s) : Decides(kind, s[i], f) /\ d[f] = Value(Rules[kind][s[i].key], s[i])
    BY <1>2, <1>4, <1>7 DEF ReadSoFar
  <2>2. ASSUME NEW f \in DOMAIN Empty[kind], NEW o \in T, Decides(kind, o, f)
        PROVE  d[f] = Value(Rules[kind][o.key], o)
    <3>1. PICK j \in 1 .. Len(s) : s[j] = o
      BY <1>3
    <3>2. PICK i \in 1 .. Len(s) : Decides(kind, s[i], f) /\ d[f] = Value(Rules[kind][s[i].key], s[i])
      BY <2>1, <2>2, <3>1, <1>5
    <3>3. Field(kind, s[i]) = Field(kind, s[j])
      BY <2>2, <3>1, <3>2, FieldDecided
    <3>4. i = j
      BY <3>3 DEF Lists
    <3> QED
      BY <3>1, <3>2, <3>4
  <2>3. ASSUME NEW f \in DOMAIN Empty[kind], \A o \in T : ~Decides(kind, o, f)
        PROVE  d[f] = start[f]
    BY <2>1, <2>3, <1>4, <1>5
  <2>4. Makes(kind, start, T, d)
    BY <2>1, <2>2, <2>3, <1>5 DEF Makes
  <2> QED
    BY <2>4, <1>7 DEF d, start
<1> QED
  BY <1>6, <1>7

\* What vfkit makes of a line of such options.
LEMMA WrittenRead ==
  ASSUME NEW kind \in Kinds, NEW s, NEW T, Lists(kind, s, T)
  PROVE  LET b == DeviceFromCmdLine([kind |-> kind, options |-> s])
         IN  IF \E o \in T : o.value = Comma \/ Refused(kind, o) THEN b = Error
             ELSE \E e : /\ Makes(kind, Start(kind, s), T, e)
                         /\ b = IF (kind = "net" => TypeFits(e, s)) /\ Valid(WithDefaults(e))
                                THEN WithDefaults(e) ELSE Error
<1> DEFINE l == [kind |-> kind, options |-> s]
<1>1. s \in Seq(T) /\ ToSet(s) = T /\ Len(s) \in Nat /\ DOMAIN s = 1 .. Len(s)
  BY DEF Lists
<1>2. l.kind = kind /\ l.options = s
  OBVIOUS
<1> HIDE DEF l
<1>3. DeviceFromCmdLine(l) = IF \E i \in DOMAIN s : s[i].value = Comma THEN Error ELSE FromOptions(kind, s)
  BY <1>1, <1>2, CommasRefuse
<1>4. (\E i \in DOMAIN s : s[i].value = Comma) <=> \E o \in T : o.value = Comma
  BY <1>1 DEF ToSet
<1>5. CASE \E o \in T : o.value = Comma
  BY <1>3, <1>4, <1>5 DEF l
<1>6. CASE (~\E o \in T : o.value = Comma) /\ \E o \in T : Refused(kind, o)
  <2>1. FromOptions(kind, s) = Error
    BY <1>6, ListsRead DEF FromOptions
  <2> QED
    BY <1>3, <1>4, <1>6, <2>1 DEF l
<1>7. CASE ~\E o \in T : o.value = Comma \/ Refused(kind, o)
  <2> DEFINE e == Loop(kind, s)
  <2>1. Makes(kind, Start(kind, s), T, e)
    BY <1>7, ListsRead
  <2>2. e # Error
    <3>1. e = [f \in DOMAIN Empty[kind] |-> e[f]] /\ e.kind = Start(kind, s).kind
      BY <2>1, StartFits, RulesFit DEF Makes, Decides, Known
    <3> QED
      BY <3>1, StartFits DEF Error
  <2>3. FromOptions(kind, s) = IF (kind = "net" => TypeFits(e, s)) /\ Valid(WithDefaults(e))
                               THEN WithDefaults(e) ELSE Error
    BY <2>2 DEF FromOptions
  <2> HIDE DEF e
  <2>4. DeviceFromCmdLine(l) = FromOptions(kind, s)
    BY <1>3, <1>4, <1>7
  <2> QED
    BY <1>7, <2>1, <2>3, <2>4 DEF l
<1> QED
  BY <1>5, <1>6, <1>7

\* Two lines with the same options, of which no two decide on the same field, are
\* read as the same device, or both refused.
LEMMA SameSetSameDevice ==
  ASSUME NEW kind \in Kinds, NEW s, NEW t, NEW T, Lists(kind, s, T), Lists(kind, t, T)
  PROVE  DeviceFromCmdLine([kind |-> kind, options |-> s]) = DeviceFromCmdLine([kind |-> kind, options |-> t])
<1> DEFINE b == DeviceFromCmdLine([kind |-> kind, options |-> s])
           c == DeviceFromCmdLine([kind |-> kind, options |-> t])
<1>1. ToSet(s) = T /\ ToSet(t) = T
  BY DEF Lists
<1>2. Start(kind, s) = Start(kind, t) /\ \A e : TypeFits(e, s) <=> TypeFits(e, t)
  BY <1>1 DEF Start, TypeFits, Keys
<1>3. CASE \E o \in T : o.value = Comma \/ Refused(kind, o)
  BY <1>3, WrittenRead
<1>4. CASE ~\E o \in T : o.value = Comma \/ Refused(kind, o)
  <2>1. PICK e : /\ Makes(kind, Start(kind, s), T, e)
                 /\ b = IF (kind = "net" => TypeFits(e, s)) /\ Valid(WithDefaults(e))
                        THEN WithDefaults(e) ELSE Error
    BY <1>4, WrittenRead
  <2>2. PICK g : /\ Makes(kind, Start(kind, t), T, g)
                 /\ c = IF (kind = "net" => TypeFits(g, t)) /\ Valid(WithDefaults(g))
                        THEN WithDefaults(g) ELSE Error
    BY <1>4, WrittenRead
  <2>3. \A f \in DOMAIN Empty[kind] : e[f] = g[f]
    <3>1. TAKE f \in DOMAIN Empty[kind]
    <3>2. CASE \E o \in T : Decides(kind, o, f)
      BY <3>2, <2>1, <2>2 DEF Makes
    <3>3. CASE ~\E o \in T : Decides(kind, o, f)
      BY <3>3, <2>1, <2>2, <1>2 DEF Makes
    <3> QED
      BY <3>2, <3>3
  <2>4. e = g
    BY <2>1, <2>2, <2>3 DEF Makes
  <2> QED
    BY <2>1, <2>2, <2>4, <1>2
<1> QED
  BY <1>3, <1>4

\* The orders that OrderFree asks about are such lists.
LEMMA PermutedLists ==
  ASSUME NEW O, NEW l, l.options \in Seq(O), Independent(l), NEW options \in SetToSeqs(ToSet(l.options))
  PROVE  /\ Lists(l.kind, l.options, ToSet(l.options))
         /\ Lists(l.kind, options, ToSet(l.options))
<1> DEFINE s == l.options
           T == ToSet(s)
           n == Cardinality(T)
<1>1. s \in Seq(O) /\ Len(s) \in Nat /\ DOMAIN s = 1 .. Len(s)
  OBVIOUS
<1>2. T = {s[i] : i \in 1 .. Len(s)}
  BY <1>1 DEF ToSet
<1>3. s \in [1 .. Len(s) -> T] /\ s \in Seq(T)
  <2>1. s \in [1 .. Len(s) -> T]
    BY <1>1, <1>2
  <2> HIDE DEF T
  <2> QED
    BY <1>1, <2>1
<1>4. Lists(l.kind, s, T)
  BY <1>3 DEF Lists, Independent
<1>5. IsFiniteSet(T) /\ n \in Nat
  <2>1. s \in Surjection(1 .. Len(s), T)
    BY <1>2, <1>3 DEF Surjection
  <2>2. IsFiniteSet(1 .. Len(s))
    BY <1>1, FS_Interval
  <2>3. IsFiniteSet(T)
    BY <2>1, <2>2, FS_Surjection
  <2> QED
    BY <2>3, FS_CardinalityType
<1>6. options \in [1 .. n -> T] /\ \A i, j \in 1 .. n : i # j => options[i] # options[j]
  BY DEF SetToSeqs
<1>7. options \in Surjection(1 .. n, T)
  <2>1. options \in Injection(1 .. n, T)
    BY <1>6 DEF Injection, IsInjective
  <2>2. IsFiniteSet(1 .. n) /\ Cardinality(1 .. n) = n
    BY <1>5, FS_Interval
  <2> HIDE DEF T
  <2> QED
    BY <2>1, <2>2, <1>5, FS_Injection
<1>8. options \in Seq(T) /\ Len(options) = n /\ DOMAIN options = 1 .. n
  <2> HIDE DEF T, n
  <2> QED
    BY <1>5, <1>6
<1>9. ToSet(options) = T
  <2>1. \A o \in T : \E i \in 1 .. n : options[i] = o
    BY <1>7 DEF Surjection
  <2> HIDE DEF T, n
  <2> QED
    BY <2>1, <1>6, <1>8 DEF ToSet
<1>10. \A i, j \in 1 .. n : i # j => Field(l.kind, options[i]) # Field(l.kind, options[j])
  <2>1. TAKE i, j \in 1 .. n
  <2>2. HAVE i # j
  <2>3. PICK x \in 1 .. Len(s) : options[i] = s[x]
    BY <1>2, <1>6
  <2>4. PICK y \in 1 .. Len(s) : options[j] = s[y]
    BY <1>2, <1>6
  <2>5. x # y
    BY <1>6, <2>2, <2>3, <2>4
  <2> QED
    BY <2>3, <2>4, <2>5 DEF Independent
<1>11. Lists(l.kind, options, T)
  <2> HIDE DEF T, n
  <2> QED
    BY <1>8, <1>9, <1>10 DEF Lists
<1> QED
  BY <1>4, <1>11

------------------------------------------------------------------------------
\* What ToCmdLine writes of each kind of device, and what FromOptions makes of it.

\* If the option o of a device of this kind is accepted, it puts v in the field f.
Puts(kind, o, f, v) ==
  /\ Known(kind, o) /\ Field(kind, o) = f /\ Decides(kind, o, f)
  /\ Value(Rules[kind][o.key], o) = v

\* A text is put in its field as it is, and never refused.
LEMMA TextPuts ==
  ASSUME NEW kind, NEW key, NEW f, NEW v, key \in DOMAIN Rules[kind], Rules[kind][key] = Put(f)
  PROVE  Puts(kind, Text(key, v), f, v) /\ ~Refused(kind, Text(key, v))
<1> DEFINE o == Text(key, v)
           rule == Put(f)
<1>1. o.key = key /\ o.value = v /\ rule.sort = "text" /\ rule.field = f
  BY DEF Text, Put
<1>2. Known(kind, o) /\ Rules[kind][o.key] = rule
  BY <1>1 DEF Known
<1> HIDE DEF o, rule
<1>3. Accepts(rule, o) <=> TRUE
  BY <1>1 DEF Accepts
<1>4. Value(rule, o) = v
  BY <1>1 DEF Value
<1>5. Puts(kind, o, f, v)
  BY <1>1, <1>2, <1>4 DEF Puts, Field, Decides
<1> QED
  BY <1>2, <1>3, <1>5 DEF Refused, o

\* A text that must be one of a few is refused if it is not.
LEMMA OneOfPuts ==
  ASSUME NEW kind, NEW key, NEW f, NEW v, NEW values, key \in DOMAIN Rules[kind], Rules[kind][key] = OneOf(f, values)
  PROVE  Puts(kind, Text(key, v), f, v) /\ (Refused(kind, Text(key, v)) <=> v \notin values)
<1> DEFINE o == Text(key, v)
           rule == OneOf(f, values)
<1>1. o.key = key /\ o.value = v /\ rule.sort = "oneOf" /\ rule.field = f /\ rule.values = values
  BY DEF Text, OneOf
<1>2. Known(kind, o) /\ Rules[kind][o.key] = rule
  BY <1>1 DEF Known
<1> HIDE DEF o, rule
<1>3. Accepts(rule, o) <=> v \in values
  BY <1>1 DEF Accepts
<1>4. Value(rule, o) = v
  BY <1>1 DEF Value
<1>5. Puts(kind, o, f, v)
  BY <1>1, <1>2, <1>4 DEF Puts, Field, Decides
<1> QED
  BY <1>2, <1>3, <1>5 DEF Refused, o

\* A number is put in its field, and refused if it is out of range.
LEMMA NumberPuts ==
  ASSUME NEW kind, NEW key, NEW f, NEW n, NEW values, key \in DOMAIN Rules[kind], Rules[kind][key] = Num(f, values)
  PROVE  Puts(kind, Number(key, n), f, n) /\ (Refused(kind, Number(key, n)) <=> n \notin values)
<1> DEFINE o == Number(key, n)
           rule == Num(f, values)
<1>1. o.key = key /\ o.value = "number" /\ o.num = n /\ rule.sort = "number" /\ rule.field = f /\ rule.values = values
  BY DEF Number, Num
<1>2. Known(kind, o) /\ Rules[kind][o.key] = rule
  BY <1>1 DEF Known
<1> HIDE DEF o, rule
<1>3. Accepts(rule, o) <=> n \in values
  BY <1>1 DEF Accepts
<1>4. Value(rule, o) = n
  BY <1>1 DEF Value
<1>5. Puts(kind, o, f, n)
  BY <1>1, <1>2, <1>4 DEF Puts, Field, Decides
<1> QED
  BY <1>2, <1>3, <1>5 DEF Refused, o

\* A flag that takes no value, written without one, sets its field.
LEMMA BarePuts ==
  ASSUME NEW kind, NEW key, NEW f, NEW v, key \in DOMAIN Rules[kind], Rules[kind][key] = Bare(f, v)
  PROVE  Puts(kind, Flag(key), f, v) /\ ~Refused(kind, Flag(key))
<1> DEFINE o == Flag(key)
           rule == Bare(f, v)
<1>1. o.key = key /\ o.value = "" /\ rule.sort = "bare" /\ rule.field = f /\ rule.to = v
  BY DEF Flag, Bare
<1>2. Known(kind, o) /\ Rules[kind][o.key] = rule
  BY <1>1 DEF Known
<1> HIDE DEF o, rule
<1>3. Accepts(rule, o) <=> TRUE
  BY <1>1 DEF Accepts
<1>4. Value(rule, o) = v
  BY <1>1 DEF Value
<1>5. Puts(kind, o, f, v)
  BY <1>1, <1>2, <1>4 DEF Puts, Field, Decides
<1> QED
  BY <1>2, <1>3, <1>5 DEF Refused, o

\* A flag that takes any value sets its field.
LEMMA SetsPuts ==
  ASSUME NEW kind, NEW key, NEW f, NEW v, key \in DOMAIN Rules[kind], Rules[kind][key] = Sets(f, v)
  PROVE  Puts(kind, Flag(key), f, v) /\ ~Refused(kind, Flag(key))
<1> DEFINE o == Flag(key)
           rule == Sets(f, v)
<1>1. o.key = key /\ o.value = "" /\ rule.sort = "any" /\ rule.field = f /\ rule.to = v
  BY DEF Flag, Sets
<1>2. Known(kind, o) /\ Rules[kind][o.key] = rule
  BY <1>1 DEF Known
<1> HIDE DEF o, rule
<1>3. Accepts(rule, o) <=> TRUE
  BY <1>1 DEF Accepts
<1>4. Value(rule, o) = v
  BY <1>1 DEF Value
<1>5. Puts(kind, o, f, v)
  BY <1>1, <1>2, <1>4 DEF Puts, Field, Decides
<1> QED
  BY <1>2, <1>3, <1>5 DEF Refused, o

\* A key that a kind does not have is refused.
LEMMA UnknownRefused ==
  ASSUME NEW kind, NEW o, o.key \notin DOMAIN Rules[kind]
  PROVE  Field(kind, o) = o.key /\ Refused(kind, o)
BY DEF Refused, Known, Field

\* Some value has a comma in it.
Commas(T) == \E o \in T : o.value = Comma

\* Options that say of a device c what c is, and say everything in which c differs
\* from the device before its options are read, are read as c or refused: the form
\* in which ToCmdLine and FromOptions are shown to agree, kind by kind.
LEMMA Echo ==
  ASSUME NEW kind \in Kinds, NEW s, NEW T, Lists(kind, s, T),
         NEW c, c = [f \in DOMAIN Empty[kind] |-> c[f]],
         \A o \in T : ~Refused(kind, o) => \A f : Decides(kind, o, f) => Value(Rules[kind][o.key], o) = c[f],
         \A f \in DOMAIN Empty[kind] : c[f] = Start(kind, s)[f] \/ \E o \in T : Decides(kind, o, f) \/ Refused(kind, o)
  PROVE  DeviceFromCmdLine([kind |-> kind, options |-> s])
           = IF /\ ~Commas(T) /\ ~\E o \in T : Refused(kind, o)
                /\ (kind = "net" => TypeFits(c, s)) /\ Valid(WithDefaults(c))
             THEN WithDefaults(c) ELSE Error
<1> DEFINE b == DeviceFromCmdLine([kind |-> kind, options |-> s])
<1>1. IF \E o \in T : o.value = Comma \/ Refused(kind, o) THEN b = Error
      ELSE \E e : /\ Makes(kind, Start(kind, s), T, e)
                  /\ b = IF (kind = "net" => TypeFits(e, s)) /\ Valid(WithDefaults(e))
                         THEN WithDefaults(e) ELSE Error
  BY WrittenRead
<1> HIDE DEF b
<1>2. CASE \E o \in T : o.value = Comma \/ Refused(kind, o)
  BY <1>1, <1>2 DEF Commas, b
<1>3. CASE ~\E o \in T : o.value = Comma \/ Refused(kind, o)
  <2>1. PICK e : /\ Makes(kind, Start(kind, s), T, e)
                 /\ b = IF (kind = "net" => TypeFits(e, s)) /\ Valid(WithDefaults(e))
                        THEN WithDefaults(e) ELSE Error
    BY <1>1, <1>3
  <2>2. ASSUME NEW f \in DOMAIN Empty[kind] PROVE e[f] = c[f]
    BY <2>1, <1>3 DEF Makes
  <2>3. e = c
    BY <2>1, <2>2 DEF Makes
  <2> QED
    BY <2>1, <2>3, <1>3 DEF Commas, b
<1> QED
  BY <1>2, <1>3

\* The device that vfkit makes of what ToCmdLine writes.
Reread(d) == DeviceFromCmdLine([kind |-> d.kind, options |-> Options(d)])

\* A comma can only be in a text.
LEMMA CommaTexts ==
  /\ \A key : Flag(key).value # Comma
  /\ \A key, n : Number(key, n).value # Comma
  /\ \A key, v : (Text(key, v).value = Comma) <=> (v = Comma)
BY DEF Flag, Number, Text, Comma

\* A shared directory is read as it was written, unless a comma is in its texts.
LEMMA FsRead ==
  ASSUME NEW d, IsDevice(d), d.kind = "fs"
  PROVE  Reread(d) = IF d.dir = Comma \/ d.tag = Comma THEN Error ELSE d
<1> DEFINE dir == Text("sharedDir", d.dir)
           tag == Text("mountTag", d.tag)
           T == {dir} \cup IF d.tag # "" THEN {tag} ELSE {}
           s == <<dir>> \o When(d.tag # "", tag)
<1>1. /\ "sharedDir" \in DOMAIN Rules["fs"] /\ Rules["fs"]["sharedDir"] = Put("dir")
      /\ "mountTag" \in DOMAIN Rules["fs"] /\ Rules["fs"]["mountTag"] = Put("tag")
  BY DEF Rules, FsRules
<1>2. Puts("fs", dir, "dir", d.dir) /\ ~Refused("fs", dir)
  BY <1>1, TextPuts
<1>3. Puts("fs", tag, "tag", d.tag) /\ ~Refused("fs", tag)
  BY <1>1, TextPuts
<1>4. (dir.value = Comma <=> d.dir = Comma) /\ (tag.value = Comma <=> d.tag = Comma) /\ "" # Comma
  BY CommaTexts DEF Comma
<1>5. Options(d) = s
  BY DEF Options, FsOptions
<1>6. DOMAIN Empty["fs"] = {"kind", "dir", "tag"} /\ Start("fs", s).kind = "fs" /\ Start("fs", s).tag = ""
  BY DEF Empty, Start
<1>7. d = [f \in {"kind", "dir", "tag"} |-> d[f]]
  BY <1>6 DEF IsDevice
<1> HIDE DEF dir, tag
<1>8. Lists("fs", s, T)
  BY <1>2, <1>3, ListsOne, ListsWhen, ListsBoth DEF Puts
<1>9. WithDefaults(d) = d /\ Valid(d)
  BY DEF WithDefaults, Valid
<1> HIDE DEF s
<1>10. /\ \A o \in T : ~Refused("fs", o) => \A f : Decides("fs", o, f) => Value(Rules["fs"][o.key], o) = d[f]
       /\ \A f \in DOMAIN Empty["fs"] : d[f] = Start("fs", s)[f] \/ \E o \in T : Decides("fs", o, f)
  BY <1>2, <1>3, <1>6 DEF Puts, Decides
<1>11. Commas(T) <=> d.dir = Comma \/ d.tag = Comma
  BY <1>4 DEF Commas
<1>12. ~\E o \in T : Refused("fs", o)
  BY <1>2, <1>3
<1>13. "fs" \in Kinds
  BY KindsAre
<1> HIDE DEF T
<1>14. d = [f \in DOMAIN Empty["fs"] |-> d[f]]
  BY <1>6, <1>7
<1>15. DeviceFromCmdLine([kind |-> "fs", options |-> s])
         = IF /\ ~Commas(T) /\ ~\E o \in T : Refused("fs", o)
              /\ ("fs" = "net" => TypeFits(d, s)) /\ Valid(WithDefaults(d))
           THEN WithDefaults(d) ELSE Error
  BY <1>8, <1>10, <1>13, <1>14, Echo
<1> QED
  BY <1>5, <1>9, <1>11, <1>12, <1>15 DEF Reread

\* A disk is read as it was written, unless a comma is in its texts, its type does
\* not exist, it is not a virtio disk and has an identifier, or its file is not
\* readable as a raw image.
LEMMA DiskRead ==
  ASSUME NEW d, IsDevice(d), d.kind \in {"nvme", "usb", "blk"}
  PROVE  Reread(d) = IF \/ d.path = Comma \/ d.deviceId = Comma \/ d.type \notin DiskTypes
                        \/ d.kind # "blk" /\ d.deviceId # ""
                        \/ d.kind = "blk" /\ d.path \notin RawFiles
                     THEN Error ELSE d
<1> DEFINE kind == d.kind
           path == Text("path", d.path)
           type == Text("type", d.type)
           readonly == Flag("readonly")
           deviceId == Text("deviceId", d.deviceId)
           A == {path} \cup IF d.type # "" THEN {type} ELSE {}
           B == A \cup IF d.readonly THEN {readonly} ELSE {}
           T == B \cup IF d.deviceId # "" THEN {deviceId} ELSE {}
           s == <<path>> \o When(d.type # "", type) \o When(d.readonly, readonly) \o When(d.deviceId # "", deviceId)
<1>0. /\ DOMAIN DiskRules = {"path", "type", "readonly"} /\ DiskRules["path"] = Put("path")
      /\ DiskRules["type"] = OneOf("type", DiskTypes) /\ DiskRules["readonly"] = Bare("readonly", TRUE)
  BY DEF DiskRules, StorageRules, Over
<1>1. /\ DOMAIN BlkRules = DOMAIN DiskRules \cup {"deviceId"} /\ BlkRules["deviceId"] = Put("deviceId")
      /\ BlkRules["path"] = DiskRules["path"] /\ BlkRules["type"] = DiskRules["type"]
      /\ BlkRules["readonly"] = DiskRules["readonly"]
  BY <1>0 DEF BlkRules, Over
<1>2. Rules[kind] = IF kind = "blk" THEN BlkRules ELSE DiskRules
  BY DEF Rules
<1>3. /\ {"path", "type", "readonly"} \subseteq DOMAIN Rules[kind] /\ Rules[kind]["path"] = Put("path")
      /\ Rules[kind]["type"] = OneOf("type", DiskTypes) /\ Rules[kind]["readonly"] = Bare("readonly", TRUE)
      /\ IF kind = "blk" THEN "deviceId" \in DOMAIN Rules[kind] /\ Rules[kind]["deviceId"] = Put("deviceId")
         ELSE "deviceId" \notin DOMAIN Rules[kind]
  BY <1>0, <1>1, <1>2
<1>4. Options(d) = s
  BY DEF Options, DiskOptions
<1>5. /\ DOMAIN Empty[kind] = {"kind", "path", "type", "readonly", "deviceId"}
      /\ Start(kind, s).kind = kind /\ Start(kind, s).type = "" /\ Start(kind, s).readonly = FALSE
      /\ Start(kind, s).deviceId = ""
  <2>1. kind = "nvme" \/ kind = "usb" \/ kind = "blk"
    OBVIOUS
  <2>2. Start(kind, s) = Empty[kind]
    BY DEF Start
  <2> HIDE DEF kind, s
  <2>3. Empty[kind] = Disk(kind)
    <3>1. CASE kind = "nvme"
      BY <3>1 DEF Empty
    <3>2. CASE kind = "usb"
      BY <3>2 DEF Empty
    <3>3. CASE kind = "blk"
      BY <3>3 DEF Empty
    <3> QED
      BY <2>1, <3>1, <3>2, <3>3
  <2>4. /\ DOMAIN Disk(kind) = {"kind", "path", "type", "readonly", "deviceId"}
        /\ Disk(kind).kind = kind /\ Disk(kind).type = "" /\ Disk(kind).readonly = FALSE
        /\ Disk(kind).deviceId = ""
    BY DEF Disk
  <2> QED
    BY <2>2, <2>3, <2>4
<1>6. WithDefaults(d) = d /\ (Valid(d) <=> (kind = "blk" => d.path \in RawFiles))
  BY DEF WithDefaults, Valid, BlkValid
<1>7. kind \in Kinds
  BY KindsAre
<1>8. d = [f \in DOMAIN Empty[kind] |-> d[f]] /\ d.readonly \in BOOLEAN
  BY <1>5 DEF IsDevice
<1>9. /\ path.value = d.path /\ type.value = d.type /\ readonly.value = "" /\ deviceId.value = d.deviceId
      /\ deviceId.key = "deviceId" /\ "" # Comma /\ Comma \notin DiskTypes
  BY DEF Text, Flag, Comma, DiskTypes
<1> HIDE DEF kind, path, type, readonly, deviceId
<1>10. Puts(kind, path, "path", d.path) /\ ~Refused(kind, path)
  BY <1>3, TextPuts DEF path
<1>11. Puts(kind, type, "type", d.type) /\ (Refused(kind, type) <=> d.type \notin DiskTypes)
  BY <1>3, OneOfPuts DEF type
<1>12. Puts(kind, readonly, "readonly", TRUE) /\ ~Refused(kind, readonly)
  BY <1>3, BarePuts DEF readonly
<1>13. /\ Field(kind, deviceId) = "deviceId" /\ (Refused(kind, deviceId) <=> kind # "blk")
       /\ kind = "blk" => Puts(kind, deviceId, "deviceId", d.deviceId)
  <2>1. CASE kind = "blk"
    BY <2>1, <1>3, TextPuts DEF deviceId, Puts
  <2>2. CASE kind # "blk"
    BY <2>2, <1>3, <1>9, UnknownRefused
  <2> QED
    BY <2>1, <2>2
<1>14. Lists(kind, s, T)
  <2>1. Lists(kind, <<path>> \o When(d.type # "", type), A)
    BY <1>10, <1>11, ListsOne, ListsWhen, ListsBoth DEF Puts
  <2>2. Lists(kind, <<path>> \o When(d.type # "", type) \o When(d.readonly, readonly), B)
    BY <2>1, <1>8, <1>10, <1>11, <1>12, ListsWhen, ListsBoth DEF Puts
  <2> DEFINE has == d.deviceId # ""
             r == <<path>> \o When(d.type # "", type) \o When(d.readonly, readonly)
             U == IF has THEN {deviceId} ELSE {}
  <2>3. has \in BOOLEAN
    OBVIOUS
  <2>4. \A o \in B, q \in U : Field(kind, o) # Field(kind, q)
    BY <1>10, <1>11, <1>12, <1>13 DEF Puts
  <2>5. s = r \o When(has, deviceId) /\ T = B \cup U /\ Lists(kind, r, B)
    BY <2>2
  <2> HIDE DEF has, r, s, T, B
  <2>6. Lists(kind, When(has, deviceId), U)
    BY <2>3, ListsWhen
  <2> HIDE DEF U
  <2> QED
    BY <2>4, <2>5, <2>6, ListsBoth
<1> HIDE DEF s
<1>15. \A o \in T : ~Refused(kind, o) => \A f : Decides(kind, o, f) => Value(Rules[kind][o.key], o) = d[f]
  <2> DEFINE Says(o) == ~Refused(kind, o) => \A f : Decides(kind, o, f) => Value(Rules[kind][o.key], o) = d[f]
  <2>1. Says(path) /\ Says(type)
    BY <1>10, <1>11 DEF Puts, Decides
  <2>2. d.readonly => Says(readonly)
    BY <1>8, <1>12 DEF Puts, Decides
  <2>3. Says(deviceId)
    BY <1>13 DEF Puts, Decides
  <2>4. \A o \in T : o = path \/ o = type \/ (o = readonly /\ d.readonly) \/ o = deviceId
    OBVIOUS
  <2> HIDE DEF Says, T
  <2>5. \A o \in T : Says(o)
    BY <2>1, <2>2, <2>3, <2>4
  <2> QED
    BY <2>5 DEF Says
<1>16. \A f \in DOMAIN Empty[kind] : d[f] = Start(kind, s)[f] \/ \E o \in T : Decides(kind, o, f) \/ Refused(kind, o)
  BY <1>5, <1>8, <1>10, <1>11, <1>12, <1>13 DEF Puts, kind
<1>17. Commas(T) <=> d.path = Comma \/ d.type = Comma \/ d.deviceId = Comma
  BY <1>9 DEF Commas
<1>18. (\E o \in T : Refused(kind, o)) <=> d.type \notin DiskTypes \/ (kind # "blk" /\ d.deviceId # "")
  BY <1>10, <1>11, <1>12, <1>13 DEF DiskTypes
<1> HIDE DEF T
<1>19. DeviceFromCmdLine([kind |-> kind, options |-> s])
         = IF /\ ~Commas(T) /\ ~\E o \in T : Refused(kind, o)
              /\ (kind = "net" => TypeFits(d, s)) /\ Valid(WithDefaults(d))
           THEN WithDefaults(d) ELSE Error
  BY <1>7, <1>8, <1>14, <1>15, <1>16, Echo
<1>20. kind # "net"
  BY DEF kind
<1> QED
  BY <1>4, <1>6, <1>9, <1>17, <1>18, <1>19, <1>20 DEF Reread, kind

\* A network block device is read as it was written, unless a comma is in its
\* texts or its timeout is not an int32; a timeout that is not positive and a mode
\* that does not exist are not written.
LEMMA NbdRead ==
  ASSUME NEW d, IsDevice(d), d.kind = "nbd"
  PROVE  Reread(d) = IF d.uri = Comma \/ d.deviceId = Comma \/ d.timeout > Int32Max THEN Error ELSE Carried(d)
<1> DEFINE kind == "nbd"
           c == Carried(d)
           uri == Text("uri", d.uri)
           readonly == Flag("readonly")
           deviceId == Text("deviceId", d.deviceId)
           timeout == Number("timeout", d.timeout)
           sync == Text("sync", d.sync)
           range == -Int32Max - 1 .. Int32Max
           positive == d.timeout > 0
           exists == d.sync \in {"none", "full"}
           A == {uri} \cup IF d.readonly THEN {readonly} ELSE {}
           B == A \cup IF d.deviceId # "" THEN {deviceId} ELSE {}
           C == B \cup IF positive THEN {timeout} ELSE {}
           T == C \cup IF exists THEN {sync} ELSE {}
           s1 == <<uri>> \o When(d.readonly, readonly)
           s2 == s1 \o When(d.deviceId # "", deviceId)
           s3 == s2 \o When(positive, timeout)
           s == s3 \o When(exists, sync)
<1>1. /\ {"uri", "readonly", "deviceId", "timeout", "sync"} \subseteq DOMAIN NbdRules
      /\ NbdRules["uri"] = Put("uri") /\ NbdRules["deviceId"] = Put("deviceId")
      /\ NbdRules["timeout"] = Num("timeout", range)
      /\ NbdRules["sync"] = OneOf("sync", {"full", "none"})
      /\ NbdRules["readonly"] = Bare("readonly", TRUE)
  BY DEF NbdRules, StorageRules, Over
<1>2. Rules[kind] = NbdRules
  BY DEF Rules
<1>3. Options(d) = s
  BY DEF Options, NbdOptions, NetworkStorageOptions
<1>4. /\ DOMAIN Empty[kind] = {"kind", "uri", "readonly", "deviceId", "timeout", "sync"}
      /\ Start(kind, s).kind = kind /\ Start(kind, s).readonly = FALSE /\ Start(kind, s).deviceId = ""
      /\ Start(kind, s).timeout = DefaultTimeout /\ Start(kind, s).sync = "full"
  BY DEF Empty, Start
<1>5. kind \in Kinds
  BY KindsAre
<1>6. d = [f \in DOMAIN Empty[kind] |-> d[f]] /\ d.readonly \in BOOLEAN /\ d.timeout \in Int
  BY <1>4 DEF IsDevice
<1>7. /\ c = [f \in DOMAIN Empty[kind] |-> c[f]]
      /\ c.kind = kind /\ c.uri = d.uri /\ c.readonly = d.readonly /\ c.deviceId = d.deviceId
      /\ c.timeout = (IF positive THEN d.timeout ELSE DefaultTimeout)
      /\ c.sync = (IF exists THEN d.sync ELSE "full")
  BY <1>4, <1>6 DEF Carried
<1> HIDE DEF c
<1>8. WithDefaults(c) = c /\ Valid(c)
  BY <1>7 DEF WithDefaults, Valid
<1>9. /\ uri.value = d.uri /\ readonly.value = "" /\ deviceId.value = d.deviceId /\ timeout.value = "number"
      /\ sync.value = d.sync /\ Comma \notin {"", "number", "none", "full"}
  BY DEF Text, Flag, Number, Comma
<1>a. d.timeout \notin range /\ positive <=> d.timeout > Int32Max
  BY <1>6, NumbersAssumption
<1>b. (exists => d.sync \in {"full", "none"}) /\ exists \in BOOLEAN
  OBVIOUS
<1>d. positive \in BOOLEAN
  BY <1>6
<1> HIDE DEF kind, uri, readonly, deviceId, timeout, sync, range, positive, exists
<1>10. Puts(kind, uri, "uri", d.uri) /\ ~Refused(kind, uri)
  BY <1>1, <1>2, TextPuts DEF uri
<1>11. Puts(kind, readonly, "readonly", TRUE) /\ ~Refused(kind, readonly)
  BY <1>1, <1>2, BarePuts DEF readonly
<1>12. Puts(kind, deviceId, "deviceId", d.deviceId) /\ ~Refused(kind, deviceId)
  BY <1>1, <1>2, TextPuts DEF deviceId
<1>13. Puts(kind, timeout, "timeout", d.timeout) /\ (Refused(kind, timeout) <=> d.timeout \notin range)
  BY <1>1, <1>2, NumberPuts DEF timeout
<1>14. Puts(kind, sync, "sync", d.sync) /\ (Refused(kind, sync) <=> d.sync \notin {"full", "none"})
  BY <1>1, <1>2, OneOfPuts DEF sync
<1>15. Lists(kind, s, T)
  <2>1. Lists(kind, s1, A)
    BY <1>6, <1>10, <1>11, ListsOne, ListsWhen, ListsBoth DEF Puts
  <2> HIDE DEF s1
  <2>2. Lists(kind, s2, B)
    BY <2>1, <1>10, <1>11, <1>12, ListsWhen, ListsBoth DEF Puts
  <2> HIDE DEF s2
  <2>3. Lists(kind, s3, C)
    <3>1. Lists(kind, When(positive, timeout), IF positive THEN {timeout} ELSE {})
      BY <1>d, ListsWhen
    <3>2. \A o \in B : Field(kind, o) # Field(kind, timeout)
      BY <1>10, <1>11, <1>12, <1>13 DEF Puts
    <3> HIDE DEF B
    <3> QED
      BY <2>2, <3>1, <3>2, ListsBoth
  <2>4. Lists(kind, When(exists, sync), IF exists THEN {sync} ELSE {})
    BY <1>b, ListsWhen
  <2>5. \A o \in C : Field(kind, o) # Field(kind, sync)
    BY <1>10, <1>11, <1>12, <1>13, <1>14 DEF Puts
  <2> HIDE DEF s3, C
  <2> QED
    BY <2>3, <2>4, <2>5, ListsBoth
<1> HIDE DEF s
<1>c. \A o \in T : o = uri \/ (o = readonly /\ d.readonly) \/ o = deviceId \/ (o = timeout /\ positive) \/ (o = sync /\ exists)
  OBVIOUS
<1>16. \A o \in T : ~Refused(kind, o) => \A f : Decides(kind, o, f) => Value(Rules[kind][o.key], o) = c[f]
  <2>1. \A f : Decides(kind, uri, f) => Value(Rules[kind][uri.key], uri) = c[f]
    BY <1>7, <1>10 DEF Puts, Decides
  <2>2. d.readonly => \A f : Decides(kind, readonly, f) => Value(Rules[kind][readonly.key], readonly) = c[f]
    BY <1>6, <1>7, <1>11 DEF Puts, Decides
  <2>3. \A f : Decides(kind, deviceId, f) => Value(Rules[kind][deviceId.key], deviceId) = c[f]
    BY <1>7, <1>12 DEF Puts, Decides
  <2>4. positive => \A f : Decides(kind, timeout, f) => Value(Rules[kind][timeout.key], timeout) = c[f]
    BY <1>7, <1>13 DEF Puts, Decides
  <2>5. exists => \A f : Decides(kind, sync, f) => Value(Rules[kind][sync.key], sync) = c[f]
    BY <1>7, <1>14 DEF Puts, Decides
  <2> HIDE DEF T
  <2> QED
    BY <1>c, <2>1, <2>2, <2>3, <2>4, <2>5
<1>17. \A f \in DOMAIN Empty[kind] : c[f] = Start(kind, s)[f] \/ \E o \in T : Decides(kind, o, f) \/ Refused(kind, o)
  <2>1. c.kind = Start(kind, s).kind
    BY <1>4, <1>7
  <2>2. Decides(kind, uri, "uri") /\ uri \in T
    BY <1>10 DEF Puts
  <2>3. c.readonly = Start(kind, s).readonly \/ (readonly \in T /\ Decides(kind, readonly, "readonly"))
    BY <1>4, <1>6, <1>7, <1>11 DEF Puts
  <2>4. c.deviceId = Start(kind, s).deviceId \/ (deviceId \in T /\ Decides(kind, deviceId, "deviceId"))
    BY <1>4, <1>7, <1>12 DEF Puts
  <2>5. c.timeout = Start(kind, s).timeout \/ (timeout \in T /\ Decides(kind, timeout, "timeout"))
    BY <1>4, <1>7, <1>13 DEF Puts
  <2>6. c.sync = Start(kind, s).sync \/ (sync \in T /\ Decides(kind, sync, "sync"))
    BY <1>4, <1>7, <1>14 DEF Puts
  <2> HIDE DEF T
  <2> QED
    BY <1>4, <2>1, <2>2, <2>3, <2>4, <2>5, <2>6
<1>18. Commas(T) <=> d.uri = Comma \/ d.deviceId = Comma
  BY <1>9, <1>b DEF Commas
<1>19. (\E o \in T : Refused(kind, o)) <=> d.timeout > Int32Max
  BY <1>6, <1>10, <1>11, <1>12, <1>13, <1>14, <1>a, <1>b
<1> HIDE DEF T
<1>20. DeviceFromCmdLine([kind |-> kind, options |-> s])
         = IF /\ ~Commas(T) /\ ~\E o \in T : Refused(kind, o)
              /\ (kind = "net" => TypeFits(c, s)) /\ Valid(WithDefaults(c))
           THEN WithDefaults(c) ELSE Error
  BY <1>5, <1>7, <1>15, <1>16, <1>17, Echo
<1>21. kind # "net"
  BY DEF kind
<1> QED
  BY <1>3, <1>8, <1>18, <1>19, <1>20, <1>21 DEF Reread, kind, c

\* The Rosetta share is read as it was written, unless a comma is in its tag.
LEMMA RosettaRead ==
  ASSUME NEW d, IsDevice(d), d.kind = "rosetta"
  PROVE  Reread(d) = IF d.tag = Comma THEN Error ELSE d
<1> DEFINE kind == "rosetta"
           tag == Text("mountTag", d.tag)
           install == Flag("install")
           ignore == Flag("ignore-if-missing")
           A == {tag} \cup IF d.install THEN {install} ELSE {}
           T == A \cup IF d.ignore THEN {ignore} ELSE {}
           s == <<tag>> \o When(d.install, install) \o When(d.ignore, ignore)
<1>1. /\ {"mountTag", "install", "ignore-if-missing"} \subseteq DOMAIN RosettaRules
      /\ RosettaRules["mountTag"] = Put("tag") /\ RosettaRules["install"] = Sets("install", TRUE)
      /\ RosettaRules["ignore-if-missing"] = Sets("ignore", TRUE)
  BY DEF RosettaRules, Over
<1>2. Rules[kind] = RosettaRules
  BY DEF Rules
<1>3. Options(d) = s
  BY DEF Options, RosettaOptions
<1>4. /\ DOMAIN Empty[kind] = {"kind", "tag", "install", "ignore"}
      /\ Start(kind, s).kind = kind /\ Start(kind, s).install = FALSE /\ Start(kind, s).ignore = FALSE
  BY DEF Empty, Start
<1>5. kind \in Kinds
  BY KindsAre
<1>6. d = [f \in DOMAIN Empty[kind] |-> d[f]] /\ d.install \in BOOLEAN /\ d.ignore \in BOOLEAN
  BY <1>4 DEF IsDevice
<1>7. WithDefaults(d) = d /\ Valid(d)
  BY DEF WithDefaults, Valid
<1>8. tag.value = d.tag /\ install.value # Comma /\ ignore.value # Comma
  BY DEF Text, Flag, Comma
<1> HIDE DEF kind, tag, install, ignore
<1>9. Puts(kind, tag, "tag", d.tag) /\ ~Refused(kind, tag)
  BY <1>1, <1>2, TextPuts DEF tag
<1>10. Puts(kind, install, "install", TRUE) /\ ~Refused(kind, install)
  BY <1>1, <1>2, SetsPuts DEF install
<1>11. Puts(kind, ignore, "ignore", TRUE) /\ ~Refused(kind, ignore)
  BY <1>1, <1>2, SetsPuts DEF ignore
<1>12. Lists(kind, s, T)
  <2>1. Lists(kind, <<tag>> \o When(d.install, install), A)
    BY <1>6, <1>9, <1>10, ListsOne, ListsWhen, ListsBoth DEF Puts
  <2> QED
    BY <2>1, <1>6, <1>9, <1>10, <1>11, ListsWhen, ListsBoth DEF Puts
<1> HIDE DEF s
<1>13. \A o \in T : ~Refused(kind, o) => \A f : Decides(kind, o, f) => Value(Rules[kind][o.key], o) = d[f]
  BY <1>6, <1>9, <1>10, <1>11 DEF Puts, Decides
<1>14. \A f \in DOMAIN Empty[kind] : d[f] = Start(kind, s)[f] \/ \E o \in T : Decides(kind, o, f) \/ Refused(kind, o)
  BY <1>4, <1>6, <1>9, <1>10, <1>11 DEF Puts, kind
<1>15. Commas(T) <=> d.tag = Comma
  BY <1>8 DEF Commas
<1>16. ~\E o \in T : Refused(kind, o)
  BY <1>9, <1>10, <1>11
<1> HIDE DEF T
<1>17. DeviceFromCmdLine([kind |-> kind, options |-> s])
         = IF /\ ~Commas(T) /\ ~\E o \in T : Refused(kind, o)
              /\ (kind = "net" => TypeFits(d, s)) /\ Valid(WithDefaults(d))
           THEN WithDefaults(d) ELSE Error
  BY <1>5, <1>6, <1>12, <1>13, <1>14, Echo
<1>18. kind # "net"
  BY DEF kind
<1> QED
  BY <1>3, <1>7, <1>15, <1>16, <1>17, <1>18 DEF Reread, kind

\* A vsock device is read as it was written, the end that listens included, unless
\* a comma is in its URL or its port is not a uint32.
LEMMA VsockRead ==
  ASSUME NEW d, IsDevice(d), d.kind = "vsock"
  PROVE  Reread(d) = IF d.url = Comma \/ d.port \notin 0 .. Uint32Max THEN Error ELSE d
<1> DEFINE kind == "vsock"
           port == Number("port", d.port)
           url == Text("socketURL", d.url)
           end == Flag(IF d.listen THEN "listen" ELSE "connect")
           T == {port, url, end}
           s == <<port, url, end>>
<1>1. /\ {"port", "socketURL", "listen", "connect"} \subseteq DOMAIN VsockRules
      /\ VsockRules["port"] = Num("port", 0 .. Uint32Max) /\ VsockRules["socketURL"] = Put("url")
      /\ VsockRules["listen"] = Sets("listen", TRUE) /\ VsockRules["connect"] = Sets("listen", FALSE)
  BY DEF VsockRules
<1>2. Rules[kind] = VsockRules
  BY DEF Rules
<1>3. Options(d) = s
  BY DEF Options, VsockOptions
<1>4. DOMAIN Empty[kind] = {"kind", "port", "url", "listen"} /\ Start(kind, s).kind = kind
  BY DEF Empty, Start
<1>5. kind \in Kinds
  BY KindsAre
<1>6. d = [f \in DOMAIN Empty[kind] |-> d[f]] /\ d.listen \in BOOLEAN
  BY <1>4 DEF IsDevice
<1>7. WithDefaults(d) = d /\ Valid(d)
  BY DEF WithDefaults, Valid
<1>8. port.value # Comma /\ url.value = d.url /\ end.value # Comma
  BY DEF Number, Text, Flag, Comma
<1> HIDE DEF kind, port, url, end
<1>9. Puts(kind, port, "port", d.port) /\ (Refused(kind, port) <=> d.port \notin 0 .. Uint32Max)
  BY <1>1, <1>2, NumberPuts DEF port
<1>10. Puts(kind, url, "url", d.url) /\ ~Refused(kind, url)
  BY <1>1, <1>2, TextPuts DEF url
<1>11. Puts(kind, end, "listen", d.listen) /\ ~Refused(kind, end)
  <2>1. CASE d.listen
    <3>1. Puts(kind, end, "listen", TRUE) /\ ~Refused(kind, end)
      BY <2>1, <1>1, <1>2, SetsPuts DEF end
    <3> QED
      BY <2>1, <3>1, <1>6 DEF Puts
  <2>2. CASE ~d.listen
    <3>1. Puts(kind, end, "listen", FALSE) /\ ~Refused(kind, end)
      BY <2>2, <1>1, <1>2, SetsPuts DEF end
    <3> QED
      BY <2>2, <3>1, <1>6 DEF Puts
  <2> QED
    BY <2>1, <2>2
<1>12. Lists(kind, s, T)
  BY <1>9, <1>10, <1>11 DEF Lists, ToSet, Puts
<1> HIDE DEF s
<1>13. \A o \in T : ~Refused(kind, o) => \A f : Decides(kind, o, f) => Value(Rules[kind][o.key], o) = d[f]
  BY <1>9, <1>10, <1>11 DEF Puts, Decides
<1>14. \A f \in DOMAIN Empty[kind] : d[f] = Start(kind, s)[f] \/ \E o \in T : Decides(kind, o, f) \/ Refused(kind, o)
  BY <1>4, <1>9, <1>10, <1>11 DEF Puts, kind
<1>15. Commas(T) <=> d.url = Comma
  BY <1>8 DEF Commas
<1>16. (\E o \in T : Refused(kind, o)) <=> d.port \notin 0 .. Uint32Max
  BY <1>9, <1>10, <1>11
<1> HIDE DEF T
<1>17. DeviceFromCmdLine([kind |-> kind, options |-> s])
         = IF /\ ~Commas(T) /\ ~\E o \in T : Refused(kind, o)
              /\ (kind = "net" => TypeFits(d, s)) /\ Valid(WithDefaults(d))
           THEN WithDefaults(d) ELSE Error
  BY <1>5, <1>6, <1>12, <1>13, <1>14, Echo
<1>18. kind # "net"
  BY DEF kind
<1> QED
  BY <1>3, <1>7, <1>15, <1>16, <1>17, <1>18 DEF Reread, kind

\* One option decides on the whole device.
LEMMA OneRead ==
  ASSUME NEW kind \in Kinds \ {"net"}, NEW o, NEW f, NEW v, Puts(kind, o, f, v), NEW c,
         c = [g \in DOMAIN Empty[kind] |-> c[g]], c[f] = v,
         \A g \in DOMAIN Empty[kind] : g # f => c[g] = Empty[kind][g],
         WithDefaults(c) = c
  PROVE  DeviceFromCmdLine([kind |-> kind, options |-> <<o>>])
           = IF o.value # Comma /\ ~Refused(kind, o) /\ Valid(c) THEN c ELSE Error
<1>1. Lists(kind, <<o>>, {o})
  BY ListsOne
<1>2. \A p \in {o} : ~Refused(kind, p) => \A g : Decides(kind, p, g) => Value(Rules[kind][p.key], p) = c[g]
  BY DEF Puts, Decides
<1>3. Start(kind, <<o>>) = Empty[kind]
  BY DEF Start
<1>4. \A g \in DOMAIN Empty[kind] : c[g] = Start(kind, <<o>>)[g] \/ \E p \in {o} : Decides(kind, p, g) \/ Refused(kind, p)
  BY <1>3 DEF Puts
<1>5. DeviceFromCmdLine([kind |-> kind, options |-> <<o>>])
        = IF /\ ~Commas({o}) /\ ~\E p \in {o} : Refused(kind, p)
             /\ (kind = "net" => TypeFits(c, <<o>>)) /\ Valid(WithDefaults(c))
          THEN WithDefaults(c) ELSE Error
  BY <1>1, <1>2, <1>4, Echo
<1> QED
  BY <1>5 DEF Commas

\* A device that has no options.
LEMMA NoneRead ==
  ASSUME NEW kind \in Kinds \ {"net"}
  PROVE  DeviceFromCmdLine([kind |-> kind, options |-> <<>>])
           = IF Valid(WithDefaults(Empty[kind])) THEN WithDefaults(Empty[kind]) ELSE Error
<1>1. Lists(kind, <<>>, {})
  BY DEF Lists, ToSet
<1>2. Start(kind, <<>>) = Empty[kind]
  BY DEF Start
<1>3. Empty[kind] = [f \in DOMAIN Empty[kind] |-> Empty[kind][f]]
  BY EmptyFits
<1>4. DeviceFromCmdLine([kind |-> kind, options |-> <<>>])
        = IF /\ ~Commas({}) /\ ~\E p \in {} : Refused(kind, p)
             /\ (kind = "net" => TypeFits(Empty[kind], <<>>)) /\ Valid(WithDefaults(Empty[kind]))
          THEN WithDefaults(Empty[kind]) ELSE Error
  BY <1>1, <1>2, <1>3, Echo
<1> QED
  BY <1>4 DEF Commas

\* What validate asks of an interface and of a serial port: one of three.
LEMMA OneOfThree ==
  ASSUME NEW a \in BOOLEAN, NEW b \in BOOLEAN, NEW c \in BOOLEAN
  PROVE  Exactly1(<<a, b, c>>) <=> (a /\ ~b /\ ~c) \/ (~a /\ b /\ ~c) \/ (~a /\ ~b /\ c)
<1> DEFINE t == <<a, b, c>>
<1>1. DOMAIN t = {1, 2, 3} /\ t[1] = a /\ t[2] = b /\ t[3] = c
  OBVIOUS
<1> HIDE DEF t
<1>2. Exactly1(t) <=> (a /\ ~b /\ ~c) \/ (~a /\ b /\ ~c) \/ (~a /\ ~b /\ c)
  BY <1>1 DEF Exactly1
<1> QED
  BY <1>2 DEF t

\* A serial port that validate accepts is read as it was written, unless a comma is
\* in the path of its log.
LEMMA SerialRead ==
  ASSUME NEW d, IsDevice(d), d.kind = "serial", CanWrite(d)
  PROVE  Reread(d) = IF d.logFile = Comma THEN Error ELSE d
<1>1. /\ {"logFilePath", "stdio", "pty"} \subseteq DOMAIN SerialRules
      /\ SerialRules["logFilePath"] = Put("logFile") /\ SerialRules["stdio"] = Bare("stdio", TRUE)
      /\ SerialRules["pty"] = Sets("pty", TRUE)
  BY DEF SerialRules
<1>2. Rules["serial"] = SerialRules /\ "serial" \in Kinds \ {"net"}
  BY KindsAre DEF Rules
<1>3. /\ DOMAIN Empty["serial"] = {"kind", "logFile", "stdio", "pty"} /\ Empty["serial"].kind = "serial"
      /\ Empty["serial"].logFile = "" /\ Empty["serial"].stdio = FALSE /\ Empty["serial"].pty = FALSE
  BY DEF Empty
<1>4. d = [f \in DOMAIN Empty["serial"] |-> d[f]] /\ d.stdio \in BOOLEAN /\ d.pty \in BOOLEAN
  BY <1>3 DEF IsDevice
<1>5. WithDefaults(d) = d /\ Valid(d) /\ SerialValid(d)
  BY DEF CanWrite, Valid, WithDefaults
<1>6. CASE d.stdio
  <2>1. d.logFile = "" /\ d.pty = FALSE
    BY <1>4, <1>5, <1>6, OneOfThree DEF SerialValid
  <2>2. Puts("serial", Flag("stdio"), "stdio", d.stdio) /\ ~Refused("serial", Flag("stdio"))
    <3>1. Puts("serial", Flag("stdio"), "stdio", TRUE) /\ ~Refused("serial", Flag("stdio"))
      BY <1>1, <1>2, BarePuts
    <3> QED
      BY <3>1, <1>6, <1>4 DEF Puts
  <2>3. Options(d) = <<Flag("stdio")>> /\ Flag("stdio").value # Comma /\ d.logFile # Comma
    BY <1>6, <2>1 DEF Options, SerialOptions, Flag, Comma
  <2>4. \A g \in DOMAIN Empty["serial"] : g # "stdio" => d[g] = Empty["serial"][g]
    BY <1>3, <2>1
  <2>6. DeviceFromCmdLine([kind |-> "serial", options |-> <<Flag("stdio")>>])
          = IF Flag("stdio").value # Comma /\ ~Refused("serial", Flag("stdio")) /\ Valid(d) THEN d ELSE Error
    BY <1>2, <1>4, <1>5, <2>2, <2>4, OneRead
  <2> QED
    BY <1>5, <2>2, <2>3, <2>6 DEF Reread
<1>7. CASE ~d.stdio /\ d.pty
  <2>1. d.logFile = "" /\ d.stdio = FALSE
    BY <1>4, <1>5, <1>7, OneOfThree DEF SerialValid
  <2>2. Puts("serial", Flag("pty"), "pty", d.pty) /\ ~Refused("serial", Flag("pty"))
    <3>1. Puts("serial", Flag("pty"), "pty", TRUE) /\ ~Refused("serial", Flag("pty"))
      BY <1>1, <1>2, SetsPuts
    <3> QED
      BY <3>1, <1>7, <1>4 DEF Puts
  <2>3. Options(d) = <<Flag("pty")>> /\ Flag("pty").value # Comma /\ d.logFile # Comma
    BY <1>7, <2>1 DEF Options, SerialOptions, Flag, Comma
  <2>4. \A g \in DOMAIN Empty["serial"] : g # "pty" => d[g] = Empty["serial"][g]
    BY <1>3, <2>1
  <2>6. DeviceFromCmdLine([kind |-> "serial", options |-> <<Flag("pty")>>])
          = IF Flag("pty").value # Comma /\ ~Refused("serial", Flag("pty")) /\ Valid(d) THEN d ELSE Error
    BY <1>2, <1>4, <1>5, <2>2, <2>4, OneRead
  <2> QED
    BY <1>5, <2>2, <2>3, <2>6 DEF Reread
<1>8. CASE ~d.stdio /\ ~d.pty
  <2> DEFINE o == Text("logFilePath", d.logFile)
  <2>1. d.pty = FALSE /\ d.stdio = FALSE
    BY <1>4, <1>8
  <2>2. Puts("serial", o, "logFile", d.logFile) /\ ~Refused("serial", o)
    BY <1>1, <1>2, TextPuts
  <2>3. Options(d) = <<o>>
    BY <1>8 DEF Options, SerialOptions
  <2>4. o.value = d.logFile
    BY DEF Text
  <2>5. \A g \in DOMAIN Empty["serial"] : g # "logFile" => d[g] = Empty["serial"][g]
    BY <1>3, <2>1
  <2> HIDE DEF o
  <2>6. DeviceFromCmdLine([kind |-> "serial", options |-> <<o>>])
          = IF o.value # Comma /\ ~Refused("serial", o) /\ Valid(d) THEN d ELSE Error
    BY <1>2, <1>4, <1>5, <2>2, <2>5, OneRead
  <2> QED
    BY <1>5, <2>2, <2>3, <2>4, <2>6 DEF Reread
<1> QED
  BY <1>6, <1>7, <1>8

\* An input device that validate accepts is read as it was written.
LEMMA InputRead ==
  ASSUME NEW d, IsDevice(d), d.kind = "input", CanWrite(d)
  PROVE  Reread(d) = d
<1> DEFINE o == Flag(d.type)
<1>1. /\ {"pointing", "keyboard"} \subseteq DOMAIN InputRules
      /\ InputRules["pointing"] = Bare("type", "pointing") /\ InputRules["keyboard"] = Bare("type", "keyboard")
  BY DEF InputRules
<1>2. Rules["input"] = InputRules /\ "input" \in Kinds \ {"net"}
  BY KindsAre DEF Rules
<1>3. DOMAIN Empty["input"] = {"kind", "type"} /\ Empty["input"].kind = "input"
  BY DEF Empty
<1>4. d = [f \in DOMAIN Empty["input"] |-> d[f]]
  BY <1>3 DEF IsDevice
<1>5. WithDefaults(d) = d /\ Valid(d) /\ d.type \in {"pointing", "keyboard"}
  BY DEF CanWrite, Valid, WithDefaults, InputValid
<1>6. Puts("input", o, "type", d.type) /\ ~Refused("input", o)
  BY <1>1, <1>2, <1>5, BarePuts
<1>7. Options(d) = <<o>> /\ o.value # Comma
  BY DEF Options, InputOptions, Flag, Comma
<1> HIDE DEF o
<1>8. \A g \in DOMAIN Empty["input"] : g # "type" => d[g] = Empty["input"][g]
  BY <1>3
<1>9. DeviceFromCmdLine([kind |-> "input", options |-> <<o>>])
        = IF o.value # Comma /\ ~Refused("input", o) /\ Valid(d) THEN d ELSE Error
  BY <1>2, <1>4, <1>5, <1>6, <1>8, OneRead
<1> QED
  BY <1>5, <1>6, <1>7, <1>9 DEF Reread

\* A time synchronisation is read as it was written if it has a port.
LEMMA TimeSyncRead ==
  ASSUME NEW d, IsDevice(d), d.kind = "timesync"
  PROVE  Reread(d) = IF d.port \in 1 .. Uint32Max THEN d ELSE Error
<1> DEFINE o == Number("vsockPort", d.port)
<1>1. "vsockPort" \in DOMAIN TimeSyncRules /\ TimeSyncRules["vsockPort"] = Num("port", 0 .. Uint32Max)
  BY DEF TimeSyncRules
<1>2. Rules["timesync"] = TimeSyncRules /\ "timesync" \in Kinds \ {"net"}
  BY KindsAre DEF Rules
<1>3. DOMAIN Empty["timesync"] = {"kind", "port"} /\ Empty["timesync"].kind = "timesync" /\ Empty["timesync"].port = 0
  BY DEF Empty
<1>4. d = [f \in DOMAIN Empty["timesync"] |-> d[f]] /\ d.port \in Int
  BY <1>3 DEF IsDevice
<1>5. WithDefaults(d) = d /\ (Valid(d) <=> d.port # 0)
  BY DEF Valid, WithDefaults
<1>6. CASE d.port = 0
  <2>1. Options(d) = <<>>
    BY <1>6 DEF Options, TimeSyncOptions, When
  <2>2. d = Empty["timesync"]
    BY <1>3, <1>4, <1>6, EmptyFits, <1>2
  <2>3. DeviceFromCmdLine([kind |-> "timesync", options |-> <<>>]) = Error
    BY <1>2, <1>5, <1>6, <2>2, NoneRead
  <2> QED
    BY <1>6, <2>1, <2>3 DEF Reread
<1>7. CASE d.port # 0
  <2> DEFINE range == 0 .. Uint32Max
  <2>1. Options(d) = <<o>> /\ o.value # Comma
    BY <1>7 DEF Options, TimeSyncOptions, When, Number, Comma
  <2>2. d.port \in range <=> d.port \in 1 .. Uint32Max
    BY <1>4, <1>7, NumbersAssumption
  <2> HIDE DEF range
  <2>3. Puts("timesync", o, "port", d.port) /\ (Refused("timesync", o) <=> d.port \notin range)
    BY <1>1, <1>2, NumberPuts DEF range
  <2>4. \A g \in DOMAIN Empty["timesync"] : g # "port" => d[g] = Empty["timesync"][g]
    BY <1>3
  <2> HIDE DEF o
  <2>5. DeviceFromCmdLine([kind |-> "timesync", options |-> <<o>>])
          = IF o.value # Comma /\ ~Refused("timesync", o) /\ Valid(d) THEN d ELSE Error
    BY <1>2, <1>4, <1>5, <2>3, <2>4, OneRead
  <2> QED
    BY <1>5, <1>7, <2>1, <2>2, <2>3, <2>5 DEF Reread
<1> QED
  BY <1>6, <1>7

\* Devices without options are read as they were written.
LEMMA BareRead ==
  ASSUME NEW d, IsDevice(d), d.kind \in {"rng", "balloon"}
  PROVE  Reread(d) = d
<1>1. d.kind \in Kinds \ {"net"} /\ Options(d) = <<>>
  BY KindsAre DEF Options
<1>2. CASE d.kind = "rng"
  <2>1. DOMAIN Empty["rng"] = {"kind"} /\ Empty["rng"].kind = "rng"
    BY DEF Empty
  <2>2. d = Empty["rng"]
    BY <1>1, <1>2, <2>1, EmptyFits DEF IsDevice
  <2> QED
    BY <1>1, <1>2, <2>2, NoneRead DEF Reread, Valid, WithDefaults
<1>3. CASE d.kind = "balloon"
  <2>1. DOMAIN Empty["balloon"] = {"kind"} /\ Empty["balloon"].kind = "balloon"
    BY DEF Empty
  <2>2. d = Empty["balloon"]
    BY <1>1, <1>3, <2>1, EmptyFits DEF IsDevice
  <2> QED
    BY <1>1, <1>3, <2>2, NoneRead DEF Reread, Valid, WithDefaults
<1> QED
  BY <1>2, <1>3

\* A GPU that validate accepts is read with its size and without its window.
LEMMA GpuRead ==
  ASSUME NEW d, IsDevice(d), d.kind = "gpu", CanWrite(d)
  PROVE  Reread(d) = Carried(d)
<1> DEFINE kind == "gpu"
           c == Carried(d)
           width == Number("width", d.width)
           height == Number("height", d.height)
           T == {width, height}
           s == <<width, height>>
           some == Nat \ {0}
<1>1. /\ {"width", "height"} \subseteq DOMAIN GpuRules
      /\ GpuRules["width"] = Num("width", some) /\ GpuRules["height"] = Num("height", some)
  BY DEF GpuRules
<1>2. Rules[kind] = GpuRules
  BY DEF Rules
<1>3. Options(d) = s
  BY DEF Options, GpuOptions
<1>4. /\ DOMAIN Empty[kind] = {"kind", "width", "height", "usesGUI"} /\ Start(kind, s).kind = kind
      /\ Start(kind, s).usesGUI = FALSE
  BY DEF Empty, Start
<1>5. kind \in Kinds
  BY KindsAre
<1>6. d = [f \in DOMAIN Empty[kind] |-> d[f]] /\ d.width \in Int /\ d.height \in Int
  BY <1>4 DEF IsDevice
<1>7. d.width >= 1 /\ d.height >= 1
  BY DEF CanWrite, Valid, GpuValid
<1>8. /\ c = [f \in DOMAIN Empty[kind] |-> c[f]]
      /\ c.kind = kind /\ c.width = d.width /\ c.height = d.height /\ c.usesGUI = FALSE
  BY <1>4, <1>6 DEF Carried
<1> HIDE DEF c
<1>9. WithDefaults(c) = c /\ Valid(c)
  BY <1>6, <1>7, <1>8 DEF WithDefaults, Valid, GpuValid
<1>10. width.value # Comma /\ height.value # Comma
  BY DEF Number, Comma
<1>11. d.width \in some /\ d.height \in some
  BY <1>6, <1>7
<1> HIDE DEF kind, width, height, some
<1>12. Puts(kind, width, "width", d.width) /\ ~Refused(kind, width)
  BY <1>1, <1>2, <1>11, NumberPuts DEF width
<1>13. Puts(kind, height, "height", d.height) /\ ~Refused(kind, height)
  BY <1>1, <1>2, <1>11, NumberPuts DEF height
<1>14. Lists(kind, s, T)
  BY <1>12, <1>13 DEF Lists, ToSet, Puts
<1> HIDE DEF s
<1>15. \A o \in T : ~Refused(kind, o) => \A f : Decides(kind, o, f) => Value(Rules[kind][o.key], o) = c[f]
  BY <1>8, <1>12, <1>13 DEF Puts, Decides
<1>16. \A f \in DOMAIN Empty[kind] : c[f] = Start(kind, s)[f] \/ \E o \in T : Decides(kind, o, f) \/ Refused(kind, o)
  BY <1>4, <1>8, <1>12, <1>13 DEF Puts
<1>17. ~Commas(T) /\ ~\E o \in T : Refused(kind, o)
  BY <1>10, <1>12, <1>13 DEF Commas
<1> HIDE DEF T
<1>18. DeviceFromCmdLine([kind |-> kind, options |-> s])
         = IF /\ ~Commas(T) /\ ~\E o \in T : Refused(kind, o)
              /\ (kind = "net" => TypeFits(c, s)) /\ Valid(WithDefaults(c))
           THEN WithDefaults(c) ELSE Error
  BY <1>5, <1>8, <1>14, <1>15, <1>16, Echo
<1>19. kind # "net"
  BY DEF kind
<1> QED
  BY <1>3, <1>9, <1>17, <1>18, <1>19 DEF Reread, kind, c

\* An address is parsed, and refused if net.ParseMAC does not take it.
LEMMA MacPuts ==
  ASSUME NEW kind, NEW key, NEW f, NEW v, key \in DOMAIN Rules[kind],
         Rules[kind][key] = [sort |-> "mac", field |-> f]
  PROVE  /\ Puts(kind, Text(key, v), f, ParseMAC[v])
         /\ Refused(kind, Text(key, v)) <=> v \notin DOMAIN ParseMAC
<1> DEFINE o == Text(key, v)
           rule == [sort |-> "mac", field |-> f]
<1>1. o.key = key /\ o.value = v /\ rule.sort = "mac" /\ rule.field = f
  BY DEF Text
<1>2. Known(kind, o) /\ Rules[kind][o.key] = rule
  BY <1>1 DEF Known
<1> HIDE DEF o, rule
<1>3. Accepts(rule, o) <=> v \in DOMAIN ParseMAC
  BY <1>1 DEF Accepts
<1>4. Value(rule, o) = ParseMAC[v]
  BY <1>1 DEF Value
<1>5. Puts(kind, o, f, ParseMAC[v])
  BY <1>1, <1>2, <1>4 DEF Puts, Field, Decides
<1> QED
  BY <1>2, <1>3, <1>5 DEF Refused, o

\* An option that is only checked decides on nothing.
LEMMA CheckPasses ==
  ASSUME NEW kind, NEW key, NEW f, NEW v, NEW values, key \in DOMAIN Rules[kind],
         Rules[kind][key] = Check(f, values)
  PROVE  /\ Field(kind, Text(key, v)) = f /\ \A g : ~Decides(kind, Text(key, v), g)
         /\ Refused(kind, Text(key, v)) <=> v \notin values
<1> DEFINE o == Text(key, v)
           rule == Check(f, values)
<1>1. o.key = key /\ o.value = v /\ rule.sort = "check" /\ rule.field = f /\ rule.values = values
  BY DEF Text, Check
<1>2. Known(kind, o) /\ Rules[kind][o.key] = rule
  BY <1>1 DEF Known
<1> HIDE DEF o, rule
<1>3. Accepts(rule, o) <=> v \in values
  BY <1>1 DEF Accepts
<1>4. Field(kind, o) = f /\ \A g : ~Decides(kind, o, g)
  BY <1>1, <1>2 DEF Field, Decides
<1> QED
  BY <1>2, <1>3, <1>4 DEF Refused, o

\* Why vfkit refuses an interface that ToCmdLine wrote.
NetRefused(d) ==
  \/ d.path = Comma
  \/ d.mac # "" /\ d.mac \notin DOMAIN ParseMAC
  \/ d.fd # NoFd /\ d.fd \notin 0 .. Int32Max

\* The options that say how the interface is connected are B; the address may follow.
LEMMA NetConnected ==
  ASSUME NEW d, IsDevice(d), d.kind = "net", Valid(d), NEW B, NEW t, Lists("net", t, B),
         Options(d) = t \o When(d.mac # "", Text("mac", d.mac)),
         \A o \in B : /\ Field("net", o) # "mac"
                      /\ ~Refused("net", o) => \A f : Decides("net", o, f) => Value(Rules["net"][o.key], o) = Carried(d)[f],
         \A f \in DOMAIN Empty["net"] \ {"mac"} :
           Carried(d)[f] = Start("net", Options(d))[f] \/ \E o \in B : Decides("net", o, f),
         TypeFits(Carried(d), Options(d)),
         (\E o \in B : o.value = Comma) <=> d.path = Comma,
         (\E o \in B : Refused("net", o)) <=> d.fd # NoFd /\ d.fd \notin 0 .. Int32Max
  PROVE  Reread(d) = IF NetRefused(d) THEN Error ELSE Carried(d)
<1> DEFINE kind == "net"
           c == Carried(d)
           mac == Text("mac", d.mac)
           s == Options(d)
           T == B \cup IF d.mac # "" THEN {mac} ELSE {}
<1>1. "mac" \in DOMAIN Rules[kind] /\ Rules[kind]["mac"] = [sort |-> "mac", field |-> "mac"]
  BY DEF Rules, NetRules
<1>2. DOMAIN Empty[kind] = {"kind", "nat", "mac", "fd", "path", "magic"} /\ Start(kind, s).mac = ""
  BY DEF Empty, Start
<1>3. d = [f \in DOMAIN Empty[kind] |-> d[f]] /\ (d.mac \in DOMAIN ParseMAC => ParseMAC[d.mac] = d.mac)
  BY <1>2 DEF IsDevice
<1>4. /\ c = [f \in DOMAIN Empty[kind] |-> c[f]]
      /\ c.kind = kind /\ c.nat = d.nat /\ c.fd = d.fd /\ c.path = d.path /\ c.mac = d.mac
  BY <1>2, <1>3 DEF Carried
<1> HIDE DEF c
<1>5. WithDefaults(c) = c /\ Valid(c)
  BY <1>4 DEF WithDefaults, Valid, NetValid
<1>6. Puts(kind, mac, "mac", ParseMAC[d.mac]) /\ (Refused(kind, mac) <=> d.mac \notin DOMAIN ParseMAC)
  BY <1>1, MacPuts
<1>7. mac.value = d.mac /\ "" # Comma /\ Comma \notin DOMAIN ParseMAC
  BY ParseMACAssumption DEF Text, Comma
<1>8. kind \in Kinds
  BY KindsAre
<1> HIDE DEF s, mac
<1>9. Lists(kind, s, T)
  <2>1. Lists(kind, When(d.mac # "", mac), IF d.mac # "" THEN {mac} ELSE {})
    BY ListsWhen
  <2>2. \A o \in B : Field(kind, o) # Field(kind, mac)
    BY <1>6 DEF Puts
  <2>3. s = t \o When(d.mac # "", mac)
    BY DEF s, mac
  <2>4. \A o \in B, p \in IF d.mac # "" THEN {mac} ELSE {} : Field(kind, o) # Field(kind, p)
    BY <2>2
  <2> QED
    BY <2>1, <2>3, <2>4, ListsBoth
<1>10. \A o \in T : ~Refused(kind, o) => \A f : Decides(kind, o, f) => Value(Rules[kind][o.key], o) = c[f]
  <2>1. ~Refused(kind, mac) => \A f : Decides(kind, mac, f) => Value(Rules[kind][mac.key], mac) = c[f]
    BY <1>3, <1>4, <1>6 DEF Puts, Decides
  <2>2. \A o \in B : ~Refused(kind, o) => \A f : Decides(kind, o, f) => Value(Rules[kind][o.key], o) = c[f]
    BY DEF c
  <2> QED
    BY <2>1, <2>2
<1>11. \A f \in DOMAIN Empty[kind] : c[f] = Start(kind, s)[f] \/ \E o \in T : Decides(kind, o, f) \/ Refused(kind, o)
  <2>1. c.mac = Start(kind, s).mac \/ (mac \in T /\ Decides(kind, mac, "mac"))
    BY <1>2, <1>4, <1>6 DEF Puts
  <2>2. \A f \in DOMAIN Empty[kind] \ {"mac"} : c[f] = Start(kind, s)[f] \/ \E o \in B : Decides(kind, o, f)
    BY DEF c, s
  <2> QED
    BY <2>1, <2>2
<1>12. Commas(T) \/ (\E o \in T : Refused(kind, o)) <=> NetRefused(d)
  BY <1>6, <1>7 DEF Commas, NetRefused
<1> HIDE DEF T
<1>13. DeviceFromCmdLine([kind |-> kind, options |-> s])
         = IF /\ ~Commas(T) /\ ~\E o \in T : Refused(kind, o)
              /\ (kind = "net" => TypeFits(c, s)) /\ Valid(WithDefaults(c))
           THEN WithDefaults(c) ELSE Error
  BY <1>4, <1>8, <1>9, <1>10, <1>11, Echo
<1> QED
  BY <1>5, <1>12, <1>13 DEF Reread, s, c

\* Whether the line of an interface has one of the keys, apart from its address.
LEMMA NetKeys ==
  ASSUME NEW B, NEW t, Lists("net", t, B), NEW c \in BOOLEAN, NEW v
  PROVE  \A key : key # "mac" => (key \in Keys(t \o When(c, Text("mac", v))) <=> \E o \in B : o.key = key)
<1> SUFFICES ASSUME NEW key, key # "mac"
             PROVE  key \in Keys(t \o When(c, Text("mac", v))) <=> \E o \in B : o.key = key
  OBVIOUS
<1> DEFINE o1 == Text("mac", v)
           w == When(c, o1)
<1>1. t \in Seq(B) /\ ToSet(t) = B
  BY DEF Lists
<1> DEFINE V == B \cup {o1}
<1>a. o1.key = "mac"
  BY DEF Text
<1> HIDE DEF o1
<1>2. w \in Seq({o1})
  <2>1. <<o1>> \in Seq({o1}) /\ <<>> \in Seq({o1})
    OBVIOUS
  <2> QED
    BY <2>1 DEF When
<1>3. t \in Seq(V) /\ w \in Seq(V)
  BY <1>1, <1>2, SeqMonotonic
<1>4. \A i \in 1 .. Len(t) : t[i] \in B
  BY <1>1
<1>5. \A i \in 1 .. Len(w) : w[i].key = "mac"
  BY <1>2, <1>a
<1> HIDE DEF w, V
<1>6. /\ t \o w \in Seq(V) /\ Len(t \o w) = Len(t) + Len(w)
      /\ \A i \in 1 .. Len(t) + Len(w) : (t \o w)[i] = IF i <= Len(t) THEN t[i] ELSE w[i - Len(t)]
      /\ Len(t) \in Nat /\ Len(w) \in Nat /\ DOMAIN t = 1 .. Len(t)
  BY <1>3, ConcatProperties, LenProperties
<1>7. DOMAIN (t \o w) = 1 .. Len(t) + Len(w)
  BY <1>6, LenProperties
<1>8. ASSUME key \in Keys(t \o w) PROVE \E o \in B : o.key = key
  <2>1. PICK i \in 1 .. Len(t) + Len(w) : (t \o w)[i].key = key
    BY <1>7, <1>8 DEF Keys, ToSet
  <2>2. CASE i <= Len(t)
    BY <2>1, <2>2, <1>4, <1>6
  <2>3. CASE ~(i <= Len(t))
    <3>1. i - Len(t) \in 1 .. Len(w)
      BY <2>1, <2>3, <1>6
    <3> QED
      BY <2>1, <2>3, <3>1, <1>5, <1>6
  <2> QED
    BY <2>2, <2>3
<1>9. ASSUME NEW o \in B, o.key = key PROVE key \in Keys(t \o w)
  <2>1. PICK i \in 1 .. Len(t) : t[i] = o
    BY <1>1, <1>6 DEF ToSet
  <2>2. i \in 1 .. Len(t) + Len(w) /\ (t \o w)[i] = o
    BY <2>1, <1>6
  <2> QED
    BY <1>7, <1>9, <2>2 DEF Keys, ToSet
<1> QED
  BY <1>8, <1>9 DEF w, o1

\* An interface that validate accepts is read as it was written, in the old syntax
\* and in the new one, or refused for one of the reasons of NetRefused.
LEMMA NetRead ==
  ASSUME NEW d, IsDevice(d), d.kind = "net", CanWrite(d)
  PROVE  Reread(d) = IF NetRefused(d) THEN Error ELSE Carried(d)
<1> DEFINE k == "net"
           c == Carried(d)
           s == Options(d)
<1>1. /\ {"nat", "fd", "unixSocketPath", "path", "type", "vfkitMagic"} \subseteq DOMAIN NetRules
      /\ NetRules["nat"] = Bare("nat", TRUE) /\ NetRules["fd"] = Num("fd", 0 .. Int32Max)
      /\ NetRules["unixSocketPath"] = Put("path") /\ NetRules["path"] = Put("path")
      /\ NetRules["type"] = Check("type", {"unixgram"})
      /\ NetRules["vfkitMagic"] = OneOf("magic", {"on", "off"})
  BY DEF NetRules
<1>2. Rules[k] = NetRules
  BY DEF Rules
<1>3. /\ DOMAIN Empty[k] = {"kind", "nat", "mac", "fd", "path", "magic"}
      /\ Empty[k].kind = k /\ Empty[k].nat = FALSE /\ Empty[k].fd = NoFd /\ Empty[k].path = "" /\ Empty[k].magic = "off"
  BY DEF Empty
<1>4. /\ d = [f \in DOMAIN Empty[k] |-> d[f]] /\ d.nat \in BOOLEAN /\ d.magic \in {"on", "off"} /\ d.fd \in Int
  BY <1>3 DEF IsDevice
<1>5. /\ c.kind = k /\ c.nat = d.nat /\ c.fd = d.fd /\ c.path = d.path
      /\ c.magic = IF d.path = "" THEN "off" ELSE d.magic
  BY <1>3, <1>4 DEF Carried
<1>6. Valid(d) /\ NetValid(d)
  BY DEF CanWrite, Valid
<1>7. \/ d.nat /\ d.fd = NoFd /\ d.path = ""
      \/ ~d.nat /\ d.fd # NoFd /\ d.path = ""
      \/ ~d.nat /\ d.fd = NoFd /\ d.path # ""
  BY <1>4, <1>6, OneOfThree DEF NetValid
<1>8. /\ Start(k, s).kind = k /\ Start(k, s).nat = FALSE /\ Start(k, s).fd = NoFd /\ Start(k, s).path = ""
      /\ Start(k, s).magic = IF "path" \in Keys(s) \/ "unixSocketPath" \in Keys(s) THEN "on" ELSE "off"
  BY <1>3 DEF Start
<1>9. (d.mac # "") \in BOOLEAN /\ "" # Comma
  BY DEF Comma
<1> HIDE DEF k, c, s
<1>10. CASE d.nat /\ d.fd = NoFd /\ d.path = ""
  <2> DEFINE nat == Flag("nat")
             t == <<nat>>
             B == {nat}
  <2>1. nat.key = "nat" /\ nat.value # Comma
    BY DEF Flag, Comma
  <2>2. Options(d) = t \o When(d.mac # "", Text("mac", d.mac))
    BY <1>10 DEF Options, NetOptions
  <2> HIDE DEF nat
  <2>3. Puts(k, nat, "nat", d.nat) /\ ~Refused(k, nat)
    <3>1. Puts(k, nat, "nat", TRUE) /\ ~Refused(k, nat)
      BY <1>1, <1>2, BarePuts DEF nat
    <3> QED
      BY <3>1, <1>4, <1>10 DEF Puts
  <2>4. Lists(k, t, B)
    BY ListsOne
  <2>5. "path" \notin Keys(s) /\ "unixSocketPath" \notin Keys(s) /\ "type" \notin Keys(s) /\ "offloading" \notin Keys(s)
    <3>1. \A key : key # "mac" => (key \in Keys(s) <=> \E o \in B : o.key = key)
      <4> DEFINE has == d.mac # ""
      <4>1. s = t \o When(has, Text("mac", d.mac)) /\ has \in BOOLEAN
        BY <2>2 DEF s
      <4>2. Lists("net", t, B)
        BY <2>4 DEF k
      <4> HIDE DEF t, B, has
      <4> QED
        BY <4>1, <4>2, NetKeys
    <3> QED
      BY <3>1, <2>1
  <2>6. TypeFits(c, s)
    BY <2>5 DEF TypeFits
  <2>7. \A o \in B : /\ Field(k, o) # "mac"
                     /\ ~Refused(k, o) => \A f : Decides(k, o, f) => Value(Rules[k][o.key], o) = c[f]
    BY <2>3, <1>5 DEF Puts, Decides
  <2>8. \A f \in DOMAIN Empty[k] \ {"mac"} : c[f] = Start(k, s)[f] \/ \E o \in B : Decides(k, o, f)
    <3>1. c["kind"] = Start(k, s)["kind"]
      BY <1>5, <1>8
    <3>2. nat \in B /\ Decides(k, nat, "nat")
      BY <2>3 DEF Puts
    <3>3. c["fd"] = Start(k, s)["fd"]
      BY <1>5, <1>8, <1>4, <1>10
    <3>4. c["path"] = Start(k, s)["path"]
      BY <1>5, <1>8, <1>4, <1>10
    <3>5. c["magic"] = Start(k, s)["magic"]
      BY <1>5, <1>8, <2>5, <1>10
    <3>6. DOMAIN Empty[k] \ {"mac"} = {"kind", "nat", "fd", "path", "magic"}
      BY <1>3
    <3> HIDE DEF B
    <3> QED
      BY <3>1, <3>2, <3>3, <3>4, <3>5, <3>6
  <2>9. ((\E o \in B : o.value = Comma) <=> d.path = Comma) /\ ((\E o \in B : Refused(k, o)) <=> d.fd # NoFd /\ d.fd \notin 0 .. Int32Max)
    BY <2>1, <2>3, <1>9, <1>10
  <2> HIDE DEF t, B
  <2> QED
    BY <2>2, <2>4, <2>6, <2>7, <2>8, <2>9, <1>6, NetConnected DEF k, c, s
<1>11. CASE ~d.nat /\ d.fd # NoFd /\ d.path = ""
  <2> DEFINE fd == Number("fd", d.fd)
             range == 0 .. Int32Max
             t == <<fd>>
             B == {fd}
  <2>1. fd.key = "fd" /\ fd.value # Comma
    BY DEF Number, Comma
  <2>2. Options(d) = t \o When(d.mac # "", Text("mac", d.mac))
    BY <1>11 DEF Options, NetOptions
  <2> HIDE DEF fd, range
  <2>3. Puts(k, fd, "fd", d.fd) /\ (Refused(k, fd) <=> d.fd \notin range)
    BY <1>1, <1>2, NumberPuts DEF fd, range
  <2>4. Lists(k, t, B)
    BY ListsOne
  <2>5. "path" \notin Keys(s) /\ "unixSocketPath" \notin Keys(s) /\ "type" \notin Keys(s) /\ "offloading" \notin Keys(s)
    <3>1. \A key : key # "mac" => (key \in Keys(s) <=> \E o \in B : o.key = key)
      <4> DEFINE has == d.mac # ""
      <4>1. s = t \o When(has, Text("mac", d.mac)) /\ has \in BOOLEAN
        BY <2>2 DEF s
      <4>2. Lists("net", t, B)
        BY <2>4 DEF k
      <4> HIDE DEF t, B, has
      <4> QED
        BY <4>1, <4>2, NetKeys
    <3> QED
      BY <3>1, <2>1
  <2>6. TypeFits(c, s)
    BY <2>5 DEF TypeFits
  <2>7. \A o \in B : /\ Field(k, o) # "mac"
                     /\ ~Refused(k, o) => \A f : Decides(k, o, f) => Value(Rules[k][o.key], o) = c[f]
    BY <2>3, <1>5 DEF Puts, Decides
  <2>8. \A f \in DOMAIN Empty[k] \ {"mac"} : c[f] = Start(k, s)[f] \/ \E o \in B : Decides(k, o, f)
    <3>1. c["kind"] = Start(k, s)["kind"]
      BY <1>5, <1>8
    <3>2. c["nat"] = Start(k, s)["nat"]
      BY <1>5, <1>8, <1>4, <1>11
    <3>3. fd \in B /\ Decides(k, fd, "fd")
      BY <2>3 DEF Puts
    <3>4. c["path"] = Start(k, s)["path"]
      BY <1>5, <1>8, <1>4, <1>11
    <3>5. c["magic"] = Start(k, s)["magic"]
      BY <1>5, <1>8, <2>5, <1>11
    <3>6. DOMAIN Empty[k] \ {"mac"} = {"kind", "nat", "fd", "path", "magic"}
      BY <1>3
    <3> HIDE DEF B
    <3> QED
      BY <3>1, <3>2, <3>3, <3>4, <3>5, <3>6
  <2>9. ((\E o \in B : o.value = Comma) <=> d.path = Comma) /\ ((\E o \in B : Refused(k, o)) <=> d.fd # NoFd /\ d.fd \notin range)
    BY <2>1, <2>3, <1>9, <1>11
  <2> HIDE DEF t, B
  <2> QED
    BY <2>2, <2>4, <2>6, <2>7, <2>8, <2>9, <1>6, NetConnected DEF k, c, s, range
<1>12. CASE ~d.nat /\ d.fd = NoFd /\ d.path # "" /\ d.magic = "on"
  <2> DEFINE path == Text("unixSocketPath", d.path)
             t == <<path>>
             B == {path}
  <2>1. path.key = "unixSocketPath" /\ path.value = d.path
    BY DEF Text
  <2>2. Options(d) = t \o When(d.mac # "", Text("mac", d.mac))
    BY <1>12 DEF Options, NetOptions
  <2> HIDE DEF path
  <2>3. Puts(k, path, "path", d.path) /\ ~Refused(k, path)
    BY <1>1, <1>2, TextPuts DEF path
  <2>4. Lists(k, t, B)
    BY ListsOne
  <2>5. "path" \notin Keys(s) /\ "unixSocketPath" \in Keys(s) /\ "type" \notin Keys(s) /\ "offloading" \notin Keys(s)
    <3>1. \A key : key # "mac" => (key \in Keys(s) <=> \E o \in B : o.key = key)
      <4> DEFINE has == d.mac # ""
      <4>1. s = t \o When(has, Text("mac", d.mac)) /\ has \in BOOLEAN
        BY <2>2 DEF s
      <4>2. Lists("net", t, B)
        BY <2>4 DEF k
      <4> HIDE DEF t, B, has
      <4> QED
        BY <4>1, <4>2, NetKeys
    <3> QED
      BY <3>1, <2>1
  <2>6. TypeFits(c, s)
    BY <2>5 DEF TypeFits
  <2>7. \A o \in B : /\ Field(k, o) # "mac"
                     /\ ~Refused(k, o) => \A f : Decides(k, o, f) => Value(Rules[k][o.key], o) = c[f]
    BY <2>3, <1>5 DEF Puts, Decides
  <2>8. \A f \in DOMAIN Empty[k] \ {"mac"} : c[f] = Start(k, s)[f] \/ \E o \in B : Decides(k, o, f)
    <3>1. c["kind"] = Start(k, s)["kind"]
      BY <1>5, <1>8
    <3>2. c["nat"] = Start(k, s)["nat"]
      BY <1>5, <1>8, <1>4, <1>12
    <3>3. c["fd"] = Start(k, s)["fd"]
      BY <1>5, <1>8, <1>4, <1>12
    <3>4. path \in B /\ Decides(k, path, "path")
      BY <2>3 DEF Puts
    <3>5. c["magic"] = Start(k, s)["magic"]
      BY <1>5, <1>8, <2>5, <1>12
    <3>6. DOMAIN Empty[k] \ {"mac"} = {"kind", "nat", "fd", "path", "magic"}
      BY <1>3
    <3> HIDE DEF B
    <3> QED
      BY <3>1, <3>2, <3>3, <3>4, <3>5, <3>6
  <2>9. ((\E o \in B : o.value = Comma) <=> d.path = Comma) /\ ((\E o \in B : Refused(k, o)) <=> d.fd # NoFd /\ d.fd \notin 0 .. Int32Max)
    BY <2>1, <2>3, <1>12
  <2> HIDE DEF t, B
  <2> QED
    BY <2>2, <2>4, <2>6, <2>7, <2>8, <2>9, <1>6, NetConnected DEF k, c, s
<1>13. CASE ~d.nat /\ d.fd = NoFd /\ d.path # "" /\ d.magic = "off"
  <2> DEFINE type == Text("type", "unixgram")
             path == Text("path", d.path)
             magic == Text("vfkitMagic", "off")
             t == <<type, path, magic>>
             B == {type, path, magic}
  <2>1. /\ type.key = "type" /\ path.key = "path" /\ magic.key = "vfkitMagic"
        /\ type.value # Comma /\ path.value = d.path /\ magic.value # Comma
    BY DEF Text, Comma
  <2>2. Options(d) = t \o When(d.mac # "", Text("mac", d.mac))
    BY <1>13 DEF Options, NetOptions
  <2> HIDE DEF type, path, magic
  <2>3. Field(k, type) = "type" /\ (\A g : ~Decides(k, type, g)) /\ ~Refused(k, type)
    <3> DEFINE values == {"unixgram"}
    <3>1. Rules[k]["type"] = Check("type", values) /\ "unixgram" \in values /\ "type" \in DOMAIN Rules[k]
      BY <1>1, <1>2
    <3> HIDE DEF values
    <3> QED
      BY <3>1, CheckPasses DEF type
  <2>a. Puts(k, path, "path", d.path) /\ ~Refused(k, path)
    BY <1>1, <1>2, TextPuts DEF path
  <2>b. Puts(k, magic, "magic", "off") /\ ~Refused(k, magic)
    BY <1>1, <1>2, OneOfPuts DEF magic
  <2>4. Lists(k, t, B)
    BY <2>3, <2>a, <2>b DEF Lists, ToSet, Puts
  <2>5. "path" \in Keys(s) /\ "unixSocketPath" \notin Keys(s) /\ "type" \in Keys(s)
    <3>1. \A key : key # "mac" => (key \in Keys(s) <=> \E o \in B : o.key = key)
      <4> DEFINE has == d.mac # ""
      <4>1. s = t \o When(has, Text("mac", d.mac)) /\ has \in BOOLEAN
        BY <2>2 DEF s
      <4>2. Lists("net", t, B)
        BY <2>4 DEF k
      <4> HIDE DEF t, B, has
      <4> QED
        BY <4>1, <4>2, NetKeys
    <3> QED
      BY <3>1, <2>1
  <2>6. TypeFits(c, s)
    BY <2>5, <1>5, <1>13 DEF TypeFits
  <2>7. \A o \in B : /\ Field(k, o) # "mac"
                     /\ ~Refused(k, o) => \A f : Decides(k, o, f) => Value(Rules[k][o.key], o) = c[f]
    BY <2>3, <2>a, <2>b, <1>5, <1>13 DEF Puts, Decides
  <2>8. \A f \in DOMAIN Empty[k] \ {"mac"} : c[f] = Start(k, s)[f] \/ \E o \in B : Decides(k, o, f)
    <3>1. c["kind"] = Start(k, s)["kind"]
      BY <1>5, <1>8
    <3>2. c["nat"] = Start(k, s)["nat"]
      BY <1>5, <1>8, <1>4, <1>13
    <3>3. c["fd"] = Start(k, s)["fd"]
      BY <1>5, <1>8, <1>4, <1>13
    <3>4. path \in B /\ Decides(k, path, "path")
      BY <2>a DEF Puts
    <3>5. magic \in B /\ Decides(k, magic, "magic")
      BY <2>b DEF Puts
    <3>6. DOMAIN Empty[k] \ {"mac"} = {"kind", "nat", "fd", "path", "magic"}
      BY <1>3
    <3> HIDE DEF B
    <3> QED
      BY <3>1, <3>2, <3>3, <3>4, <3>5, <3>6
  <2>9. ((\E o \in B : o.value = Comma) <=> d.path = Comma) /\ ((\E o \in B : Refused(k, o)) <=> d.fd # NoFd /\ d.fd \notin 0 .. Int32Max)
    BY <2>1, <2>3, <2>a, <2>b, <1>13
  <2> HIDE DEF t, B
  <2> QED
    BY <2>2, <2>4, <2>6, <2>7, <2>8, <2>9, <1>6, NetConnected DEF k, c, s
<1> QED
  BY <1>4, <1>7, <1>10, <1>11, <1>12, <1>13

------------------------------------------------------------------------------
\* What vfkit accepts: the values of the fields of a device that was parsed.

\* v is a value that an option read by this rule can put in its field.
Fits(rule, v) ==
  /\ rule.sort # "check"
  /\ rule.sort = "text" => v # Comma
  /\ rule.sort \in {"oneOf", "number"} => v \in rule.values
  /\ rule.sort \in {"any", "bare"} => v = rule.to
  /\ rule.sort = "mac" => v \in DOMAIN ParseMAC /\ ParseMAC[v] = v

\* The sorts of rules.
Sorts == {"text", "oneOf", "number", "any", "bare", "mac", "check"}

\* Every field of d is as before its options or as one of the rules for it allows.
Sound(kind, d) ==
  /\ d = [f \in DOMAIN Empty[kind] |-> d[f]]
  /\ \A f \in DOMAIN Empty[kind] :
       \/ d[f] = Empty[kind][f]
       \/ kind = "net" /\ f = "magic" /\ d[f] = "on"
       \/ \E key \in DOMAIN Rules[kind] : Rules[kind][key].field = f /\ Fits(Rules[kind][key], d[f])

\* What an option that is accepted puts in its field is a value of its rule.
LEMMA AcceptedFits ==
  ASSUME NEW rule, NEW o, Accepts(rule, o), rule.sort \in Sorts \ {"check"}, o.value # Comma
  PROVE  Fits(rule, Value(rule, o))
<1>1. CASE rule.sort = "text"
  BY <1>1 DEF Fits, Value
<1>2. CASE rule.sort = "oneOf"
  BY <1>2 DEF Fits, Value, Accepts
<1>3. CASE rule.sort = "number"
  BY <1>3 DEF Fits, Value, Accepts
<1>4. CASE rule.sort = "any"
  BY <1>4 DEF Fits, Value
<1>5. CASE rule.sort = "bare"
  BY <1>5 DEF Fits, Value
<1>6. CASE rule.sort = "mac"
  BY <1>6, ParseMACAssumption DEF Fits, Value, Accepts
<1> QED
  BY <1>1, <1>2, <1>3, <1>4, <1>5, <1>6 DEF Sorts

\* Every rule is of one of these sorts.
LEMMA RulesSorted ==
  ASSUME NEW kind \in Kinds, NEW key \in DOMAIN Rules[kind]
  PROVE  Rules[kind][key].sort \in Sorts
<1> USE DEF Rules, Put, OneOf, Num, Sets, Bare, Check, Over, Sorts
<1>1. CASE kind = "nvme"
  BY <1>1 DEF DiskRules, StorageRules
<1>2. CASE kind = "usb"
  BY <1>2 DEF DiskRules, StorageRules
<1>3. CASE kind = "blk"
  BY <1>3 DEF BlkRules, DiskRules, StorageRules
<1>4. CASE kind = "nbd"
  BY <1>4 DEF NbdRules, StorageRules
<1>5. CASE kind = "net"
  BY <1>5 DEF NetRules
<1>6. CASE kind = "serial"
  BY <1>6 DEF SerialRules
<1>7. CASE kind = "input"
  BY <1>7 DEF InputRules
<1>8. CASE kind = "gpu"
  BY <1>8 DEF GpuRules
<1>9. CASE kind = "vsock"
  BY <1>9 DEF VsockRules
<1>10. CASE kind = "fs"
  BY <1>10 DEF FsRules
<1>11. CASE kind = "rosetta"
  BY <1>11 DEF RosettaRules
<1>12. CASE kind = "rng"
  BY <1>12
<1>13. CASE kind = "balloon"
  BY <1>13
<1>14. CASE kind = "timesync"
  BY <1>14 DEF TimeSyncRules
<1> QED
  BY KindsAre, <1>1, <1>2, <1>3, <1>4, <1>5, <1>6, <1>7, <1>8, <1>9, <1>10, <1>11, <1>12, <1>13, <1>14

\* Whatever a user types, an accepted device has only values of its rules, and
\* passed validate with its defaults.
LEMMA ReadSound ==
  ASSUME NEW O, NEW l, l.kind \in Kinds, l.options \in Seq(O), DeviceFromCmdLine(l) # Error
  PROVE  \E d : /\ Sound(l.kind, d) /\ d.kind = l.kind
                /\ DeviceFromCmdLine(l) = WithDefaults(d) /\ Valid(WithDefaults(d))
<1> DEFINE kind == l.kind
           options == l.options
           d == Loop(kind, options)
           start == Start(kind, options)
<1>1. Len(options) \in Nat /\ DOMAIN options = 1 .. Len(options)
  OBVIOUS
<1>2. DeviceFromCmdLine(l) = FromOptions(kind, options) /\ \A i \in DOMAIN options : options[i].value # Comma
  BY CommasRefuse
<1>3. d # Error /\ FromOptions(kind, options) = WithDefaults(d) /\ Valid(WithDefaults(d))
  BY <1>2 DEF FromOptions
<1>4. ReadSoFar(kind, start, options, Len(options), d)
  BY <1>1, LoopReads
<1>5. start = [f \in DOMAIN Empty[kind] |-> start[f]] /\ DOMAIN start = DOMAIN Empty[kind] /\ start.kind = kind
      /\ "kind" \in DOMAIN Empty[kind]
  BY StartFits
<1>6. \A f \in DOMAIN Empty[kind] : start[f] = Empty[kind][f] \/ (kind = "net" /\ f = "magic" /\ start[f] = "on")
  BY EmptyFits DEF Start
<1> HIDE DEF d, start, kind, options
<1>7. /\ \A i \in 1 .. Len(options) : ~Refused(kind, options[i])
      /\ d = [f \in DOMAIN start |-> d[f]]
      /\ \A f \in DOMAIN start :
           \/ d[f] = start[f] /\ \A i \in 1 .. Len(options) : ~Decides(kind, options[i], f)
           \/ \E i \in 1 .. Len(options) : Decides(kind, options[i], f) /\ d[f] = Value(Rules[kind][options[i].key], options[i])
  BY <1>3, <1>4 DEF ReadSoFar
<1>8. ASSUME NEW f \in DOMAIN Empty[kind], d[f] # start[f]
      PROVE  \E key \in DOMAIN Rules[kind] : Rules[kind][key].field = f /\ Fits(Rules[kind][key], d[f])
  <2>1. PICK i \in 1 .. Len(options) : Decides(kind, options[i], f) /\ d[f] = Value(Rules[kind][options[i].key], options[i])
    BY <1>5, <1>7, <1>8
  <2> DEFINE o == options[i]
             rule == Rules[kind][o.key]
  <2>2. o.key \in DOMAIN Rules[kind] /\ rule.field = f /\ rule.sort # "check" /\ Accepts(rule, o) /\ o.value # Comma
    BY <2>1, <1>1, <1>2, <1>7 DEF Decides, Refused, Known, kind, options
  <2>3. rule.sort \in Sorts
    BY <2>2, RulesSorted DEF kind
  <2>4. Fits(rule, d[f])
    BY <2>1, <2>2, <2>3, AcceptedFits
  <2> QED
    BY <2>2, <2>4
<1>9. Sound(kind, d)
  BY <1>5, <1>6, <1>7, <1>8 DEF Sound
<1>10. d.kind = kind
  <2>1. d.kind = start.kind
    BY <1>5, <1>8, RulesFit DEF kind
  <2> QED
    BY <2>1, <1>5
<1> QED
  BY <1>2, <1>3, <1>9, <1>10 DEF kind, options

\* A field with only rules for texts, for values of a set, or that put values of a set.
LEMMA SoundText ==
  ASSUME NEW kind, NEW d, Sound(kind, d), NEW f \in DOMAIN Empty[kind], f # "magic", Empty[kind][f] # Comma,
         \A key \in DOMAIN Rules[kind] : Rules[kind][key].field = f => Rules[kind][key] = Put(f)
  PROVE  d[f] # Comma
<1>1. Put(f).sort = "text"
  BY DEF Put
<1> QED
  BY <1>1 DEF Sound, Fits

\* A field whose options take one of a few texts, or numbers in a range.
LEMMA SoundValues ==
  ASSUME NEW kind, NEW d, Sound(kind, d), NEW f \in DOMAIN Empty[kind], NEW V,
         \A key \in DOMAIN Rules[kind] :
           Rules[kind][key].field = f => Rules[kind][key] = OneOf(f, V) \/ Rules[kind][key] = Num(f, V)
  PROVE  d[f] = Empty[kind][f] \/ d[f] \in V \/ (kind = "net" /\ f = "magic" /\ d[f] = "on")
<1>1. OneOf(f, V).sort = "oneOf" /\ Num(f, V).sort = "number" /\ OneOf(f, V).values = V /\ Num(f, V).values = V
  BY DEF OneOf, Num
<1> QED
  BY <1>1 DEF Sound, Fits

\* A field that its options set.
LEMMA SoundSet ==
  ASSUME NEW kind, NEW d, Sound(kind, d), NEW f \in DOMAIN Empty[kind], f # "magic", Empty[kind][f] \in BOOLEAN,
         \A key \in DOMAIN Rules[kind] :
           Rules[kind][key].field = f =>
             Rules[kind][key] = Bare(f, TRUE) \/ Rules[kind][key] = Sets(f, TRUE) \/ Rules[kind][key] = Sets(f, FALSE)
  PROVE  d[f] \in BOOLEAN
<1>1. /\ Bare(f, TRUE).sort = "bare" /\ Sets(f, TRUE).sort = "any" /\ Sets(f, FALSE).sort = "any"
      /\ Bare(f, TRUE).to \in BOOLEAN /\ Sets(f, TRUE).to \in BOOLEAN /\ Sets(f, FALSE).to \in BOOLEAN
  BY DEF Bare, Sets
<1>2. CASE d[f] = Empty[kind][f]
  BY <1>2
<1>3. CASE d[f] # Empty[kind][f]
  <2>1. PICK key \in DOMAIN Rules[kind] : Rules[kind][key].field = f /\ Fits(Rules[kind][key], d[f])
    BY <1>3 DEF Sound
  <2>2. d[f] = Rules[kind][key].to /\ Rules[kind][key].to \in BOOLEAN
    BY <2>1, <1>1 DEF Fits
  <2> QED
    BY <2>2
<1> QED
  BY <1>2, <1>3

\* What vfkit accepts as a shared directory.
LEMMA SoundFs ==
  ASSUME NEW d, Sound("fs", d), d.kind = "fs"
  PROVE  IsDevice(d) /\ d.dir # Comma /\ d.tag # Comma
<1>1. /\ DOMAIN Empty["fs"] = {"kind", "dir", "tag"} /\ Empty["fs"].dir = "" /\ Empty["fs"].tag = ""
      /\ "" # Comma /\ "fs" \in DOMAIN Empty
  BY DEF Empty, Comma
<1>2. \A key \in DOMAIN Rules["fs"] :
        \/ Rules["fs"][key] = Put("dir")
        \/ Rules["fs"][key] = Put("tag")
  <2>1. DOMAIN FsRules = {"sharedDir", "mountTag"}
    BY DEF FsRules
  <2>2. FsRules["sharedDir"] = Put("dir")
    BY DEF FsRules
  <2>3. FsRules["mountTag"] = Put("tag")
    BY DEF FsRules
  <2>4. Rules["fs"] = FsRules
    BY DEF Rules
  <2> QED
    BY <2>1, <2>2, <2>3, <2>4
<1>a. /\ Put("dir").field = "dir"
      /\ Put("tag").field = "tag"
  BY DEF Put
<1>b. \A key \in DOMAIN Rules["fs"] :
        /\ Rules["fs"][key].field = "dir" => Rules["fs"][key] = Put("dir")
        /\ Rules["fs"][key].field = "tag" => Rules["fs"][key] = Put("tag")
  BY <1>2, <1>a
<1>3. d.dir # Comma /\ d.tag # Comma
  <2>1. "dir" \in DOMAIN Empty["fs"] /\ Empty["fs"]["dir"] # Comma
    BY <1>1
  <2>2. \A key \in DOMAIN Rules["fs"] : Rules["fs"][key].field = "dir" => Rules["fs"][key] = Put("dir")
    BY <1>b
  <2>3. d["dir"] # Comma
    BY <2>1, <2>2, SoundText
  <2>4. "tag" \in DOMAIN Empty["fs"] /\ Empty["fs"]["tag"] # Comma
    BY <1>1
  <2>5. \A key \in DOMAIN Rules["fs"] : Rules["fs"][key].field = "tag" => Rules["fs"][key] = Put("tag")
    BY <1>b
  <2>6. d["tag"] # Comma
    BY <2>4, <2>5, SoundText
  <2> QED
    BY <2>3, <2>6
<1>4. d = [f \in DOMAIN Empty["fs"] |-> d[f]] /\ DOMAIN d = {"kind", "dir", "tag"}
  BY <1>1 DEF Sound
<1>5. IsDevice(d)
  BY <1>1, <1>4 DEF IsDevice
<1> QED
  BY <1>3, <1>5

\* What vfkit accepts as the Rosetta share.
LEMMA SoundRosetta ==
  ASSUME NEW d, Sound("rosetta", d), d.kind = "rosetta"
  PROVE  IsDevice(d) /\ d.tag # Comma
<1>1. /\ DOMAIN Empty["rosetta"] = {"kind", "tag", "install", "ignore"} /\ Empty["rosetta"].tag = ""
      /\ Empty["rosetta"].install \in BOOLEAN /\ Empty["rosetta"].ignore \in BOOLEAN
      /\ "" # Comma /\ "rosetta" \in DOMAIN Empty
  BY DEF Empty, Comma
<1>2. \A key \in DOMAIN Rules["rosetta"] :
        \/ Rules["rosetta"][key] = Put("tag")
        \/ Rules["rosetta"][key] = Sets("install", TRUE)
        \/ Rules["rosetta"][key] = Sets("ignore", TRUE)
  <2>1. DOMAIN RosettaRules = {"mountTag", "install", "ignore-if-missing"}
    BY DEF RosettaRules, Over
  <2>2. RosettaRules["mountTag"] = Put("tag")
    BY DEF RosettaRules, Over
  <2>3. RosettaRules["install"] = Sets("install", TRUE)
    BY DEF RosettaRules, Over
  <2>4. RosettaRules["ignore-if-missing"] = Sets("ignore", TRUE)
    BY DEF RosettaRules, Over
  <2>5. Rules["rosetta"] = RosettaRules
    BY DEF Rules
  <2> QED
    BY <2>1, <2>2, <2>3, <2>4, <2>5
<1>a. /\ Put("tag").field = "tag"
      /\ Sets("install", TRUE).field = "install"
      /\ Sets("ignore", TRUE).field = "ignore"
  BY DEF Put, Sets
<1>b. \A key \in DOMAIN Rules["rosetta"] :
        /\ Rules["rosetta"][key].field = "tag" => Rules["rosetta"][key] = Put("tag")
        /\ Rules["rosetta"][key].field = "install" => Rules["rosetta"][key] = Sets("install", TRUE)
        /\ Rules["rosetta"][key].field = "ignore" => Rules["rosetta"][key] = Sets("ignore", TRUE)
  BY <1>2, <1>a
<1>3. d.tag # Comma
  <2>1. "tag" \in DOMAIN Empty["rosetta"] /\ Empty["rosetta"]["tag"] # Comma
    BY <1>1
  <2>2. \A key \in DOMAIN Rules["rosetta"] : Rules["rosetta"][key].field = "tag" => Rules["rosetta"][key] = Put("tag")
    BY <1>b
  <2>3. d["tag"] # Comma
    BY <2>1, <2>2, SoundText
  <2> QED
    BY <2>3
<1>4. d.install \in BOOLEAN
  BY <1>1, <1>b, SoundSet
<1>5. d.ignore \in BOOLEAN
  BY <1>1, <1>b, SoundSet
<1>6. d = [f \in DOMAIN Empty["rosetta"] |-> d[f]] /\ DOMAIN d = {"kind", "tag", "install", "ignore"}
  BY <1>1 DEF Sound
<1>7. IsDevice(d)
  BY <1>1, <1>4, <1>5, <1>6 DEF IsDevice
<1> QED
  BY <1>3, <1>7

\* What vfkit accepts as a vsock device.
LEMMA SoundVsock ==
  ASSUME NEW d, Sound("vsock", d), d.kind = "vsock"
  PROVE  IsDevice(d) /\ d.url # Comma /\ d.port \in 0 .. Uint32Max
<1> DEFINE range == 0 .. Uint32Max
<1>1. /\ DOMAIN Empty["vsock"] = {"kind", "port", "url", "listen"} /\ Empty["vsock"].url = ""
      /\ Empty["vsock"].port = 0 /\ Empty["vsock"].listen \in BOOLEAN /\ "" # Comma /\ "vsock" \in DOMAIN Empty
  BY DEF Empty, Comma
<1>2. 0 \in range /\ \A n \in range : n \in Int
  BY NumbersAssumption
<1> HIDE DEF range
<1>3. \A key \in DOMAIN Rules["vsock"] :
        \/ Rules["vsock"][key] = Put("url")
        \/ Rules["vsock"][key] = Num("port", range)
        \/ Rules["vsock"][key] = Sets("listen", TRUE)
        \/ Rules["vsock"][key] = Sets("listen", FALSE)
  <2>1. DOMAIN VsockRules = {"socketURL", "port", "listen", "connect"}
    BY DEF VsockRules
  <2>2. VsockRules["socketURL"] = Put("url")
    BY DEF VsockRules
  <2>3. VsockRules["port"] = Num("port", range)
    BY DEF VsockRules, range
  <2>4. VsockRules["listen"] = Sets("listen", TRUE)
    BY DEF VsockRules
  <2>5. VsockRules["connect"] = Sets("listen", FALSE)
    BY DEF VsockRules
  <2>6. Rules["vsock"] = VsockRules
    BY DEF Rules
  <2> QED
    BY <2>1, <2>2, <2>3, <2>4, <2>5, <2>6
<1>a. /\ Put("url").field = "url"
      /\ Num("port", range).field = "port"
      /\ Sets("listen", TRUE).field = "listen"
      /\ Sets("listen", FALSE).field = "listen"
  BY DEF Put, Num, Sets
<1>b. \A key \in DOMAIN Rules["vsock"] :
        /\ Rules["vsock"][key].field = "url" => Rules["vsock"][key] = Put("url")
        /\ Rules["vsock"][key].field = "port" => Rules["vsock"][key] = Num("port", range)
        /\ Rules["vsock"][key].field = "listen" => Rules["vsock"][key] = Sets("listen", TRUE) \/ Rules["vsock"][key] = Sets("listen", FALSE)
  BY <1>3, <1>a
<1>5. d.url # Comma
  <2>1. "url" \in DOMAIN Empty["vsock"] /\ Empty["vsock"]["url"] # Comma
    BY <1>1
  <2>2. \A key \in DOMAIN Rules["vsock"] : Rules["vsock"][key].field = "url" => Rules["vsock"][key] = Put("url")
    BY <1>b
  <2>3. d["url"] # Comma
    BY <2>1, <2>2, SoundText
  <2> QED
    BY <2>3
<1>6. d.port \in range
  <2>1. "port" \in DOMAIN Empty["vsock"]
    BY <1>1
  <2>2. \A key \in DOMAIN Rules["vsock"] :
          Rules["vsock"][key].field = "port" => Rules["vsock"][key] = OneOf("port", range) \/ Rules["vsock"][key] = Num("port", range)
    BY <1>b
  <2>3. d["port"] = Empty["vsock"]["port"] \/ d["port"] \in range
    BY <2>1, <2>2, SoundValues
  <2> QED
    BY <2>3, <1>1, <1>2
<1>7. d.listen \in BOOLEAN
  BY <1>1, <1>b, SoundSet
<1>8. d = [f \in DOMAIN Empty["vsock"] |-> d[f]] /\ DOMAIN d = {"kind", "port", "url", "listen"}
  BY <1>1 DEF Sound
<1>9. IsDevice(d)
  BY <1>1, <1>2, <1>6, <1>7, <1>8 DEF IsDevice
<1> QED
  BY <1>5, <1>6, <1>9 DEF range

\* What vfkit accepts as a time synchronisation.
LEMMA SoundTimeSync ==
  ASSUME NEW d, Sound("timesync", d), d.kind = "timesync"
  PROVE  IsDevice(d) /\ d.port \in 0 .. Uint32Max
<1> DEFINE range == 0 .. Uint32Max
<1>1. DOMAIN Empty["timesync"] = {"kind", "port"} /\ Empty["timesync"].port = 0 /\ "timesync" \in DOMAIN Empty
  BY DEF Empty
<1>2. 0 \in range /\ \A n \in range : n \in Int
  BY NumbersAssumption
<1> HIDE DEF range
<1>3. \A key \in DOMAIN Rules["timesync"] :
        \/ Rules["timesync"][key] = Num("port", range)
  <2>1. DOMAIN TimeSyncRules = {"vsockPort"}
    BY DEF TimeSyncRules
  <2>2. TimeSyncRules["vsockPort"] = Num("port", range)
    BY DEF TimeSyncRules, range
  <2>3. Rules["timesync"] = TimeSyncRules
    BY DEF Rules
  <2> QED
    BY <2>1, <2>2, <2>3
<1>4. d.port \in range
  BY <1>1, <1>2, <1>3, SoundValues
<1>5. d = [f \in DOMAIN Empty["timesync"] |-> d[f]] /\ DOMAIN d = {"kind", "port"}
  BY <1>1 DEF Sound
<1>6. IsDevice(d)
  BY <1>1, <1>2, <1>4, <1>5 DEF IsDevice
<1> QED
  BY <1>4, <1>6 DEF range

\* What vfkit accepts as a device without options.
LEMMA SoundBare ==
  ASSUME NEW d, NEW kind \in {"rng", "balloon"}, Sound(kind, d), d.kind = kind
  PROVE  IsDevice(d)
<1>1. kind \in DOMAIN Empty /\ DOMAIN Empty[kind] = {"kind"}
  <2>1. CASE kind = "rng"
    BY <2>1 DEF Empty
  <2>2. CASE kind = "balloon"
    BY <2>2 DEF Empty
  <2> QED
    BY <2>1, <2>2
<1>2. d = [f \in DOMAIN Empty[kind] |-> d[f]] /\ DOMAIN d = {"kind"}
  BY <1>1 DEF Sound
<1> QED
  BY <1>1, <1>2 DEF IsDevice

\* What vfkit accepts as an input device.
LEMMA SoundInput ==
  ASSUME NEW d, Sound("input", d), d.kind = "input"
  PROVE  IsDevice(d)
<1>1. DOMAIN Empty["input"] = {"kind", "type"} /\ "input" \in DOMAIN Empty
  BY DEF Empty
<1>2. d = [f \in DOMAIN Empty["input"] |-> d[f]] /\ DOMAIN d = {"kind", "type"}
  BY <1>1 DEF Sound
<1> QED
  BY <1>1, <1>2 DEF IsDevice

\* What vfkit accepts as a GPU.
LEMMA SoundGpu ==
  ASSUME NEW d, Sound("gpu", d), d.kind = "gpu"
  PROVE  IsDevice(d) /\ d.usesGUI = FALSE /\ d.width \in Nat /\ d.height \in Nat
<1>1. /\ DOMAIN Empty["gpu"] = {"kind", "width", "height", "usesGUI"} /\ Empty["gpu"].width = 0
      /\ Empty["gpu"].height = 0 /\ Empty["gpu"].usesGUI = FALSE /\ "gpu" \in DOMAIN Empty
  BY DEF Empty
<1>2. \A key \in DOMAIN Rules["gpu"] :
        /\ Rules["gpu"][key].sort = "number" /\ Rules["gpu"][key].values = Nat \ {0}
        /\ Rules["gpu"][key].field # "usesGUI"
  BY DEF Rules, GpuRules, Num
<1>3. d.width \in Nat /\ d.height \in Nat
  <2>1. ASSUME NEW f \in {"width", "height"} PROVE d[f] \in Nat
    <3>1. f \in DOMAIN Empty["gpu"] /\ Empty["gpu"][f] = 0 /\ "gpu" # "net"
      BY <1>1
    <3>2. d[f] = 0 \/ \E key \in DOMAIN Rules["gpu"] : Fits(Rules["gpu"][key], d[f])
      BY <3>1 DEF Sound
    <3>3. \A key \in DOMAIN Rules["gpu"] : Fits(Rules["gpu"][key], d[f]) => d[f] \in Nat \ {0}
      BY <1>2 DEF Fits
    <3> QED
      BY <3>2, <3>3
  <2> QED
    BY <2>1
<1>4. d.usesGUI = FALSE
  BY <1>1, <1>2 DEF Sound
<1>5. d = [f \in DOMAIN Empty["gpu"] |-> d[f]] /\ DOMAIN d = {"kind", "width", "height", "usesGUI"}
  BY <1>1 DEF Sound
<1>6. IsDevice(d)
  <2>1. ASSUME NEW f \in DOMAIN d
        PROVE  /\ f \in {"readonly", "nat", "stdio", "pty", "usesGUI", "listen", "install", "ignore"} => d[f] \in BOOLEAN
               /\ f \in {"timeout", "fd", "width", "height", "port"} => d[f] \in Int
               /\ f = "magic" => d[f] \in {"on", "off"}
               /\ f = "mac" => (d[f] \in DOMAIN ParseMAC => ParseMAC[d[f]] = d[f])
    <3>1. CASE f = "kind"
      BY <3>1
    <3>2. CASE f = "width"
      BY <3>2, <1>3
    <3>3. CASE f = "height"
      BY <3>3, <1>3
    <3>4. CASE f = "usesGUI"
      BY <3>4, <1>4
    <3> QED
      BY <3>1, <3>2, <3>3, <3>4, <1>5
  <2> QED
    BY <2>1, <1>1, <1>5 DEF IsDevice
<1> QED
  BY <1>3, <1>4, <1>6

\* What vfkit accepts as a serial port.
LEMMA SoundSerial ==
  ASSUME NEW d, Sound("serial", d), d.kind = "serial"
  PROVE  IsDevice(d) /\ d.logFile # Comma
<1>1. /\ DOMAIN Empty["serial"] = {"kind", "logFile", "stdio", "pty"} /\ Empty["serial"].logFile = ""
      /\ Empty["serial"].stdio \in BOOLEAN /\ Empty["serial"].pty \in BOOLEAN /\ "" # Comma
      /\ "serial" \in DOMAIN Empty
  BY DEF Empty, Comma
<1>2. \A key \in DOMAIN Rules["serial"] :
        \/ Rules["serial"][key] = Put("logFile")
        \/ Rules["serial"][key] = Bare("stdio", TRUE)
        \/ Rules["serial"][key] = Sets("pty", TRUE)
  <2>1. DOMAIN SerialRules = {"logFilePath", "stdio", "pty"}
    BY DEF SerialRules
  <2>2. SerialRules["logFilePath"] = Put("logFile")
    BY DEF SerialRules
  <2>3. SerialRules["stdio"] = Bare("stdio", TRUE)
    BY DEF SerialRules
  <2>4. SerialRules["pty"] = Sets("pty", TRUE)
    BY DEF SerialRules
  <2>5. Rules["serial"] = SerialRules
    BY DEF Rules
  <2> QED
    BY <2>1, <2>2, <2>3, <2>4, <2>5
<1>a. /\ Put("logFile").field = "logFile"
      /\ Bare("stdio", TRUE).field = "stdio"
      /\ Sets("pty", TRUE).field = "pty"
  BY DEF Put, Bare, Sets
<1>b. \A key \in DOMAIN Rules["serial"] :
        /\ Rules["serial"][key].field = "logFile" => Rules["serial"][key] = Put("logFile")
        /\ Rules["serial"][key].field = "stdio" => Rules["serial"][key] = Bare("stdio", TRUE)
        /\ Rules["serial"][key].field = "pty" => Rules["serial"][key] = Sets("pty", TRUE)
  BY <1>2, <1>a
<1>3. d.logFile # Comma
  <2>1. "logFile" \in DOMAIN Empty["serial"] /\ Empty["serial"]["logFile"] # Comma
    BY <1>1
  <2>2. \A key \in DOMAIN Rules["serial"] : Rules["serial"][key].field = "logFile" => Rules["serial"][key] = Put("logFile")
    BY <1>b
  <2>3. d["logFile"] # Comma
    BY <2>1, <2>2, SoundText
  <2> QED
    BY <2>3
<1>4. d.stdio \in BOOLEAN
  BY <1>1, <1>b, SoundSet
<1>5. d.pty \in BOOLEAN
  BY <1>1, <1>b, SoundSet
<1>6. d = [f \in DOMAIN Empty["serial"] |-> d[f]] /\ DOMAIN d = {"kind", "logFile", "stdio", "pty"}
  BY <1>1 DEF Sound
<1>7. IsDevice(d)
  BY <1>1, <1>4, <1>5, <1>6 DEF IsDevice
<1> QED
  BY <1>3, <1>7

\* What vfkit accepts as a network block device.
LEMMA SoundNbd ==
  ASSUME NEW d, Sound("nbd", d), d.kind = "nbd"
  PROVE  IsDevice(d) /\ d.uri # Comma /\ d.deviceId # Comma /\ d.timeout <= Int32Max
<1> DEFINE range == -Int32Max - 1 .. Int32Max
<1>1. /\ DOMAIN Empty["nbd"] = {"kind", "uri", "readonly", "deviceId", "timeout", "sync"}
      /\ Empty["nbd"].uri = "" /\ Empty["nbd"].deviceId = "" /\ Empty["nbd"].readonly \in BOOLEAN
      /\ Empty["nbd"].timeout = DefaultTimeout /\ "" # Comma /\ "nbd" \in DOMAIN Empty
  BY DEF Empty, Comma
<1>2. DefaultTimeout \in range /\ \A n \in range : n \in Int /\ n <= Int32Max
  BY NumbersAssumption
<1> HIDE DEF range
<1>3. \A key \in DOMAIN Rules["nbd"] :
        \/ Rules["nbd"][key] = Put("uri")
        \/ Rules["nbd"][key] = Put("deviceId")
        \/ Rules["nbd"][key] = Num("timeout", range)
        \/ Rules["nbd"][key] = OneOf("sync", {"full", "none"})
        \/ Rules["nbd"][key] = Bare("readonly", TRUE)
  <2>1. DOMAIN NbdRules = {"uri", "deviceId", "timeout", "sync", "readonly"}
    BY DEF NbdRules, StorageRules, Over
  <2>2. NbdRules["uri"] = Put("uri")
    BY DEF NbdRules, StorageRules, Over
  <2>3. NbdRules["deviceId"] = Put("deviceId")
    BY DEF NbdRules, StorageRules, Over
  <2>4. NbdRules["timeout"] = Num("timeout", range)
    BY DEF NbdRules, StorageRules, Over, range
  <2>5. NbdRules["sync"] = OneOf("sync", {"full", "none"})
    BY DEF NbdRules, StorageRules, Over
  <2>6. NbdRules["readonly"] = Bare("readonly", TRUE)
    BY DEF NbdRules, StorageRules, Over
  <2>7. Rules["nbd"] = NbdRules
    BY DEF Rules
  <2> QED
    BY <2>1, <2>2, <2>3, <2>4, <2>5, <2>6, <2>7
<1>a. /\ Put("uri").field = "uri"
      /\ Put("deviceId").field = "deviceId"
      /\ Num("timeout", range).field = "timeout"
      /\ OneOf("sync", {"full", "none"}).field = "sync"
      /\ Bare("readonly", TRUE).field = "readonly"
  BY DEF Put, Num, OneOf, Bare
<1>b. \A key \in DOMAIN Rules["nbd"] :
        /\ Rules["nbd"][key].field = "uri" => Rules["nbd"][key] = Put("uri")
        /\ Rules["nbd"][key].field = "deviceId" => Rules["nbd"][key] = Put("deviceId")
        /\ Rules["nbd"][key].field = "timeout" => Rules["nbd"][key] = Num("timeout", range)
        /\ Rules["nbd"][key].field = "sync" => Rules["nbd"][key] = OneOf("sync", {"full", "none"})
        /\ Rules["nbd"][key].field = "readonly" => Rules["nbd"][key] = Bare("readonly", TRUE)
  BY <1>3, <1>a
<1>5. d.uri # Comma /\ d.deviceId # Comma
  <2>1. "uri" \in DOMAIN Empty["nbd"] /\ Empty["nbd"]["uri"] # Comma
    BY <1>1
  <2>2. \A key \in DOMAIN Rules["nbd"] : Rules["nbd"][key].field = "uri" => Rules["nbd"][key] = Put("uri")
    BY <1>b
  <2>3. d["uri"] # Comma
    BY <2>1, <2>2, SoundText
  <2>4. "deviceId" \in DOMAIN Empty["nbd"] /\ Empty["nbd"]["deviceId"] # Comma
    BY <1>1
  <2>5. \A key \in DOMAIN Rules["nbd"] : Rules["nbd"][key].field = "deviceId" => Rules["nbd"][key] = Put("deviceId")
    BY <1>b
  <2>6. d["deviceId"] # Comma
    BY <2>4, <2>5, SoundText
  <2> QED
    BY <2>3, <2>6
<1>6. d.timeout \in range
  <2>1. "timeout" \in DOMAIN Empty["nbd"]
    BY <1>1
  <2>2. \A key \in DOMAIN Rules["nbd"] :
          Rules["nbd"][key].field = "timeout" => Rules["nbd"][key] = OneOf("timeout", range) \/ Rules["nbd"][key] = Num("timeout", range)
    BY <1>b
  <2>3. d["timeout"] = Empty["nbd"]["timeout"] \/ d["timeout"] \in range
    BY <2>1, <2>2, SoundValues
  <2> QED
    BY <2>3, <1>1, <1>2
<1>7. d.readonly \in BOOLEAN
  BY <1>1, <1>b, SoundSet
<1>8. d = [f \in DOMAIN Empty["nbd"] |-> d[f]] /\ DOMAIN d = {"kind", "uri", "readonly", "deviceId", "timeout", "sync"}
  BY <1>1 DEF Sound
<1>9. IsDevice(d)
  BY <1>1, <1>2, <1>6, <1>7, <1>8 DEF IsDevice
<1> QED
  BY <1>2, <1>5, <1>6, <1>9

\* What vfkit accepts as a disk.
LEMMA SoundDisk ==
  ASSUME NEW d, NEW kind \in {"nvme", "usb", "blk"}, Sound(kind, d), d.kind = kind
  PROVE  /\ IsDevice(d) /\ d.path # Comma /\ d.deviceId # Comma /\ d.type \in DiskTypes
         /\ kind # "blk" => d.deviceId = ""
<1>1. kind = "nvme" \/ kind = "usb" \/ kind = "blk"
  OBVIOUS
<1>2. Empty[kind] = Disk(kind) /\ kind \in DOMAIN Empty
  <2>1. CASE kind = "nvme"
    BY <2>1 DEF Empty
  <2>2. CASE kind = "usb"
    BY <2>2 DEF Empty
  <2>3. CASE kind = "blk"
    BY <2>3 DEF Empty
  <2> QED
    BY <1>1, <2>1, <2>2, <2>3
<1>3. /\ DOMAIN Disk(kind) = {"kind", "path", "type", "readonly", "deviceId"}
      /\ Disk(kind).path = "" /\ Disk(kind).type = "" /\ Disk(kind).readonly \in BOOLEAN
      /\ Disk(kind).deviceId = "" /\ "" # Comma /\ "" \in DiskTypes
  BY DEF Disk, Comma, DiskTypes
<1>4. Rules[kind] = IF kind = "blk" THEN BlkRules ELSE DiskRules
  BY DEF Rules
<1>5. \A key \in DOMAIN DiskRules :
        \/ DiskRules[key] = Put("path")
        \/ DiskRules[key] = OneOf("type", DiskTypes)
        \/ DiskRules[key] = Bare("readonly", TRUE)
  <2>1. DOMAIN DiskRules = {"path", "type", "readonly"}
    BY DEF DiskRules, StorageRules, Over
  <2>2. DiskRules["path"] = Put("path")
    BY DEF DiskRules, StorageRules, Over
  <2>3. DiskRules["type"] = OneOf("type", DiskTypes)
    BY DEF DiskRules, StorageRules, Over
  <2>4. DiskRules["readonly"] = Bare("readonly", TRUE)
    BY DEF DiskRules, StorageRules, Over
  <2> QED
    BY <2>1, <2>2, <2>3, <2>4
<1>6. \A key \in DOMAIN BlkRules :
        \/ key \in DOMAIN DiskRules /\ BlkRules[key] = DiskRules[key]
        \/ BlkRules[key] = Put("deviceId")
  BY DEF BlkRules, Over
<1>7. \A key \in DOMAIN Rules[kind] :
        \/ Rules[kind][key] = Put("path")
        \/ Rules[kind][key] = OneOf("type", DiskTypes)
        \/ Rules[kind][key] = Bare("readonly", TRUE)
        \/ kind = "blk" /\ Rules[kind][key] = Put("deviceId")
  BY <1>4, <1>5, <1>6
<1>a. /\ Put("path").field = "path"
      /\ OneOf("type", DiskTypes).field = "type"
      /\ Bare("readonly", TRUE).field = "readonly"
      /\ Put("deviceId").field = "deviceId"
  BY DEF Put, OneOf, Bare
<1>b. \A key \in DOMAIN Rules[kind] :
        /\ Rules[kind][key].field = "path" => Rules[kind][key] = Put("path")
        /\ Rules[kind][key].field = "type" => Rules[kind][key] = OneOf("type", DiskTypes)
        /\ Rules[kind][key].field = "readonly" => Rules[kind][key] = Bare("readonly", TRUE)
        /\ Rules[kind][key].field = "deviceId" => Rules[kind][key] = Put("deviceId")
  BY <1>7, <1>a
<1>8. d.path # Comma /\ d.deviceId # Comma
  <2>1. "path" \in DOMAIN Empty[kind] /\ Empty[kind]["path"] # Comma
    BY <1>2, <1>3
  <2>2. \A key \in DOMAIN Rules[kind] : Rules[kind][key].field = "path" => Rules[kind][key] = Put("path")
    BY <1>b
  <2>3. d["path"] # Comma
    BY <2>1, <2>2, SoundText
  <2>4. "deviceId" \in DOMAIN Empty[kind] /\ Empty[kind]["deviceId"] # Comma
    BY <1>2, <1>3
  <2>5. \A key \in DOMAIN Rules[kind] : Rules[kind][key].field = "deviceId" => Rules[kind][key] = Put("deviceId")
    BY <1>b
  <2>6. d["deviceId"] # Comma
    BY <2>4, <2>5, SoundText
  <2> QED
    BY <2>3, <2>6
<1>9. d.type \in DiskTypes
  <2>1. "type" \in DOMAIN Empty[kind]
    BY <1>2, <1>3
  <2>2. \A key \in DOMAIN Rules[kind] :
          Rules[kind][key].field = "type" => Rules[kind][key] = OneOf("type", DiskTypes) \/ Rules[kind][key] = Num("type", DiskTypes)
    BY <1>b
  <2>3. d["type"] = Empty[kind]["type"] \/ d["type"] \in DiskTypes
    BY <2>1, <2>2, SoundValues
  <2> QED
    BY <2>3, <1>2, <1>3
<1>10. d.readonly \in BOOLEAN
  <2>1. "readonly" \in DOMAIN Empty[kind] /\ Empty[kind]["readonly"] \in BOOLEAN
    BY <1>2, <1>3
  <2> QED
    BY <2>1, <1>b, SoundSet
<1>11. kind # "blk" => d.deviceId = ""
  <2> SUFFICES ASSUME kind # "blk" PROVE d["deviceId"] = ""
    OBVIOUS
  <2>1. \A key \in DOMAIN Rules[kind] : Rules[kind][key].field # "deviceId"
    BY <1>7, <1>a
  <2>2. "deviceId" \in DOMAIN Empty[kind] /\ Empty[kind]["deviceId"] = ""
    BY <1>2, <1>3
  <2>3. kind # "net"
    BY <1>1
  <2>4. \A f \in DOMAIN Empty[kind] :
          \/ d[f] = Empty[kind][f]
          \/ kind = "net"
          \/ \E key \in DOMAIN Rules[kind] : Rules[kind][key].field = f
    BY DEF Sound
  <2>5. \/ d["deviceId"] = Empty[kind]["deviceId"]
        \/ \E key \in DOMAIN Rules[kind] : Rules[kind][key].field = "deviceId"
    BY <2>2, <2>3, <2>4
  <2> QED
    BY <2>1, <2>2, <2>5
<1>12. d = [f \in DOMAIN Empty[kind] |-> d[f]] /\ DOMAIN d = {"kind", "path", "type", "readonly", "deviceId"}
  BY <1>2, <1>3 DEF Sound
<1>13. IsDevice(d)
  BY <1>2, <1>10, <1>12 DEF IsDevice
<1> QED
  BY <1>8, <1>9, <1>11, <1>13

\* What vfkit accepts as an interface: nothing in it would be refused.
LEMMA SoundNet ==
  ASSUME NEW d, Sound("net", d), d.kind = "net"
  PROVE  IsDevice(d) /\ ~NetRefused(d)
<1> DEFINE range == 0 .. Int32Max
<1>1. /\ DOMAIN Empty["net"] = {"kind", "nat", "mac", "fd", "path", "magic"} /\ Empty["net"].nat \in BOOLEAN
      /\ Empty["net"].mac = "" /\ Empty["net"].fd = NoFd /\ Empty["net"].path = "" /\ Empty["net"].magic = "off"
      /\ "" # Comma /\ "net" \in DOMAIN Empty
  BY DEF Empty, Comma
<1>2. NoFd \in Int /\ \A n \in range : n \in Int
  BY NumbersAssumption DEF NoFd
<1> HIDE DEF range
<1>3. \A key \in DOMAIN Rules["net"] :
        \/ Rules["net"][key] = Bare("nat", TRUE)
        \/ Rules["net"][key] = [sort |-> "mac", field |-> "mac"]
        \/ Rules["net"][key] = Num("fd", range)
        \/ Rules["net"][key] = Put("path")
        \/ Rules["net"][key] = Check("type", {"unixgram"})
        \/ Rules["net"][key] = Check("offloading", {"off"})
        \/ Rules["net"][key] = OneOf("magic", {"on", "off"})
  <2>1. DOMAIN NetRules = {"nat", "mac", "fd", "unixSocketPath", "path", "type", "offloading", "vfkitMagic"}
    BY DEF NetRules
  <2>2. NetRules["nat"] = Bare("nat", TRUE)
    BY DEF NetRules
  <2>3. NetRules["mac"] = [sort |-> "mac", field |-> "mac"]
    BY DEF NetRules
  <2>4. NetRules["fd"] = Num("fd", range)
    BY DEF NetRules, range
  <2>5. NetRules["unixSocketPath"] = Put("path")
    BY DEF NetRules
  <2>6. NetRules["path"] = Put("path")
    BY DEF NetRules
  <2>7. NetRules["type"] = Check("type", {"unixgram"})
    BY DEF NetRules
  <2>8. NetRules["offloading"] = Check("offloading", {"off"})
    BY DEF NetRules
  <2>9. NetRules["vfkitMagic"] = OneOf("magic", {"on", "off"})
    BY DEF NetRules
  <2>10. Rules["net"] = NetRules
    BY DEF Rules
  <2> QED
    BY <2>1, <2>2, <2>3, <2>4, <2>5, <2>6, <2>7, <2>8, <2>9, <2>10
<1>a. /\ [sort |-> "mac", field |-> "mac"].field = "mac"
      /\ [sort |-> "mac", field |-> "mac"].sort = "mac"
      /\ Bare("nat", TRUE).field = "nat"
      /\ Num("fd", range).field = "fd"
      /\ Put("path").field = "path"
      /\ Check("type", {"unixgram"}).field = "type"
      /\ Check("offloading", {"off"}).field = "offloading"
      /\ OneOf("magic", {"on", "off"}).field = "magic"
  BY DEF Put, Num, OneOf, Bare, Check
<1>b. \A key \in DOMAIN Rules["net"] :
        /\ Rules["net"][key].field = "nat" => Rules["net"][key] = Bare("nat", TRUE)
        /\ Rules["net"][key].field = "fd" => Rules["net"][key] = Num("fd", range)
        /\ Rules["net"][key].field = "path" => Rules["net"][key] = Put("path")
        /\ Rules["net"][key].field = "mac" => Rules["net"][key].sort = "mac"
        /\ Rules["net"][key].field = "magic" => Rules["net"][key] = OneOf("magic", {"on", "off"})
  <2> SUFFICES ASSUME NEW key \in DOMAIN Rules["net"]
               PROVE  LET rule == Rules["net"][key]
                      IN  /\ rule.field = "nat" => rule = Bare("nat", TRUE)
                          /\ rule.field = "fd" => rule = Num("fd", range)
                          /\ rule.field = "path" => rule = Put("path")
                          /\ rule.field = "mac" => rule.sort = "mac"
                          /\ rule.field = "magic" => rule = OneOf("magic", {"on", "off"})
    OBVIOUS
  <2> DEFINE rule == Rules["net"][key]
             mac == [sort |-> "mac", field |-> "mac"]
             unixgram == Check("type", {"unixgram"})
             off == Check("offloading", {"off"})
             magic == OneOf("magic", {"on", "off"})
             nat == Bare("nat", TRUE)
  <2>1. rule = nat \/ rule = mac \/ rule = Num("fd", range) \/ rule = Put("path") \/ rule = unixgram \/ rule = off \/ rule = magic
    BY <1>3
  <2>2. /\ nat.field = "nat" /\ mac.field = "mac" /\ mac.sort = "mac" /\ Num("fd", range).field = "fd" /\ Put("path").field = "path"
        /\ unixgram.field = "type" /\ off.field = "offloading" /\ magic.field = "magic"
    BY <1>a
  <2> HIDE DEF rule, mac, unixgram, off, magic, nat
  <2>3. /\ rule.field = "nat" => rule = nat
        /\ rule.field = "fd" => rule = Num("fd", range)
        /\ rule.field = "path" => rule = Put("path")
        /\ rule.field = "mac" => rule.sort = "mac"
        /\ rule.field = "magic" => rule = magic
    BY <2>1, <2>2
  <2> QED
    BY <2>3 DEF rule, nat, magic
<1>5. d.path # Comma
  <2>1. "path" \in DOMAIN Empty["net"] /\ Empty["net"]["path"] # Comma
    BY <1>1
  <2>2. \A key \in DOMAIN Rules["net"] : Rules["net"][key].field = "path" => Rules["net"][key] = Put("path")
    BY <1>b
  <2>3. d["path"] # Comma
    BY <2>1, <2>2, SoundText
  <2> QED
    BY <2>3
<1>6. d.mac = "" \/ (d.mac \in DOMAIN ParseMAC /\ ParseMAC[d.mac] = d.mac)
  <2>1. \A key \in DOMAIN Rules["net"] : Rules["net"][key].field = "mac" => Rules["net"][key].sort = "mac"
    BY <1>b
  <2>2. "mac" \in DOMAIN Empty["net"] /\ Empty["net"]["mac"] = "" /\ "mac" # "magic"
    BY <1>1
  <2>3. \/ d["mac"] = ""
        \/ \E key \in DOMAIN Rules["net"] : Rules["net"][key].field = "mac" /\ Fits(Rules["net"][key], d["mac"])
    BY <2>2 DEF Sound
  <2>4. \A key \in DOMAIN Rules["net"] :
          Rules["net"][key].field = "mac" /\ Fits(Rules["net"][key], d["mac"]) =>
            d["mac"] \in DOMAIN ParseMAC /\ ParseMAC[d["mac"]] = d["mac"]
    BY <2>1 DEF Fits
  <2> QED
    BY <2>3, <2>4
<1>7. d.fd = NoFd \/ d.fd \in range
  <2>1. "fd" \in DOMAIN Empty["net"]
    BY <1>1
  <2>2. \A key \in DOMAIN Rules["net"] :
          Rules["net"][key].field = "fd" => Rules["net"][key] = OneOf("fd", range) \/ Rules["net"][key] = Num("fd", range)
    BY <1>b
  <2>3. d["fd"] = Empty["net"]["fd"] \/ d["fd"] \in range
    BY <2>1, <2>2, SoundValues
  <2> QED
    BY <2>3, <1>1, <1>2
<1>8. d.nat \in BOOLEAN
  BY <1>1, <1>b, SoundSet
<1>9. d.magic \in {"on", "off"}
  <2> DEFINE V == {"on", "off"}
  <2>1. \A key \in DOMAIN Rules["net"] : Rules["net"][key].field = "magic" => Rules["net"][key] = OneOf("magic", V)
    BY <1>b
  <2> HIDE DEF V
  <2>2. "magic" \in DOMAIN Empty["net"]
    BY <1>1
  <2>3. d["magic"] = Empty["net"]["magic"] \/ d["magic"] \in V \/ d["magic"] = "on"
    BY <2>1, <2>2, SoundValues
  <2> QED
    BY <2>3, <1>1 DEF V
<1>10. d = [f \in DOMAIN Empty["net"] |-> d[f]] /\ DOMAIN d = {"kind", "nat", "mac", "fd", "path", "magic"}
  BY <1>1 DEF Sound
<1>11. IsDevice(d)
  <2>1. ASSUME NEW f \in DOMAIN d
        PROVE  /\ f \in {"readonly", "nat", "stdio", "pty", "usesGUI", "listen", "install", "ignore"} => d[f] \in BOOLEAN
               /\ f \in {"timeout", "fd", "width", "height", "port"} => d[f] \in Int
               /\ f = "magic" => d[f] \in {"on", "off"}
               /\ f = "mac" => (d[f] \in DOMAIN ParseMAC => ParseMAC[d[f]] = d[f])
    <3>1. CASE f = "kind"
      BY <3>1
    <3>2. CASE f = "nat"
      BY <3>2, <1>8
    <3>3. CASE f = "mac"
      BY <3>3, <1>6, ParseMACAssumption
    <3>4. CASE f = "fd"
      BY <3>4, <1>2, <1>7
    <3>5. CASE f = "path"
      BY <3>5
    <3>6. CASE f = "magic"
      BY <3>6, <1>9
    <3> QED
      BY <3>1, <3>2, <3>3, <3>4, <3>5, <3>6, <1>10
  <2> QED
    BY <2>1, <1>1, <1>10 DEF IsDevice
<1> QED
  BY <1>5, <1>6, <1>7, <1>11 DEF NetRefused, range

------------------------------------------------------------------------------
\* A device written and read again.

\* What a line carries of a device it carries again, and a device is no error.
LEMMA CarriedOnce ==
  ASSUME NEW d, IsDevice(d)
  PROVE  Carried(Carried(d)) = Carried(d) /\ Carried(d) # Error /\ d # Error
<1>1. d.kind \in Kinds /\ d = [f \in DOMAIN Empty[d.kind] |-> d[f]]
  BY DEF IsDevice, Kinds
<1>2. d # Error
  BY <1>1, KindsAre DEF Error
<1>3. CASE d.kind = "gpu"
  <2>1. {"usesGUI", "kind"} \subseteq DOMAIN d
    <3>1. {"usesGUI", "kind"} \subseteq DOMAIN Empty["gpu"]
      BY DEF Empty
    <3> QED
      BY <1>1, <1>3, <3>1
  <2> DEFINE c == [d EXCEPT !.usesGUI = FALSE]
  <2>2. Carried(d) = c
    BY <1>3 DEF Carried
  <2>3. c.kind = "gpu" /\ c = [f \in DOMAIN d |-> c[f]] /\ DOMAIN c = DOMAIN d
    BY <1>1, <1>3, <2>1
  <2>4. c.usesGUI = FALSE
    BY <2>1
  <2> HIDE DEF c
  <2>5. Carried(c) = [c EXCEPT !.usesGUI = FALSE]
    BY <2>3 DEF Carried
  <2>6. [c EXCEPT !.usesGUI = FALSE] = c
    BY <2>1, <2>3, <2>4
  <2> QED
    BY <1>2, <2>2, <2>3, <2>5, <2>6 DEF Error
<1>4. CASE d.kind = "net"
  <2>1. {"magic", "path", "kind"} \subseteq DOMAIN d
    <3>1. {"magic", "path", "kind"} \subseteq DOMAIN Empty["net"]
      BY DEF Empty
    <3> QED
      BY <1>1, <1>4, <3>1
  <2> DEFINE c == [d EXCEPT !.magic = IF d.path = "" THEN "off" ELSE @]
  <2>2. Carried(d) = c
    BY <1>4 DEF Carried
  <2>3. c.kind = "net" /\ c.path = d.path /\ c.magic = (IF d.path = "" THEN "off" ELSE d.magic) /\ "magic" \in DOMAIN c
        /\ c = [f \in DOMAIN d |-> c[f]] /\ DOMAIN c = DOMAIN d
    BY <1>1, <1>4, <2>1
  <2> HIDE DEF c
  <2>4. Carried(c) = [c EXCEPT !.magic = IF c.path = "" THEN "off" ELSE @]
    BY <2>3 DEF Carried
  <2>5. [c EXCEPT !.magic = IF c.path = "" THEN "off" ELSE @] = c
    BY <2>3
  <2> QED
    BY <1>2, <2>2, <2>3, <2>4, <2>5 DEF Error
<1>5. CASE d.kind = "nbd"
  <2>1. {"timeout", "sync", "kind"} \subseteq DOMAIN d /\ d.timeout \in Int
    <3>1. {"timeout", "sync", "kind"} \subseteq DOMAIN Empty["nbd"]
      BY DEF Empty
    <3>2. {"timeout", "sync", "kind"} \subseteq DOMAIN d
      BY <1>1, <1>5, <3>1
    <3> QED
      BY <3>2 DEF IsDevice
  <2> DEFINE c == [d EXCEPT !.timeout = IF @ > 0 THEN @ ELSE DefaultTimeout, !.sync = IF @ = "none" THEN @ ELSE "full"]
  <2>2. Carried(d) = c
    BY <1>5 DEF Carried
  <2>3. c.kind = "nbd" /\ c.timeout > 0 /\ c.sync \in {"none", "full"}
        /\ c = [f \in DOMAIN d |-> c[f]] /\ DOMAIN c = DOMAIN d
    <3>1. c = [f \in DOMAIN d |-> c[f]] /\ DOMAIN c = DOMAIN d
      BY <1>1
    <3>2. c.kind = "nbd"
      BY <1>1, <1>5, <2>1
    <3>3. c.timeout = IF d.timeout > 0 THEN d.timeout ELSE DefaultTimeout
      BY <1>1, <2>1
    <3>4. c.sync = IF d.sync = "none" THEN "none" ELSE "full"
      BY <1>1, <2>1
    <3> HIDE DEF c
    <3> QED
      BY <2>1, <3>1, <3>2, <3>3, <3>4, NumbersAssumption
  <2> HIDE DEF c
  <2>4. Carried(c) = [c EXCEPT !.timeout = IF @ > 0 THEN @ ELSE DefaultTimeout, !.sync = IF @ = "none" THEN @ ELSE "full"]
    BY <2>3 DEF Carried
  <2>5. [c EXCEPT !.timeout = IF @ > 0 THEN @ ELSE DefaultTimeout, !.sync = IF @ = "none" THEN @ ELSE "full"] = c
    BY <2>1, <2>3
  <2> QED
    BY <1>2, <2>2, <2>3, <2>4, <2>5 DEF Error
<1>6. CASE d.kind \notin {"gpu", "net", "nbd"}
  BY <1>2, <1>6 DEF Carried
<1> QED
  BY <1>3, <1>4, <1>5, <1>6

\* A device that ToCmdLine writes is read as itself, as what the line carries of
\* it, or refused.
LEMMA RereadIs ==
  ASSUME NEW d, IsDevice(d), CanWrite(d)
  PROVE  Reread(d) = Error \/ Reread(d) = d \/ Reread(d) = Carried(d)
<1>1. d.kind \in Kinds
  BY DEF IsDevice, Kinds
<1>2. CASE d.kind \in {"nvme", "usb", "blk"}
  BY <1>2, DiskRead
<1>3. CASE d.kind = "nbd"
  BY <1>3, NbdRead
<1>4. CASE d.kind = "net"
  BY <1>4, NetRead
<1>5. CASE d.kind = "serial"
  BY <1>5, SerialRead
<1>6. CASE d.kind = "input"
  BY <1>6, InputRead
<1>7. CASE d.kind = "gpu"
  BY <1>7, GpuRead
<1>8. CASE d.kind = "vsock"
  BY <1>8, VsockRead
<1>9. CASE d.kind = "fs"
  BY <1>9, FsRead
<1>10. CASE d.kind = "rosetta"
  BY <1>10, RosettaRead
<1>11. CASE d.kind \in {"rng", "balloon"}
  BY <1>11, BareRead
<1>12. CASE d.kind = "timesync"
  BY <1>12, TimeSyncRead
<1> QED
  BY <1>1, <1>2, <1>3, <1>4, <1>5, <1>6, <1>7, <1>8, <1>9, <1>10, <1>11, <1>12, KindsAre

\* So it is never read as another device.
LEMMA RereadCarries ==
  ASSUME NEW d, IsDevice(d), CanWrite(d)
  PROVE  Reread(d) = Error \/ Carried(Reread(d)) = Carried(d)
BY RereadIs, CarriedOnce

\* Only a GPU has defaults that are set after its options are read.
LEMMA DefaultsOnlyGpu ==
  ASSUME NEW d, d.kind # "gpu"
  PROVE  WithDefaults(d) = d
BY DEF WithDefaults

\* With them it is a GPU.
LEMMA GpuParsed ==
  ASSUME NEW e, Sound("gpu", e), e.kind = "gpu"
  PROVE  IsDevice(WithDefaults(e)) /\ WithDefaults(e).kind = "gpu"
<1>1. IsDevice(e) /\ e.usesGUI = FALSE /\ e.width \in Nat /\ e.height \in Nat
  BY SoundGpu
<1> DEFINE d == [e EXCEPT !.width = DefaultWidth, !.height = DefaultHeight]
<1>2. /\ DOMAIN Empty["gpu"] = {"kind", "width", "height", "usesGUI"} /\ "gpu" \in DOMAIN Empty
  BY DEF Empty
<1>3. e = [f \in DOMAIN Empty["gpu"] |-> e[f]] /\ DOMAIN e = DOMAIN Empty["gpu"]
  BY <1>1 DEF IsDevice
<1>4. /\ d = [f \in DOMAIN Empty["gpu"] |-> d[f]] /\ DOMAIN d = DOMAIN Empty["gpu"]
      /\ d.kind = "gpu" /\ d.width = DefaultWidth /\ d.height = DefaultHeight /\ d.usesGUI = FALSE
  BY <1>1, <1>2, <1>3
<1>5. DefaultWidth \in Int /\ DefaultHeight \in Int
  BY NumbersAssumption
<1> HIDE DEF d
<1>6. ASSUME NEW f \in DOMAIN d
      PROVE  /\ f \in {"readonly", "nat", "stdio", "pty", "usesGUI", "listen", "install", "ignore"} => d[f] \in BOOLEAN
             /\ f \in {"timeout", "fd", "width", "height", "port"} => d[f] \in Int
             /\ f = "magic" => d[f] \in {"on", "off"}
             /\ f = "mac" => (d[f] \in DOMAIN ParseMAC => ParseMAC[d[f]] = d[f])
  <2>1. CASE f = "kind"
    BY <2>1
  <2>2. CASE f = "width"
    BY <2>2, <1>4, <1>5
  <2>3. CASE f = "height"
    BY <2>3, <1>4, <1>5
  <2>4. CASE f = "usesGUI"
    BY <2>4, <1>4
  <2> QED
    BY <2>1, <2>2, <2>3, <2>4, <1>2, <1>4
<1>7. IsDevice(d)
  BY <1>2, <1>4, <1>6 DEF IsDevice
<1>8. WithDefaults(e) = d \/ WithDefaults(e) = e
  BY DEF WithDefaults, d
<1> QED
  BY <1>1, <1>4, <1>7, <1>8

\* A device that vfkit accepted has the type of its kind, and the line that
\* ToCmdLine writes of it is accepted.
LEMMA ParsedDevice ==
  ASSUME NEW O, NEW l, l.kind \in Kinds, l.options \in Seq(O), DeviceFromCmdLine(l) # Error
  PROVE  LET d == DeviceFromCmdLine(l)
         IN  IsDevice(d) /\ d.kind = l.kind /\ (CanWrite(d) => Reread(d) # Error)
<1> DEFINE d == DeviceFromCmdLine(l)
<1>1. PICK e : Sound(l.kind, e) /\ e.kind = l.kind /\ d = WithDefaults(e) /\ Valid(WithDefaults(e))
  BY ReadSound
<1> HIDE DEF d
<1>2. l.kind # "gpu" => d = e
  BY <1>1, DefaultsOnlyGpu
<1>3. CASE l.kind \in {"nvme", "usb", "blk"}
  <2>1. /\ IsDevice(d) /\ d.path # Comma /\ d.deviceId # Comma /\ d.type \in DiskTypes
        /\ l.kind # "blk" => d.deviceId = ""
    BY <1>1, <1>2, <1>3, SoundDisk
  <2>2. d.kind = "blk" => d.path \in RawFiles
    BY <1>1, <1>2, <1>3 DEF Valid, BlkValid
  <2>3. Reread(d) = d /\ d # Error
    BY <1>1, <1>2, <1>3, <2>1, <2>2, DiskRead, CarriedOnce
  <2> QED
    BY <1>1, <1>2, <1>3, <2>1, <2>3 DEF d
<1>4. CASE l.kind = "nbd"
  <2>1. IsDevice(d) /\ d.uri # Comma /\ d.deviceId # Comma /\ d.timeout <= Int32Max
    BY <1>1, <1>2, <1>4, SoundNbd
  <2>2. d.timeout \in Int
    <3>1. "timeout" \in DOMAIN Empty["nbd"]
      BY DEF Empty
    <3> QED
      BY <2>1, <3>1, <1>1, <1>2, <1>4 DEF IsDevice
  <2>3. Reread(d) # Error
    BY <1>1, <1>2, <1>4, <2>1, <2>2, NumbersAssumption, NbdRead, CarriedOnce
  <2> QED
    BY <1>1, <1>2, <1>4, <2>1, <2>3 DEF d
<1>5. CASE l.kind = "net"
  <2>1. IsDevice(d) /\ ~NetRefused(d)
    BY <1>1, <1>2, <1>5, SoundNet
  <2>2. CanWrite(d) => Reread(d) # Error
    BY <1>1, <1>2, <1>5, <2>1, NetRead, CarriedOnce
  <2> QED
    BY <1>1, <1>2, <1>5, <2>1, <2>2 DEF d
<1>6. CASE l.kind = "serial"
  <2>1. IsDevice(d) /\ d.logFile # Comma
    BY <1>1, <1>2, <1>6, SoundSerial
  <2>2. CanWrite(d) => Reread(d) # Error
    BY <1>1, <1>2, <1>6, <2>1, SerialRead, CarriedOnce
  <2> QED
    BY <1>1, <1>2, <1>6, <2>1, <2>2 DEF d
<1>7. CASE l.kind = "input"
  <2>1. IsDevice(d)
    BY <1>1, <1>2, <1>7, SoundInput
  <2>2. CanWrite(d) => Reread(d) # Error
    BY <1>1, <1>2, <1>7, <2>1, InputRead, CarriedOnce
  <2> QED
    BY <1>1, <1>2, <1>7, <2>1, <2>2 DEF d
<1>8. CASE l.kind = "gpu"
  <2>1. IsDevice(d) /\ d.kind = "gpu"
    BY <1>1, <1>8, GpuParsed
  <2>2. CanWrite(d) => Reread(d) # Error
    BY <2>1, GpuRead, CarriedOnce
  <2> QED
    BY <1>8, <2>1, <2>2 DEF d
<1>9. CASE l.kind = "vsock"
  <2>1. IsDevice(d) /\ d.url # Comma /\ d.port \in 0 .. Uint32Max
    BY <1>1, <1>2, <1>9, SoundVsock
  <2>2. Reread(d) # Error
    BY <1>1, <1>2, <1>9, <2>1, VsockRead, CarriedOnce
  <2> QED
    BY <1>1, <1>2, <1>9, <2>1, <2>2 DEF d
<1>10. CASE l.kind = "fs"
  <2>1. IsDevice(d) /\ d.dir # Comma /\ d.tag # Comma
    BY <1>1, <1>2, <1>10, SoundFs
  <2>2. Reread(d) # Error
    BY <1>1, <1>2, <1>10, <2>1, FsRead, CarriedOnce
  <2> QED
    BY <1>1, <1>2, <1>10, <2>1, <2>2 DEF d
<1>11. CASE l.kind = "rosetta"
  <2>1. IsDevice(d) /\ d.tag # Comma
    BY <1>1, <1>2, <1>11, SoundRosetta
  <2>2. Reread(d) # Error
    BY <1>1, <1>2, <1>11, <2>1, RosettaRead, CarriedOnce
  <2> QED
    BY <1>1, <1>2, <1>11, <2>1, <2>2 DEF d
<1>12. CASE l.kind \in {"rng", "balloon"}
  <2>1. IsDevice(d)
    BY <1>1, <1>2, <1>12, SoundBare
  <2>2. Reread(d) # Error
    BY <1>1, <1>2, <1>12, <2>1, BareRead, CarriedOnce
  <2> QED
    BY <1>1, <1>2, <1>12, <2>1, <2>2 DEF d
<1>13. CASE l.kind = "timesync"
  <2>1. IsDevice(d) /\ d.port \in 0 .. Uint32Max /\ d.port # 0
    BY <1>1, <1>2, <1>13, SoundTimeSync DEF Valid
  <2>2. d.port \in 1 .. Uint32Max
    BY <2>1, NumbersAssumption
  <2>3. Reread(d) # Error
    BY <1>1, <1>2, <1>13, <2>1, <2>2, TimeSyncRead, CarriedOnce
  <2> QED
    BY <1>1, <1>2, <1>13, <2>1, <2>3 DEF d
<1> QED
  BY <1>3, <1>4, <1>5, <1>6, <1>7, <1>8, <1>9, <1>10, <1>11, <1>12, <1>13, KindsAre

------------------------------------------------------------------------------
\* The invariant of the specification, and the theorems about devices.

\* Where a device, a machine, a list and an address come from.
DeviceKnown ==
  \/ line \in Lines /\ dev = DeviceFromCmdLine(line) /\ dev # Error
  \/ line = NoLine /\ dev \in Built

\* What is known of a device in each phase.
DeviceInv ==
  /\ phase = "typed" => line \in Lines
  /\ phase = "parsed" => line \in Lines /\ dev = DeviceFromCmdLine(line) /\ dev # Error
  /\ phase = "built" => line = NoLine /\ dev \in Built
  /\ phase = "refused" => line = NoLine \/ (line \in Lines /\ dev = DeviceFromCmdLine(line))
  /\ phase \in {"written", "read"} => DeviceKnown /\ CanWrite(dev) /\ written = [kind |-> dev.kind, options |-> Options(dev)]
  /\ phase = "read" => back = Reread(dev)

\* A machine was parsed from a command line or built by a program.
VmKnown ==
  \/ line \in TypedVms /\ dev = NewVMConfiguration(line) /\ dev # Error
  \/ line = NoLine /\ dev \in BuiltVms

\* What is known of a machine in each phase.
VmInv ==
  /\ phase = "vmTyped" => line \in TypedVms
  /\ phase \in {"vmParsed", "vmBuilt", "vmWritten", "vmRead", "inspected", "unmarshalled"} => VmKnown
  /\ phase \in {"vmWritten", "vmRead"} => CanWriteVm(dev) /\ written = [args |-> Args(dev), files |-> ExtraFiles(dev)]
  /\ phase = "vmRead" => back = NewVMConfiguration(Args(dev))
  /\ phase = "inspected" => written = MarshalJSON(dev)
  /\ phase = "unmarshalled" => back = UnmarshalJSON(MarshalJSON(dev))

\* What is known of a list and of an address in each phase.
OthersInv ==
  /\ phase = "listTyped" => line \in TypedLists
  /\ phase = "listRead" => line \in TypedLists /\ dev = SetEach(line)
  /\ phase = "uriTyped" => line \in TypedURIs
  /\ phase \in {"uriParsed", "uriRead"} => line \in TypedURIs /\ dev = NewEndpoint(line) /\ dev # BadURI
  /\ phase = "uriRead" => back = NewEndpoint(EndpointToCmdLine(dev))

\* The inductive invariant: whatever is read was written from what is described.
DescInv == DeviceInv /\ VmInv /\ OthersInv

\* It holds at first.
LEMMA DescInitInv == DescInit => DescInv
<1> SUFFICES ASSUME DescInit PROVE DescInv
  OBVIOUS
<1>1. CASE Init
  BY <1>1 DEF Init, DescInv, DeviceInv, VmInv, OthersInv
<1>2. CASE phase \in {"vmTyped", "vmBuilt", "listTyped", "uriTyped"}
  BY <1>2 DEF DescInit, Init, DescInv, DeviceInv, VmInv, OthersInv, VmKnown
<1> QED
  BY <1>1, <1>2 DEF DescInit

\* Every step keeps it.
LEMMA DescNextInv == DescInv /\ [DescNext]_vars => DescInv'
<1> SUFFICES ASSUME DescInv, [DescNext]_vars PROVE DescInv'
  OBVIOUS
<1> USE DEF DescInv, DeviceInv, VmInv, OthersInv, DeviceKnown, VmKnown
<1>1. CASE Parse
  BY <1>1 DEF Parse
<1>2. CASE ToCmdLine
  BY <1>2 DEF ToCmdLine
<1>3. CASE ReadBack
  BY <1>3 DEF ReadBack, Reread
<1>4. CASE ParseVm
  BY <1>4 DEF ParseVm
<1>5. CASE Cmd
  BY <1>5 DEF Cmd
<1>6. CASE StartVfkit
  BY <1>6 DEF StartVfkit
<1>7. CASE Inspect
  BY <1>7 DEF Inspect
<1>8. CASE Unmarshal
  BY <1>8 DEF Unmarshal
<1>9. CASE SetList
  BY <1>9 DEF SetList
<1>10. CASE ParseURI
  BY <1>10 DEF ParseURI
<1>11. CASE WriteURI
  BY <1>11 DEF WriteURI
<1>12. CASE UNCHANGED vars
  BY <1>12 DEF vars
<1> QED
  BY <1>1, <1>2, <1>3, <1>4, <1>5, <1>6, <1>7, <1>8, <1>9, <1>10, <1>11, <1>12
     DEF DescNext, Next, Done, DescDone

\* In every phase, the description is the one that was parsed or built, what is
\* written is made of it, and what is read is made of that.
THEOREM DescAlways == DescSpec => []DescInv
BY DescInitInv, DescNextInv, PTL DEF DescSpec

\* The lines a user types have a kind and a list of options.
LEMMA LinesTyped ==
  ASSUME NEW l \in Lines
  PROVE  l.kind \in Kinds /\ l # NoLine /\ \E O : l.options \in Seq(O)
<1>1. PICK k \in DOMAIN Typed, n \in 0 .. MaxOptions : l \in [kind : {k}, options : [1 .. n -> Typed[k]]]
  BY DEF Lines
<1>2. l.kind = k /\ l.options \in [1 .. n -> Typed[k]] /\ n \in Nat
  BY <1>1, MaxOptionsAssumption
<1>3. l.options \in Seq(Typed[k])
  BY <1>2
<1>4. k \in Kinds
  BY TypedAssumption DEF Kinds
<1>5. l # NoLine
  BY <1>2, <1>4, KindsAre DEF NoLine
<1> QED
  BY <1>2, <1>3, <1>4, <1>5

\* For every device a program builds, of any kind and with any texts and numbers,
\* the vfkit it starts refuses the line that ToCmdLine writes or reads that device.
THEOREM DescNeverAnother == DescSpec => []NeverAnother
<1>1. DescInv => NeverAnother
  <2> SUFFICES ASSUME DescInv, phase = "read" PROVE back = Error \/ Carried(back) = Carried(dev)
    BY DEF NeverAnother
  <2>1. DeviceKnown /\ CanWrite(dev) /\ back = Reread(dev)
    BY DEF DescInv, DeviceInv
  <2>2. IsDevice(dev)
    <3>1. CASE line \in Lines /\ dev = DeviceFromCmdLine(line) /\ dev # Error
      BY <3>1, LinesTyped, ParsedDevice
    <3>2. CASE dev \in Built
      BY <3>2, BuiltAssumption
    <3> QED
      BY <2>1, <3>1, <3>2 DEF DeviceKnown
  <2> QED
    BY <2>1, <2>2, RereadCarries
<1> QED
  BY <1>1, DescAlways, PTL

\* For every line of options that a user types, a device that vfkit accepted and
\* wrote with ToCmdLine is accepted by the next vfkit as the same device.
THEOREM DescRereadSame == DescSpec => []RereadSame
<1>1. DescInv => RereadSame
  <2> SUFFICES ASSUME DescInv, phase = "read", line # NoLine PROVE back # Error /\ Carried(back) = Carried(dev)
    BY DEF RereadSame
  <2>1. DeviceKnown /\ CanWrite(dev) /\ back = Reread(dev)
    BY DEF DescInv, DeviceInv
  <2>2. line \in Lines /\ dev = DeviceFromCmdLine(line) /\ dev # Error
    BY <2>1 DEF DeviceKnown
  <2>3. IsDevice(dev) /\ Reread(dev) # Error
    BY <2>1, <2>2, LinesTyped, ParsedDevice
  <2> QED
    BY <2>1, <2>3, RereadCarries
<1> QED
  BY <1>1, DescAlways, PTL

\* For every line of options of which no two decide on the same field, every order
\* of them is read by FromOptions as the same device, or refused.
THEOREM DescOrderFree == DescSpec => []OrderFree
<1>1. DescInv => OrderFree
  <2> SUFFICES ASSUME DescInv, phase \in {"parsed", "refused"}, line # NoLine, Independent(line),
                      NEW options \in SetToSeqs(ToSet(line.options))
               PROVE  DeviceFromCmdLine([kind |-> line.kind, options |-> options]) = dev
    BY DEF OrderFree
  <2>1. line \in Lines /\ dev = DeviceFromCmdLine(line)
    BY DEF DescInv, DeviceInv
  <2>2. line.kind \in Kinds /\ \E O : line.options \in Seq(O)
    BY <2>1, LinesTyped
  <2>3. Lists(line.kind, line.options, ToSet(line.options)) /\ Lists(line.kind, options, ToSet(line.options))
    BY <2>2, PermutedLists
  <2>4. DeviceFromCmdLine([kind |-> line.kind, options |-> line.options])
          = DeviceFromCmdLine([kind |-> line.kind, options |-> options])
    BY <2>2, <2>3, SameSetSameDevice
  <2>5. DeviceFromCmdLine([kind |-> line.kind, options |-> line.options]) = DeviceFromCmdLine(line)
    BY DEF DeviceFromCmdLine
  <2> QED
    BY <2>1, <2>4, <2>5
<1> QED
  BY <1>1, DescAlways, PTL

------------------------------------------------------------------------------
\* The address of the RESTful service, and the memory.

\* What the first n characters become.
LEMMA UnescapeUnfolds ==
  ASSUME NEW s, Len(s) \in Nat
  PROVE  \E u : /\ UnescapeAll(s) = u[Len(s)]
                /\ u[0] = [ok |-> TRUE, escape |-> FALSE, text |-> <<>>]
                /\ \A n \in 1 .. Len(s) : u[n] = Unescape(u[n - 1], s[n])
<1> DEFINE first == [ok |-> TRUE, escape |-> FALSE, text |-> <<>>]
           Def(u, m) == u = [n \in 0 .. m |-> IF n = 0 THEN first ELSE Unescape(u[n - 1], s[n])]
           S == {m \in Nat : \E u : Def(u, m)}
           c == CHOOSE u : Def(u, Len(s))
<1>0. UnescapeAll(s) = c[Len(s)]
  BY DEF UnescapeAll
<1> HIDE DEF first
<1>1. 0 \in S
  <2>1. Def([n \in 0 .. 0 |-> first], 0)
    OBVIOUS
  <2> QED
    BY <2>1
<1>2. ASSUME NEW m \in Nat, m \in S PROVE m + 1 \in S
  <2>1. PICK u : Def(u, m)
    BY <1>2
  <2> DEFINE e == [n \in 0 .. m + 1 |-> IF n = m + 1 THEN Unescape(u[m], s[m + 1]) ELSE u[n]]
  <2>2. Def(e, m + 1)
    BY <2>1
  <2>3. \E x : Def(x, m + 1)
    <3> HIDE DEF e, Def
    <3> QED
      BY <2>2
  <2> QED
    BY <2>3
<1>3. Len(s) \in S
  <2> HIDE DEF S
  <2> QED
    BY <1>1, <1>2, Induction
<1>4. PICK u : Def(u, Len(s))
  BY <1>3
<1>5. Def(c, Len(s))
  BY <1>4
<1> HIDE DEF c
<1>6. c[0] = first /\ \A n \in 1 .. Len(s) : c[n] = Unescape(c[n - 1], s[n])
  BY <1>5
<1> QED
  BY <1>0, <1>6 DEF first

\* One character of a path.
LEMMA UnescapeStep ==
  ASSUME NEW D, {"%", "?"} \subseteq D, NEW v, DOMAIN v = {"ok", "escape", "text"}, v.text \in Seq(D), NEW c \in D
  PROVE  DOMAIN Unescape(v, c) = {"ok", "escape", "text"} /\ Unescape(v, c).text \in Seq(D)
<1>1. CASE v.escape
  <2> DEFINE text == IF c \in DOMAIN Escapes THEN Append(v.text, Escapes[c]) ELSE v.text
  <2>1. text \in Seq(D)
    BY DEF Escapes
  <2> HIDE DEF text
  <2>2. Unescape(v, c) = [ok |-> v.ok /\ c \in DOMAIN Escapes, escape |-> FALSE, text |-> text]
    BY <1>1 DEF Unescape, text
  <2> QED
    BY <1>1, <2>1, <2>2
<1>2. CASE ~v.escape /\ c = "%"
  <2>1. Unescape(v, c) = [v EXCEPT !.escape = TRUE]
    BY <1>2 DEF Unescape
  <2> QED
    BY <1>2, <2>1
<1>3. CASE ~v.escape /\ c # "%"
  <2>1. Unescape(v, c) = [v EXCEPT !.text = Append(v.text, c)]
    BY <1>3 DEF Unescape
  <2>2. Append(v.text, c) \in Seq(D)
    OBVIOUS
  <2> QED
    BY <1>3, <2>1, <2>2
<1> QED
  BY <1>1, <1>2, <1>3

\* A path without escapes is unescaped to itself.
LEMMA UnescapeText ==
  ASSUME NEW C, NEW s \in Seq(C)
  PROVE  /\ UnescapeAll(s).text \in Seq(C \cup {"%", "?"})
         /\ "%" \notin ToSet(s) => UnescapeAll(s).ok /\ ~UnescapeAll(s).escape /\ UnescapeAll(s).text = s
<1> DEFINE D == C \cup {"%", "?"}
           plain == "%" \notin ToSet(s)
<1>1. Len(s) \in Nat /\ DOMAIN s = 1 .. Len(s) /\ \A n \in 1 .. Len(s) : s[n] \in D
  OBVIOUS
<1>2. PICK u : /\ UnescapeAll(s) = u[Len(s)]
               /\ u[0] = [ok |-> TRUE, escape |-> FALSE, text |-> <<>>]
               /\ \A n \in 1 .. Len(s) : u[n] = Unescape(u[n - 1], s[n])
  BY <1>1, UnescapeUnfolds
<1>a. plain => \A n \in 1 .. Len(s) : s[n] # "%"
  BY <1>1 DEF ToSet
<1>b. \A c \in DOMAIN Escapes : Escapes[c] \in D
  BY DEF Escapes
<1>c. Len(s) >= 0 /\ SubSeq(s, 1, 0) = <<>> /\ SubSeq(s, 1, Len(s)) = s
  BY <1>1
<1>d. \A n \in Nat : n < Len(s) => SubSeq(s, 1, n + 1) = Append(SubSeq(s, 1, n), s[n + 1])
  BY <1>1
<1>e. {"%", "?"} \subseteq D
  OBVIOUS
<1> HIDE DEF D, plain
<1> DEFINE Good(n) == /\ DOMAIN u[n] = {"ok", "escape", "text"} /\ u[n].text \in Seq(D)
                      /\ plain => u[n].ok /\ ~u[n].escape /\ u[n].text = SubSeq(s, 1, n)
           S == {n \in Nat : n <= Len(s) => Good(n)}
<1>3. 0 \in S
  <2>1. DOMAIN u[0] = {"ok", "escape", "text"} /\ u[0].text = <<>> /\ u[0].ok /\ ~u[0].escape
    BY <1>2
  <2>2. <<>> \in Seq(D)
    OBVIOUS
  <2>3. Good(0)
    BY <2>1, <2>2, <1>c
  <2> QED
    BY <2>3
<1>4. ASSUME NEW n \in Nat, n \in S PROVE n + 1 \in S
  <2> SUFFICES ASSUME n + 1 <= Len(s) PROVE Good(n + 1)
    OBVIOUS
  <2>1. Good(n)
    BY <1>4, <1>1
  <2>2. u[n + 1] = Unescape(u[n], s[n + 1]) /\ s[n + 1] \in D /\ n + 1 \in 1 .. Len(s)
    BY <1>1, <1>2
  <2>3. plain => s[n + 1] # "%" /\ SubSeq(s, 1, n + 1) = Append(SubSeq(s, 1, n), s[n + 1])
    BY <2>2, <1>a, <1>d, <1>1
  <2> DEFINE v == u[n]
             c == s[n + 1]
  <2>4. DOMAIN v = {"ok", "escape", "text"} /\ v.text \in Seq(D) /\ c \in D /\ u[n + 1] = Unescape(v, c)
    BY <2>1, <2>2
  <2>5. plain => v.ok /\ ~v.escape /\ v.text = SubSeq(s, 1, n)
    BY <2>1
  <2>6. plain => c # "%" /\ SubSeq(s, 1, n + 1) = Append(SubSeq(s, 1, n), c)
    BY <2>3
  <2> HIDE DEF v, c
  <2> DEFINE w == Unescape(v, c)
  <2>7. DOMAIN w = {"ok", "escape", "text"} /\ w.text \in Seq(D)
    BY <2>4, <1>e, UnescapeStep
  <2>8. ASSUME plain PROVE w.ok /\ ~w.escape /\ w.text = SubSeq(s, 1, n + 1)
    <3>1. v.ok /\ ~v.escape /\ v.text = SubSeq(s, 1, n) /\ c # "%" /\ SubSeq(s, 1, n + 1) = Append(SubSeq(s, 1, n), c)
      BY <2>5, <2>6, <2>8
    <3>2. w = [v EXCEPT !.text = Append(v.text, c)]
      BY <3>1 DEF Unescape
    <3> QED
      BY <3>1, <3>2, <2>4
  <2> HIDE DEF w
  <2>9. u[n + 1] = w
    BY <2>4 DEF w
  <2>10. plain => u[n + 1].ok /\ ~u[n + 1].escape /\ u[n + 1].text = SubSeq(s, 1, n + 1)
    BY <2>8, <2>9
  <2> QED
    BY <2>7, <2>9, <2>10
<1>5. Len(s) \in S
  <2> HIDE DEF S
  <2> QED
    BY <1>1, <1>3, <1>4, Induction
<1>6. Good(Len(s))
  BY <1>1, <1>5
<1> QED
  BY <1>2, <1>6, <1>c DEF D, plain

\* The address that vfkit serves is the one it parsed, with the scheme it serves.
LEMMA ParsedURI ==
  ASSUME NEW C, NEW uri, uri = [scheme |-> uri.scheme, host |-> uri.host, path |-> uri.path], uri.path \in Seq(C), NewEndpoint(uri) # BadURI
  PROVE  \E u : /\ u = [scheme |-> u.scheme, host |-> u.host, path |-> u.path] /\ \E D : u.path \in Seq(D)
                /\ ValidURI(u)
                /\ NewEndpoint(uri) = [u EXCEPT !.scheme = ToRestScheme[u.scheme]]
<1> DEFINE r == UnescapeAll(WithoutQuery(uri.path))
           u == ParseRequestURI(uri)
<1>1. WithoutQuery(uri.path) \in Seq(C)
  <2> DEFINE marks == {i \in DOMAIN uri.path : uri.path[i] = "?"}
             m == CHOOSE i \in marks : \A j \in marks : i <= j
  <2>1. CASE marks = {}
    BY <2>1 DEF WithoutQuery
  <2>2. CASE marks # {}
    <3>1. marks \subseteq Nat /\ marks # {} /\ DOMAIN uri.path = 1 .. Len(uri.path) /\ Len(uri.path) \in Nat
      BY <2>2
    <3>2. \E i \in marks : \A j \in marks : i <= j
      <4> HIDE DEF marks
      <4> QED
        BY <3>1, LeastNatural
    <3>3. m \in marks
      BY <3>2
    <3>4. m - 1 \in 0 .. Len(uri.path)
      BY <3>3, <3>1
    <3>5. WithoutQuery(uri.path) = SubSeq(uri.path, 1, m - 1)
      BY <2>2 DEF WithoutQuery
    <3> HIDE DEF m, marks
    <3> QED
      BY <3>4, <3>5
  <2> QED
    BY <2>1, <2>2
<1>2. r.text \in Seq(C \cup {"%", "?"})
  BY <1>1, UnescapeText
<1>3. ValidURI(u) /\ NewEndpoint(uri) = [u EXCEPT !.scheme = ToRestScheme[u.scheme]]
  BY DEF NewEndpoint
<1>4. ~ValidURI(BadURI)
  BY DEF ValidURI, BadURI, ToRestScheme
<1>5. u = [uri EXCEPT !.path = r.text]
  BY <1>3, <1>4 DEF ParseRequestURI
<1> HIDE DEF u, r
<1>6. u = [scheme |-> u.scheme, host |-> u.host, path |-> u.path] /\ u.path = r.text
  BY <1>5
<1> QED
  BY <1>2, <1>3, <1>6

\* An address whose path has no characters that mean something in a URI is parsed
\* as it is.
LEMMA PlainURI ==
  ASSUME NEW D, NEW w, w = [scheme |-> w.scheme, host |-> w.host, path |-> w.path], w.path \in Seq(D), ToSet(w.path) \cap {"%", "?"} = {},
         ValidURI(w)
  PROVE  NewEndpoint(w) = [w EXCEPT !.scheme = ToRestScheme[w.scheme]]
<1> DEFINE r == UnescapeAll(w.path)
<1>1. {i \in DOMAIN w.path : w.path[i] = "?"} = {}
  BY DEF ToSet
<1>2. WithoutQuery(w.path) = w.path
  BY <1>1 DEF WithoutQuery
<1>3. "%" \notin ToSet(w.path)
  OBVIOUS
<1>4. r.ok /\ ~r.escape /\ r.text = w.path
  BY <1>3, UnescapeText
<1> HIDE DEF r
<1>5. ParseRequestURI(w) = [w EXCEPT !.path = w.path]
  BY <1>2, <1>4 DEF ParseRequestURI, r
<1>6. [w EXCEPT !.path = w.path] = w
  OBVIOUS
<1> QED
  BY <1>5, <1>6 DEF NewEndpoint

\* For every address that vfkit accepts after --restful-uri whose path has no
\* characters that mean something in a URI, what ToCmdLine writes of it is parsed as
\* the same address.
THEOREM DescEndpointKept == DescSpec => []EndpointKept
<1>1. DescInv => EndpointKept
  <2> SUFFICES ASSUME DescInv, phase = "uriRead", dev.scheme # "None", ToSet(dev.path) \cap {"%", "?"} = {} PROVE back = dev
    BY DEF EndpointKept
  <2>1. line \in TypedURIs /\ dev = NewEndpoint(line) /\ dev # BadURI /\ back = NewEndpoint(EndpointToCmdLine(dev))
    BY DEF DescInv, OthersInv
  <2>2. line = [scheme |-> line.scheme, host |-> line.host, path |-> line.path] /\ line.path \in Seq(ToSet(line.path))
    BY <2>1, TypedURIsAssumption DEF IsSeq
  <2>3. PICK u : /\ u = [scheme |-> u.scheme, host |-> u.host, path |-> u.path] /\ \E D : u.path \in Seq(D)
                 /\ ValidURI(u)
                 /\ NewEndpoint(line) = [u EXCEPT !.scheme = ToRestScheme[u.scheme]]
    BY <2>1, <2>2, ParsedURI
  <2>4. PICK D : u.path \in Seq(D)
    BY <2>3
  <2> DEFINE w == EndpointToCmdLine(dev)
  <2>5. /\ dev = [scheme |-> dev.scheme, host |-> dev.host, path |-> dev.path] /\ dev.path = u.path /\ dev.host = u.host
        /\ dev.scheme = ToRestScheme[u.scheme] /\ u.scheme \in {"none", "unix", "tcp", "http"}
    BY <2>1, <2>3 DEF ValidURI, ToRestScheme
  <2>6. CASE dev.scheme = "Unix"
    <3>1. u.host = "" /\ Len(u.path) \in 1 .. MaxSocketPathLen
      BY <2>3, <2>5, <2>6 DEF ValidURI
    <3>2. w = [scheme |-> "unix", host |-> "", path |-> dev.path]
      BY <2>6 DEF EndpointToCmdLine
    <3> HIDE DEF w
    <3>3. ValidURI(w)
      BY <3>1, <3>2, <2>5 DEF ValidURI, ToRestScheme
    <3>4. w = [scheme |-> w.scheme, host |-> w.host, path |-> w.path] /\ w.path = dev.path /\ w.path \in Seq(D)
      BY <3>2, <2>4, <2>5
    <3>5. ToRestScheme[w.scheme] = "Unix"
      BY <3>2 DEF ToRestScheme
    <3>6. NewEndpoint(w) = [w EXCEPT !.scheme = ToRestScheme[w.scheme]]
      BY <3>3, <3>4, PlainURI
    <3>7. back = [w EXCEPT !.scheme = "Unix"]
      BY <2>1, <3>5, <3>6 DEF w
    <3>8. back = [scheme |-> "Unix", host |-> "", path |-> dev.path]
      BY <3>2, <3>7
    <3>9. dev = [scheme |-> "Unix", host |-> "", path |-> dev.path]
      BY <3>1, <2>5, <2>6
    <3> QED
      BY <3>8, <3>9
  <2>7. CASE dev.scheme = "TCP"
    <3>1. u.host \in HostsWithPort /\ u.path = <<>>
      BY <2>3, <2>5, <2>7 DEF ValidURI
    <3>2. w = [scheme |-> "tcp", host |-> dev.host, path |-> dev.path]
      BY <2>7 DEF EndpointToCmdLine
    <3> HIDE DEF w
    <3>3. ValidURI(w)
      BY <3>1, <3>2, <2>5 DEF ValidURI, ToRestScheme
    <3>4. w = [scheme |-> w.scheme, host |-> w.host, path |-> w.path] /\ w.path = dev.path /\ w.path \in Seq(D)
      BY <3>2, <2>4, <2>5
    <3>5. ToRestScheme[w.scheme] = "TCP"
      BY <3>2 DEF ToRestScheme
    <3>6. NewEndpoint(w) = [w EXCEPT !.scheme = ToRestScheme[w.scheme]]
      BY <3>3, <3>4, PlainURI
    <3>7. back = [w EXCEPT !.scheme = "TCP"]
      BY <2>1, <3>5, <3>6 DEF w
    <3> QED
      BY <3>1, <3>2, <3>7, <2>5, <2>7
  <2> QED
    BY <2>5, <2>6, <2>7 DEF ToRestScheme
<1> QED
  BY <1>1, DescAlways, PTL

\* The memory that is written in mebibytes and shifted back to bytes is what was
\* asked for, and less than a mebibyte more, up to the last mebibyte below 2^64.
LEMMA Rounded ==
  ASSUME NEW m \in 1 .. Word - MiB
  PROVE  ToBytes(RoundToMiB(m)) \in m .. m + MiB - 1
BY SizesAssumption DEF ToBytes, RoundToMiB

\* For every machine and every size of a mebibyte and of a word, the machine that
\* Cmd starts has the memory that was asked for, or less than a mebibyte more.
THEOREM DescMemoryRounded == DescSpec => []MemoryRounded
<1>1. DescInv => MemoryRounded
  <2> SUFFICES ASSUME DescInv, phase = "vmRead", back # Error, dev.memory \in 1 .. Word - MiB
               PROVE  back.memory \in dev.memory .. dev.memory + MiB - 1
    BY DEF MemoryRounded
  <2>1. back = NewVMConfiguration(Args(dev))
    BY DEF DescInv, VmInv
  <2>2. back.memory = ToBytes(Args(dev).memory)
    BY <2>1 DEF NewVMConfiguration
  <2>3. dev.memory # 0
    BY SizesAssumption
  <2>4. Args(dev).memory = RoundToMiB(dev.memory)
    BY <2>3 DEF Args
  <2> QED
    BY <2>2, <2>4, Rounded
<1> QED
  BY <1>1, DescAlways, PTL

------------------------------------------------------------------------------
\* Lists: what parseString makes of any text.

\* A set of numbers that are not above n, and is not empty, has a greatest one.
LEMMA GreatestNatural ==
  ASSUME NEW n \in Nat, NEW T, T \subseteq 0 .. n, T # {}
  PROVE  \E x \in T : \A y \in T : y <= x
<1> DEFINE U == {n - x : x \in T}
<1>0. PICK t \in T : TRUE
  OBVIOUS
<1>1. U \subseteq Nat /\ U # {}
  <2>1. \A x \in T : x \in 0 .. n
    OBVIOUS
  <2>2. \A x \in T : n - x \in Nat
    BY <2>1
  <2>3. n - t \in U
    OBVIOUS
  <2> QED
    BY <2>2, <2>3
<1>2. PICK u \in U : \A v \in U : u <= v
  <2> HIDE DEF U
  <2> QED
    BY <1>1, LeastNatural
<1>3. PICK x \in T : u = n - x
  BY <1>2
<1>4. \A y \in T : n - x <= n - y
  BY <1>2, <1>3
<1>5. \A y \in T : y <= x
  BY <1>4
<1> QED
  BY <1>5

\* A trimmed text is a text.
LEMMA TrimText ==
  ASSUME NEW C, NEW s \in Seq(C)
  PROVE  TrimQuotes(s) \in Seq(C)
<1> DEFINE kept == {i \in DOMAIN s : s[i] # QuoteCh}
<1>1. DOMAIN s = 1 .. Len(s) /\ Len(s) \in Nat
  OBVIOUS
<1>2. CASE kept = {} \/ TrimQuotes(s) = s
  <2>1. <<>> \in Seq(C)
    OBVIOUS
  <2> QED
    BY <1>2, <2>1 DEF TrimQuotes
<1>3. CASE kept # {} /\ TrimQuotes(s) # s
  <2>1. TrimQuotes(s) = SubSeq(s, Min(kept), Max(kept))
    BY <1>3 DEF TrimQuotes
  <2>2. kept \subseteq Nat /\ kept \subseteq 0 .. Len(s) /\ kept \subseteq 1 .. Len(s)
    BY <1>1
  <2> HIDE DEF kept
  <2>3. \E x \in kept : \A y \in kept : x <= y
    BY <2>2, <1>3, LeastNatural
  <2>4. \E x \in kept : \A y \in kept : y <= x
    BY <2>2, <1>3, <1>1, GreatestNatural
  <2>5. Min(kept) \in kept
    BY <2>3 DEF Min
  <2>6. Max(kept) \in kept
    BY <2>4 DEF Max
  <2>7. Min(kept) \in 1 .. Len(s) /\ Max(kept) \in 1 .. Len(s)
    BY <2>2, <2>5, <2>6
  <2> QED
    BY <2>1, <2>7
<1> QED
  BY <1>2, <1>3

\* The loop of parseString over the characters is what writeRune makes of the
\* builder, one character after the other.
LEMMA ReadUnfolds ==
  ASSUME NEW s, Len(s) \in Nat
  PROVE  \E r : /\ ParseString(s) = [ok |-> ~r[Len(s)].quoted,
                                     list |-> IF r[Len(s)].quoted THEN <<>> ELSE End(r[Len(s)])]
                /\ r[0] = Builder
                /\ \A n \in 1 .. Len(s) : r[n] = WriteRune(r[n - 1], s[n])
<1> DEFINE Def(r, m) == r = [n \in 0 .. m |-> IF n = 0 THEN Builder ELSE WriteRune(r[n - 1], s[n])]
           S == {m \in Nat : \E r : Def(r, m)}
           c == CHOOSE r : Def(r, Len(s))
<1>0. ParseString(s) = [ok |-> ~c[Len(s)].quoted, list |-> IF c[Len(s)].quoted THEN <<>> ELSE End(c[Len(s)])]
  BY DEF ParseString
<1>1. 0 \in S
  <2>1. Def([n \in 0 .. 0 |-> Builder], 0)
    OBVIOUS
  <2> QED
    BY <2>1
<1>2. ASSUME NEW m \in Nat, m \in S PROVE m + 1 \in S
  <2>1. PICK r : Def(r, m)
    BY <1>2
  <2> DEFINE e == [n \in 0 .. m + 1 |-> IF n = m + 1 THEN WriteRune(r[m], s[m + 1]) ELSE r[n]]
  <2>2. Def(e, m + 1)
    BY <2>1
  <2>3. \E x : Def(x, m + 1)
    <3> HIDE DEF e, Def
    <3> QED
      BY <2>2
  <2> QED
    BY <2>3
<1>3. Len(s) \in S
  <2> HIDE DEF S
  <2> QED
    BY <1>1, <1>2, Induction
<1>4. PICK r : Def(r, Len(s))
  BY <1>3
<1>5. Def(c, Len(s))
  BY <1>4
<1> HIDE DEF c
<1>6. c[0] = Builder /\ \A n \in 1 .. Len(s) : c[n] = WriteRune(c[n - 1], s[n])
  BY <1>5
<1> QED
  BY <1>0, <1>6

\* One more quote, or the same number.
LEMMA QuotesCounted ==
  ASSUME NEW s, NEW n \in Nat
  PROVE  /\ QuotesBefore(s, 1) = 0 /\ QuotesBefore(s, n + 1) \in Nat
         /\ QuotesBefore(s, n + 2) = IF s[n + 1] = QuoteCh THEN QuotesBefore(s, n + 1) + 1 ELSE QuotesBefore(s, n + 1)
<1> DEFINE A == {j \in 1 .. n : s[j] = QuoteCh}
           B == {j \in 1 .. n + 1 : s[j] = QuoteCh}
<1>1. IsFiniteSet(1 .. n)
  BY FS_Interval
<1>2. A \in SUBSET (1 .. n)
  OBVIOUS
<1>3. IsFiniteSet(A) /\ n + 1 \notin A
  BY <1>1, <1>2, FS_Subset
<1>4. B = IF s[n + 1] = QuoteCh THEN A \cup {n + 1} ELSE A
  <2>1. 1 .. n + 1 = (1 .. n) \cup {n + 1}
    OBVIOUS
  <2> QED
    BY <2>1
<1>5. (n + 1) - 1 = n /\ (n + 2) - 1 = n + 1
  OBVIOUS
<1>6. QuotesBefore(s, n + 1) = Cardinality(A)
  BY <1>5 DEF QuotesBefore
<1>7. QuotesBefore(s, n + 2) = Cardinality(B)
  BY <1>5 DEF QuotesBefore
<1>8. QuotesBefore(s, 1) = 0
  <2>1. {j \in 1 .. 1 - 1 : s[j] = QuoteCh} = {}
    OBVIOUS
  <2> QED
    BY <2>1, FS_EmptySet DEF QuotesBefore
<1> HIDE DEF A, B
<1>9. Cardinality(A) \in Nat
  BY <1>3, FS_CardinalityType
<1>10. Cardinality(A \cup {n + 1}) = Cardinality(A) + 1
  BY <1>3, FS_AddElement
<1> QED
  BY <1>4, <1>6, <1>7, <1>8, <1>9, <1>10

\* e counts the cuts of T from 0 to m, in their order.
Counts(e, m, T) ==
  /\ DOMAIN e = 0 .. m /\ T = {e[k] : k \in 0 .. m} /\ e[0] = 0
  /\ \A k \in 0 .. m : e[k] \in Nat
  /\ \A j, k \in 0 .. m : j < k => e[j] < e[k]

\* The k-th cut has k cuts below it, so there is one of each number.
LEMMA CountedBelow ==
  ASSUME NEW m \in Nat, NEW e, NEW T, Counts(e, m, T)
  PROVE  /\ \A k \in 0 .. m : Cardinality({t \in T : t < e[k]}) = k
         /\ Cardinality(T) = m + 1
<1> DEFINE B(k) == {e[j] : j \in 0 .. k - 1}
           S == {k \in Nat : k <= m + 1 => IsFiniteSet(B(k)) /\ Cardinality(B(k)) = k}
<1>1. 0 \in S
  <2>1. B(0) = {}
    OBVIOUS
  <2> QED
    BY <2>1, FS_EmptySet
<1>2. ASSUME NEW k \in Nat, k \in S PROVE k + 1 \in S
  <2> SUFFICES ASSUME k + 1 <= m + 1 PROVE IsFiniteSet(B(k + 1)) /\ Cardinality(B(k + 1)) = k + 1
    OBVIOUS
  <2>1. IsFiniteSet(B(k)) /\ Cardinality(B(k)) = k
    BY <1>2
  <2>2. 0 .. (k + 1) - 1 = (0 .. k - 1) \cup {k}
    OBVIOUS
  <2>3. B(k + 1) = B(k) \cup {e[k]}
    BY <2>2
  <2>4. e[k] \notin B(k)
    <3> SUFFICES ASSUME NEW j \in 0 .. k - 1, e[k] = e[j] PROVE FALSE
      OBVIOUS
    <3>1. j \in 0 .. m /\ k \in 0 .. m /\ j < k
      OBVIOUS
    <3>2. e[j] < e[k] /\ e[j] \in Nat
      BY <3>1 DEF Counts
    <3> QED
      BY <3>2
  <2> HIDE DEF B, S
  <2>5. IsFiniteSet(B(k) \cup {e[k]}) /\ Cardinality(B(k) \cup {e[k]}) = Cardinality(B(k)) + 1
    BY <2>1, <2>4, FS_AddElement
  <2> QED
    BY <2>1, <2>3, <2>5
<1>3. \A k \in Nat : k \in S
  <2> HIDE DEF S
  <2> QED
    BY <1>1, <1>2, Induction
<1>4. ASSUME NEW k \in 0 .. m PROVE Cardinality({t \in T : t < e[k]}) = k
  <2>1. {t \in T : t < e[k]} = B(k)
    <3>1. ASSUME NEW t \in T, t < e[k] PROVE t \in B(k)
      <4>1. PICK j \in 0 .. m : t = e[j]
        BY DEF Counts
      <4>2. e[j] \in Nat /\ e[k] \in Nat /\ e[j] < e[k]
        BY <3>1, <4>1 DEF Counts
      <4>3. ~(k < j) /\ j # k
        BY <4>2, <1>4 DEF Counts
      <4>4. j \in 0 .. k - 1
        BY <4>3
      <4> QED
        BY <4>1, <4>4
    <3>2. ASSUME NEW j \in 0 .. k - 1 PROVE e[j] \in T /\ e[j] < e[k]
      BY <3>2 DEF Counts
    <3> QED
      BY <3>1, <3>2
  <2>2. k \in Nat /\ k <= m + 1 /\ k \in S
    BY <1>3
  <2> QED
    BY <2>1, <2>2
<1>5. Cardinality(T) = m + 1
  <2>1. T = B(m + 1)
    BY DEF Counts
  <2>2. m + 1 \in S
    BY <1>3
  <2> QED
    BY <2>1, <2>2
<1> QED
  BY <1>4, <1>5

\* The texts between the cuts that e counts.
Pieces(s, e, m) == [k \in 1 .. m |-> TrimQuotes(SubSeq(s, e[k - 1] + 1, e[k] - 1))]

\* The state of the builder after the first n characters of s.
AtCuts(s, b, n, e, m) ==
  /\ m \in Nat /\ Counts(e, m, {0} \cup {i \in Cuts(s) : i <= n})
  /\ b.text = SubSeq(s, e[m] + 1, n)
  /\ b.list = Pieces(s, e, m)

\* With a cut after these n characters.
CutAfter(s, b, n, f, m) ==
  /\ Counts(f, m, {0} \cup {i \in Cuts(s) : i <= n} \cup {n + 1})
  /\ f[m] = n + 1
  /\ Append(b.list, TrimQuotes(b.text)) = Pieces(s, f, m)

\* A comma outside quotes is one more cut.
LEMMA OneMoreCut ==
  ASSUME NEW m \in Nat, NEW e, NEW T, Counts(e, m, T), NEW t \in Nat, \A x \in T : x < t
  PROVE  Counts([k \in 0 .. m + 1 |-> IF k = m + 1 THEN t ELSE e[k]], m + 1, T \cup {t})
<1> DEFINE f == [k \in 0 .. m + 1 |-> IF k = m + 1 THEN t ELSE e[k]]
<1>1. DOMAIN f = 0 .. m + 1 /\ f[0] = 0 /\ f[m + 1] = t /\ \A k \in 0 .. m : f[k] = e[k] /\ e[k] \in T /\ e[k] \in Nat
  BY DEF Counts
<1>2. 0 .. m + 1 = (0 .. m) \cup {m + 1}
  OBVIOUS
<1> HIDE DEF f
<1>3. T \cup {t} = {f[k] : k \in 0 .. m + 1}
  <2>1. T = {f[k] : k \in 0 .. m}
    BY <1>1 DEF Counts
  <2>2. {f[k] : k \in 0 .. m + 1} = {f[k] : k \in 0 .. m} \cup {f[m + 1]}
    BY <1>2
  <2> QED
    BY <2>1, <2>2, <1>1
<1>4. \A k \in 0 .. m + 1 : f[k] \in Nat
  BY <1>1, <1>2
<1>5. ASSUME NEW j \in 0 .. m + 1, NEW k \in 0 .. m + 1, j < k PROVE f[j] < f[k]
  <2>1. j \in 0 .. m
    BY <1>5
  <2>2. CASE k = m + 1
    BY <2>1, <2>2, <1>1
  <2>3. CASE k \in 0 .. m
    BY <2>1, <2>3, <1>1, <1>5 DEF Counts
  <2> QED
    BY <2>2, <2>3
<1>6. Counts(f, m + 1, T \cup {t})
  BY <1>1, <1>3, <1>4, <1>5 DEF Counts
<1> QED
  BY <1>6 DEF f

\* The cuts up to the next character.
LEMMA CutHere ==
  ASSUME NEW s, NEW n \in Nat, DOMAIN s = 1 .. Len(s), Len(s) \in Nat, n + 1 <= Len(s)
  PROVE  {i \in Cuts(s) : i <= n + 1} =
           IF s[n + 1] = CommaCh /\ Even(QuotesBefore(s, n + 1)) THEN {i \in Cuts(s) : i <= n} \cup {n + 1}
           ELSE {i \in Cuts(s) : i <= n}
<1>1. \A i \in Cuts(s) : i \in 1 .. Len(s)
  BY DEF Cuts
<1>2. n + 1 \in Cuts(s) <=> s[n + 1] = CommaCh /\ Even(QuotesBefore(s, n + 1))
  BY DEF Cuts
<1>3. \A i \in Cuts(s) : i <= n + 1 <=> i <= n \/ i = n + 1
  BY <1>1
<1> HIDE DEF Cuts
<1>4. \A x : x \in {i \in Cuts(s) : i <= n + 1} <=> x \in {i \in Cuts(s) : i <= n} \/ (x = n + 1 /\ n + 1 \in Cuts(s))
  BY <1>3
<1> QED
  BY <1>2, <1>4

\* A part of a text with its next character.
LEMMA SubSeqGrows ==
  ASSUME NEW C, NEW s \in Seq(C), NEW n \in Nat, n + 1 <= Len(s), NEW a \in 0 .. n
  PROVE  SubSeq(s, a + 1, n + 1) = Append(SubSeq(s, a + 1, n), s[n + 1])
<1> DEFINE t == SubSeq(s, a + 1, n)
           u == SubSeq(s, a + 1, n + 1)
<1>1. Len(t) = n - a /\ DOMAIN t = 1 .. n - a /\ t \in Seq(C) /\ \A i \in 1 .. n - a : t[i] = s[a + i]
  OBVIOUS
<1>2. Len(u) = n + 1 - a /\ u \in Seq(C) /\ \A i \in 1 .. n + 1 - a : u[i] = s[a + i]
  OBVIOUS
<1>3. s[n + 1] \in C
  OBVIOUS
<1> DEFINE c == s[n + 1]
           v == Append(t, c)
<1> HIDE DEF t, u
<1>4. Len(v) = n + 1 - a /\ v \in Seq(C) /\ v[n + 1 - a] = c /\ \A i \in 1 .. n - a : v[i] = s[a + i]
  BY <1>1, <1>3
<1>5. \A i \in 1 .. n + 1 - a : v[i] = u[i]
  <2>1. u[n + 1 - a] = c
    BY <1>2
  <2>2. 1 .. n + 1 - a = (1 .. n - a) \cup {n + 1 - a}
    OBVIOUS
  <2> QED
    BY <2>1, <2>2, <1>2, <1>4
<1> HIDE DEF v
<1>6. u = v
  BY <1>2, <1>4, <1>5, SeqEqual
<1> QED
  BY <1>6 DEF u, v, t

\* A character that does not cut belongs to the element that is read.
LEMMA WriteMore ==
  ASSUME NEW C, NEW s \in Seq(C), NEW n \in Nat, n + 1 <= Len(s), NEW b, DOMAIN b = {"quoted", "text", "list"},
         NEW e, NEW m, AtCuts(s, b, n, e, m), NEW w, DOMAIN w = {"quoted", "text", "list"},
         ~(s[n + 1] = CommaCh /\ Even(QuotesBefore(s, n + 1))),
         w.list = b.list, w.text = Append(b.text, s[n + 1])
  PROVE  AtCuts(s, w, n + 1, e, m)
<1> DEFINE T == {0} \cup {i \in Cuts(s) : i <= n}
<1>1. DOMAIN s = 1 .. Len(s) /\ Len(s) \in Nat /\ m \in Nat /\ Counts(e, m, T)
  BY DEF AtCuts
<1>2. {0} \cup {i \in Cuts(s) : i <= n + 1} = T
  BY <1>1, CutHere
<1>3. e[m] \in 0 .. n
  <2>1. e[m] \in T
    BY <1>1 DEF Counts
  <2>2. \A i \in Cuts(s) : i \in Nat
    BY <1>1 DEF Cuts
  <2> QED
    BY <2>1, <2>2
<1>4. SubSeq(s, e[m] + 1, n + 1) = Append(SubSeq(s, e[m] + 1, n), s[n + 1])
  BY <1>1, <1>3, SubSeqGrows
<1> QED
  BY <1>1, <1>2, <1>4 DEF AtCuts

\* A cut ends the element that is read.
LEMMA WriteCut ==
  ASSUME NEW C, NEW s \in Seq(C), NEW n \in Nat, n <= Len(s), NEW b, DOMAIN b = {"quoted", "text", "list"},
         NEW e, NEW m, AtCuts(s, b, n, e, m)
  PROVE  \E f : CutAfter(s, b, n, f, m + 1)
<1> DEFINE T == {0} \cup {i \in Cuts(s) : i <= n}
           f == [k \in 0 .. m + 1 |-> IF k = m + 1 THEN n + 1 ELSE e[k]]
           l == [k \in 1 .. m + 1 |-> TrimQuotes(SubSeq(s, f[k - 1] + 1, f[k] - 1))]
<1>1. DOMAIN s = 1 .. Len(s) /\ Len(s) \in Nat /\ m \in Nat /\ Counts(e, m, T)
  BY DEF AtCuts
<1>2. \A x \in T : x < n + 1
  <2>2. \A i \in Cuts(s) : i \in Nat
    BY <1>1 DEF Cuts
  <2> QED
    BY <2>2
<1>3. Counts(f, m + 1, T \cup {n + 1})
  <2> HIDE DEF T
  <2> QED
    BY <1>1, <1>2, OneMoreCut
<1>4. f[m + 1] = n + 1 /\ \A k \in 0 .. m : f[k] = e[k]
  BY <1>1
<1> HIDE DEF T, f
<1>5. Append(b.list, TrimQuotes(b.text)) = l
  <2>1. b.list = [k \in 1 .. m |-> TrimQuotes(SubSeq(s, e[k - 1] + 1, e[k] - 1))] /\ b.text = SubSeq(s, e[m] + 1, n)
    BY DEF AtCuts, Pieces
  <2>2. DOMAIN b.list = 1 .. m /\ Len(b.list) = m
    BY <2>1, <1>1
  <2>3. Append(b.list, TrimQuotes(b.text)) = [k \in 1 .. m + 1 |-> IF k <= m THEN b.list[k] ELSE TrimQuotes(b.text)]
    BY <2>2, <1>1
  <2>4. ASSUME NEW k \in 1 .. m + 1
        PROVE  (IF k <= m THEN b.list[k] ELSE TrimQuotes(b.text)) = TrimQuotes(SubSeq(s, f[k - 1] + 1, f[k] - 1))
    <3>1. CASE k <= m
      <4>1. b.list[k] = TrimQuotes(SubSeq(s, e[k - 1] + 1, e[k] - 1)) /\ f[k] = e[k] /\ f[k - 1] = e[k - 1]
        BY <2>1, <3>1, <1>1, <1>4
      <4> QED
        BY <3>1, <4>1
    <3>2. CASE k = m + 1
      <4>1. f[k] - 1 = n /\ f[k - 1] = e[m]
        BY <3>2, <1>1, <1>4
      <4> QED
        BY <3>2, <4>1, <2>1, <1>1
    <3> QED
      BY <3>1, <3>2, <1>1
  <2> QED
    BY <2>3, <2>4
<1> QED
  BY <1>3, <1>4, <1>5 DEF T, Pieces, CutAfter

\* Each quote opens or closes.
LEMMA Parity ==
  ASSUME NEW n \in Nat
  PROVE  Even(n + 1) <=> ~Even(n)
BY DEF Even

\* After every character, parseString is within quotes exactly if their number is
\* odd, has the elements up to the last comma outside quotes, and is reading the rest.
LEMMA ReadAtCuts ==
  ASSUME NEW C, NEW s \in Seq(C), NEW r, r[0] = Builder, \A n \in 1 .. Len(s) : r[n] = WriteRune(r[n - 1], s[n])
  PROVE  \A n \in 0 .. Len(s) :
           /\ DOMAIN r[n] = {"quoted", "text", "list"} /\ r[n].quoted = ~Even(QuotesBefore(s, n + 1))
           /\ \E e, m : AtCuts(s, r[n], n, e, m)
<1>0. Len(s) \in Nat /\ DOMAIN s = 1 .. Len(s)
  OBVIOUS
<1> DEFINE Typed1(n) == DOMAIN r[n] = {"quoted", "text", "list"} /\ r[n].quoted = ~Even(QuotesBefore(s, n + 1))
           Cut1(n) == \E e, m : AtCuts(s, r[n], n, e, m)
           S == {n \in Nat : n <= Len(s) => Typed1(n) /\ Cut1(n)}
<1>1. 0 \in S
  <2>1. DOMAIN r[0] = {"quoted", "text", "list"} /\ r[0].quoted = FALSE /\ r[0].text = <<>> /\ r[0].list = <<>>
    BY DEF Builder
  <2>2. Even(QuotesBefore(s, 0 + 1))
    BY QuotesCounted DEF Even
  <2>3. AtCuts(s, r[0], 0, [k \in 0 .. 0 |-> 0], 0)
    <3> DEFINE e == [k \in 0 .. 0 |-> 0]
    <3>1. {i \in Cuts(s) : i <= 0} = {}
      BY <1>0 DEF Cuts
    <3>2. {0} \cup {i \in Cuts(s) : i <= 0} = {0}
      BY <3>1
    <3>3. Counts(e, 0, {0})
      BY DEF Counts
    <3>4. SubSeq(s, e[0] + 1, 0) = <<>>
      BY <1>0
    <3>5. Pieces(s, e, 0) = <<>>
      BY DEF Pieces
    <3> HIDE DEF e
    <3> QED
      BY <2>1, <3>2, <3>3, <3>4, <3>5 DEF AtCuts, e
  <2> QED
    BY <2>1, <2>2, <2>3
<1>2. ASSUME NEW n \in Nat, n \in S PROVE n + 1 \in S
  <2> SUFFICES ASSUME n + 1 <= Len(s) PROVE Typed1(n + 1) /\ Cut1(n + 1)
    OBVIOUS
  <2> DEFINE b == r[n]
             c == s[n + 1]
             w == WriteRune(b, c)
  <2>1. n + 1 \in 1 .. Len(s) /\ (n + 1) - 1 = n /\ (n + 1) + 1 = n + 2
    BY <1>0
  <2>2. r[n + 1] = w
    BY <2>1
  <2>3. DOMAIN b = {"quoted", "text", "list"} /\ b.quoted = ~Even(QuotesBefore(s, n + 1)) /\ \E e, m : AtCuts(s, b, n, e, m)
    BY <1>2, <1>0
  <2>4. PICK e, m : AtCuts(s, b, n, e, m)
    BY <2>3
  <2>5. /\ QuotesBefore(s, n + 1) \in Nat
        /\ QuotesBefore(s, n + 2) = IF c = QuoteCh THEN QuotesBefore(s, n + 1) + 1 ELSE QuotesBefore(s, n + 1)
    BY QuotesCounted
  <2>6. Even(QuotesBefore(s, n + 2)) = IF c = QuoteCh THEN ~Even(QuotesBefore(s, n + 1)) ELSE Even(QuotesBefore(s, n + 1))
    <3> DEFINE q == QuotesBefore(s, n + 1)
    <3>1. Even(q + 1) <=> ~Even(q)
      BY <2>5, Parity
    <3>2. CASE c = QuoteCh
      BY <2>5, <3>1, <3>2 DEF Even
    <3>3. CASE c # QuoteCh
      BY <2>5, <3>3 DEF Even
    <3> QED
      BY <3>2, <3>3
  <2>7. CASE c = CommaCh /\ Even(QuotesBefore(s, n + 1))
    <3>1. w = [b EXCEPT !.list = Append(b.list, TrimQuotes(b.text)), !.text = <<>>]
      BY <2>7, <2>3 DEF WriteRune
    <3>2. DOMAIN w = {"quoted", "text", "list"} /\ w.quoted = b.quoted /\ w.text = <<>>
          /\ w.list = Append(b.list, TrimQuotes(b.text))
      BY <3>1, <2>3
    <3> HIDE DEF w, b
    <3>3. w.quoted = ~Even(QuotesBefore(s, n + 2))
      BY <3>2, <2>3, <2>6, <2>7 DEF CommaCh, QuoteCh
    <3>4. PICK f : CutAfter(s, b, n, f, m + 1)
      <4>1. n <= Len(s) /\ DOMAIN b = {"quoted", "text", "list"}
        BY <1>0, <2>3
      <4> QED
        BY <2>4, <4>1, WriteCut
    <3>5. {0} \cup {i \in Cuts(s) : i <= n} \cup {n + 1} = {0} \cup {i \in Cuts(s) : i <= n + 1}
      BY <2>7, <1>0, CutHere
    <3>6. w.text = SubSeq(s, f[m + 1] + 1, n + 1)
      <4>1. SubSeq(s, (n + 1) + 1, n + 1) = <<>>
        BY <1>0
      <4>2. f[m + 1] = n + 1
        BY <3>4 DEF CutAfter
      <4> QED
        BY <3>2, <4>1, <4>2
    <3>8. Counts(f, m + 1, {0} \cup {i \in Cuts(s) : i <= n + 1})
      BY <3>4, <3>5 DEF CutAfter
    <3>9. w.list = Pieces(s, f, m + 1)
      BY <3>4, <3>2 DEF CutAfter
    <3>7. AtCuts(s, w, n + 1, f, m + 1)
      <4>1. m + 1 \in Nat
        BY <2>4 DEF AtCuts
      <4> QED
        BY <3>6, <3>8, <3>9, <4>1 DEF AtCuts
    <3> QED
      BY <2>1, <2>2, <3>2, <3>3, <3>7
  <2>8. CASE ~(c = CommaCh /\ Even(QuotesBefore(s, n + 1)))
    <3>1. w = IF b.quoted THEN [b EXCEPT !.quoted = (c # QuoteCh), !.text = Append(b.text, c)]
              ELSE [b EXCEPT !.quoted = (c = QuoteCh), !.text = Append(b.text, c)]
      BY <2>8, <2>3 DEF WriteRune
    <3>2. DOMAIN w = {"quoted", "text", "list"} /\ w.list = b.list /\ w.text = Append(b.text, c)
      BY <3>1, <2>3
    <3>3. w.quoted = IF b.quoted THEN (c # QuoteCh) ELSE (c = QuoteCh)
      BY <3>1, <2>3
    <3> HIDE DEF w, b
    <3>4. w.quoted = ~Even(QuotesBefore(s, n + 2))
      BY <3>3, <2>3, <2>6
    <3>5. AtCuts(s, w, n + 1, e, m)
      BY <2>3, <2>4, <2>8, <3>2, WriteMore
    <3> QED
      BY <2>1, <2>2, <3>2, <3>4, <3>5
  <2> QED
    BY <2>7, <2>8
<1>3. \A n \in Nat : n \in S
  <2> HIDE DEF S
  <2> QED
    BY <1>1, <1>2, Induction
<1> QED
  BY <1>0, <1>3

\* The cut that Fields chooses is the one that is counted.
LEMMA NthCut ==
  ASSUME NEW m \in Nat, NEW e, NEW T, Counts(e, m, T), NEW k \in 0 .. m
  PROVE  (CHOOSE i \in T : Cardinality({j \in T : j < i}) = k) = e[k]
<1> DEFINE P(i) == Cardinality({j \in T : j < i}) = k
<1>1. e[k] \in T /\ P(e[k])
  BY CountedBelow DEF Counts
<1>2. ASSUME NEW i \in T, P(i) PROVE i = e[k]
  <2>1. PICK j \in 0 .. m : i = e[j]
    BY DEF Counts
  <2>2. Cardinality({x \in T : x < e[j]}) = j
    BY CountedBelow
  <2> QED
    BY <1>2, <2>1, <2>2
<1> HIDE DEF P
<1>3. (CHOOSE i \in T : P(i)) = e[k]
  BY <1>1, <1>2
<1> QED
  BY <1>3 DEF P

\* Fields are the texts between the cuts that are counted.
LEMMA FieldsAre ==
  ASSUME NEW s, NEW f, NEW m \in Nat, Counts(f, m, Cuts(s) \cup {0, Len(s) + 1})
  PROVE  Fields(s) = IF Pieces(s, f, m) = <<(<<>>)>> THEN <<>> ELSE Pieces(s, f, m)
<1> DEFINE cuts == Cuts(s) \cup {0, Len(s) + 1}
           Nth(k) == CHOOSE i \in cuts : Cardinality({j \in cuts : j < i}) = k
           All == [k \in 1 .. Cardinality(cuts) - 1 |-> TrimQuotes(SubSeq(s, Nth(k - 1) + 1, Nth(k) - 1))]
<1>1. Fields(s) = IF All = <<(<<>>)>> THEN <<>> ELSE All
  BY DEF Fields
<1>2. All = Pieces(s, f, m)
  <2> HIDE DEF cuts
  <2>1. Counts(f, m, cuts)
    BY DEF cuts
  <2>2. Cardinality(cuts) - 1 = m
    BY <2>1, CountedBelow
  <2>3. ASSUME NEW k \in 0 .. m PROVE Nth(k) = f[k]
    BY <2>1, NthCut
  <2> HIDE DEF Nth
  <2>4. \A k \in 1 .. m : Nth(k - 1) = f[k - 1] /\ Nth(k) = f[k]
    BY <2>3
  <2> QED
    BY <2>2, <2>4 DEF Pieces
<1> HIDE DEF All
<1> QED
  BY <1>1, <1>2

\* A list of one empty element.
LEMMA OneEmpty ==
  ASSUME NEW D, NEW l \in Seq(D), NEW x \in D
  PROVE  Append(l, x) = <<(<<>>)>> <=> l = <<>> /\ x = <<>>
<1>1. Len(Append(l, x)) = Len(l) + 1 /\ Append(l, x)[Len(l) + 1] = x /\ Len(l) \in Nat
  OBVIOUS
<1>2. ASSUME Append(l, x) = <<(<<>>)>> PROVE l = <<>> /\ x = <<>>
  <2>1. Len(l) + 1 = 1
    BY <1>1, <1>2
  <2>2. Len(l) = 0
    BY <1>1, <2>1
  <2>3. l = <<>>
    BY <2>2
  <2>4. x = <<(<<>>)>>[1]
    BY <1>1, <1>2, <2>1
  <2> QED
    BY <2>3, <2>4
<1>3. ASSUME l = <<>>, x = <<>> PROVE Append(l, x) = <<(<<>>)>>
  BY <1>3
<1> QED
  BY <1>2, <1>3

\* The texts between cuts are texts.
LEMMA PiecesText ==
  ASSUME NEW C, NEW s \in Seq(C), NEW e, NEW m \in Nat,
         \A k \in 0 .. m : e[k] \in 0 .. Len(s) + 1
  PROVE  Pieces(s, e, m) \in Seq(Seq(C))
<1>1. ASSUME NEW k \in 1 .. m PROVE TrimQuotes(SubSeq(s, e[k - 1] + 1, e[k] - 1)) \in Seq(C)
  <2>1. e[k - 1] \in 0 .. Len(s) + 1 /\ e[k] \in 0 .. Len(s) + 1 /\ Len(s) \in Nat
    OBVIOUS
  <2> DEFINE a == e[k - 1] + 1
             b == e[k] - 1
             t == SubSeq(s, a, b)
  <2>2. a \in 1 .. Len(s) + 2 /\ b \in -1 .. Len(s)
    BY <2>1
  <2> HIDE DEF a, b
  <2>3. t \in Seq(C)
    <3>1. \A i \in a .. b : s[i] \in C
      BY <2>1, <2>2
    <3> QED
      BY <3>1, <2>1, <2>2, SubSeqProperties
  <2> QED
    BY <2>3, TrimText DEF a, b
<1> QED
  BY <1>1 DEF Pieces

\* For every text, parseString cuts it at the commas outside quotes, or refuses it
\* for a quote without its match.
LEMMA ListMeans ==
  ASSUME NEW C, NEW s \in Seq(C)
  PROVE  MeansFields(s) /\ ParseString(s).list \in Seq(Seq(C))
<1>0. Len(s) \in Nat /\ DOMAIN s = 1 .. Len(s)
  OBVIOUS
<1>1. PICK r : /\ ParseString(s) = [ok |-> ~r[Len(s)].quoted,
                                    list |-> IF r[Len(s)].quoted THEN <<>> ELSE End(r[Len(s)])]
               /\ r[0] = Builder
               /\ \A n \in 1 .. Len(s) : r[n] = WriteRune(r[n - 1], s[n])
  BY <1>0, ReadUnfolds
<1> DEFINE n == Len(s)
           b == r[n]
           even == Even(QuotesBefore(s, n + 1))
<1>2. DOMAIN b = {"quoted", "text", "list"} /\ b.quoted = ~even /\ \E e, m : AtCuts(s, b, n, e, m)
  BY <1>0, <1>1, ReadAtCuts
<1>3. PICK e, m : AtCuts(s, b, n, e, m)
  BY <1>2
<1> HIDE DEF b, even
<1>4. ParseString(s) = [ok |-> ~b.quoted, list |-> IF b.quoted THEN <<>> ELSE End(b)]
  BY <1>1 DEF b
<1>5. n \in Nat /\ n <= Len(s)
  BY <1>0
<1>6. PICK f : CutAfter(s, b, n, f, m + 1)
  BY <1>2, <1>3, <1>5, WriteCut
<1>7. m \in Nat /\ m + 1 \in Nat
  BY <1>3 DEF AtCuts
<1>8. Counts(f, m + 1, Cuts(s) \cup {0, Len(s) + 1})
  <2>1. {i \in Cuts(s) : i <= n} = Cuts(s)
    BY <1>0 DEF Cuts
  <2>2. {0} \cup {i \in Cuts(s) : i <= n} \cup {n + 1} = Cuts(s) \cup {0, Len(s) + 1}
    BY <2>1
  <2> QED
    BY <1>6, <2>2 DEF CutAfter
<1> DEFINE All == Pieces(s, f, m + 1)
           last == TrimQuotes(b.text)
<1>9. Fields(s) = IF All = <<(<<>>)>> THEN <<>> ELSE All
  BY <1>7, <1>8, FieldsAre
<1>10. All = Append(b.list, last)
  BY <1>6 DEF CutAfter
<1>11. /\ All = <<(<<>>)>> <=> b.list = <<>> /\ last = <<>>
       /\ Append(b.list, last) \in Seq(Seq(C))
  <2>1. \A k \in 0 .. m : e[k] \in 0 .. Len(s) + 1
    <3>1. \A k \in 0 .. m : e[k] \in {0} \cup {i \in Cuts(s) : i <= n}
      BY <1>3 DEF AtCuts, Counts
    <3>2. Cuts(s) \subseteq 1 .. Len(s)
      BY <1>0 DEF Cuts
    <3> QED
      BY <3>1, <3>2, <1>0
  <2>2. b.list \in Seq(Seq(C))
    BY <2>1, <1>3, <1>7, PiecesText DEF AtCuts
  <2>3. b.text \in Seq(C)
    <3>1. b.text = SubSeq(s, e[m] + 1, n) /\ e[m] \in 0 .. Len(s) + 1
      BY <1>3, <1>7, <2>1 DEF AtCuts
    <3> DEFINE a == e[m] + 1
    <3>2. a \in 1 .. Len(s) + 2
      BY <3>1, <1>0
    <3> HIDE DEF a
    <3>3. \A i \in a .. n : s[i] \in C
      BY <3>2, <1>0
    <3> QED
      BY <3>1, <3>2, <3>3, <1>0, SubSeqProperties DEF a
  <2>4. last \in Seq(C)
    BY <2>3, TrimText
  <2> DEFINE D == Seq(C)
  <2>5. b.list \in Seq(D) /\ last \in D
    BY <2>2, <2>4
  <2> HIDE DEF last, All, D
  <2>6. Append(b.list, last) = <<(<<>>)>> <=> b.list = <<>> /\ last = <<>>
    BY <2>5, OneEmpty
  <2>7. Append(b.list, last) \in Seq(D)
    BY <2>5
  <2> QED
    BY <1>10, <2>6, <2>7 DEF D
<1>12. End(b) = Fields(s)
  <2>1. End(b) = IF b.list = <<>> /\ last = <<>> THEN <<>> ELSE Append(b.list, last)
    BY DEF End
  <2> HIDE DEF last, All
  <2> QED
    BY <2>1, <1>9, <1>10, <1>11
<1>15. <<>> \in Seq(Seq(C))
  OBVIOUS
<1>16. Fields(s) \in Seq(Seq(C))
  <2> HIDE DEF All, last
  <2> QED
    BY <1>9, <1>10, <1>11, <1>15
<1>13. CASE even
  <2>1. ParseString(s) = [ok |-> TRUE, list |-> Fields(s)]
    BY <1>2, <1>4, <1>12, <1>13
  <2> QED
    BY <1>13, <1>16, <2>1 DEF MeansFields, even
<1>14. CASE ~even
  <2>1. ParseString(s) = [ok |-> FALSE, list |-> <<>>]
    BY <1>2, <1>4, <1>14
  <2> QED
    BY <1>14, <1>15, <2>1 DEF MeansFields, even
<1> QED
  BY <1>13, <1>14

\* The same over all the uses of a flag.
LEMMA EachMeans ==
  ASSUME NEW args, \A i \in DOMAIN args : IsSeq(args[i])
  PROVE  /\ \A i \in DOMAIN args : MeansFields(args[i])
         /\ SetEach(args).ok <=> \A i \in DOMAIN args : Even(QuotesBefore(args[i], Len(args[i]) + 1))
         /\ SetEach(args).ok => SetEach(args).list = FlattenSeq([i \in DOMAIN args |-> Fields(args[i])])
<1> DEFINE even(i) == Even(QuotesBefore(args[i], Len(args[i]) + 1))
           parsed == [i \in DOMAIN args |-> ParseString(args[i])]
<1>1. \A i \in DOMAIN args : MeansFields(args[i])
  BY ListMeans DEF IsSeq
<1>2. SetEach(args) = [ok |-> \A i \in DOMAIN args : parsed[i].ok, list |-> FlattenSeq([i \in DOMAIN args |-> parsed[i].list])]
  BY DEF SetEach
<1>3. ASSUME NEW i \in DOMAIN args
      PROVE  (parsed[i].ok <=> even(i)) /\ (even(i) => parsed[i].list = Fields(args[i]))
  <2>1. parsed[i] = IF even(i) THEN [ok |-> TRUE, list |-> Fields(args[i])] ELSE [ok |-> FALSE, list |-> <<>>]
    BY <1>1 DEF MeansFields
  <2> HIDE DEF even, parsed
  <2>2. CASE even(i)
    BY <2>1, <2>2
  <2>3. CASE ~even(i)
    BY <2>1, <2>3
  <2> QED
    BY <2>2, <2>3
<1> HIDE DEF even, parsed
<1>4. SetEach(args).ok <=> \A i \in DOMAIN args : even(i)
  BY <1>2, <1>3
<1>5. ASSUME SetEach(args).ok PROVE SetEach(args).list = FlattenSeq([i \in DOMAIN args |-> Fields(args[i])])
  <2>1. [i \in DOMAIN args |-> parsed[i].list] = [i \in DOMAIN args |-> Fields(args[i])]
    BY <1>3, <1>4, <1>5
  <2> QED
    BY <1>2, <2>1
<1> QED
  BY <1>1, <1>4, <1>5 DEF even

------------------------------------------------------------------------------
\* JSON.

\* The Go value that JSON is read into has the fields of its kind, and its kind is
\* always written.
LEMMA ZeroFields ==
  ASSUME NEW k \in Kinds
  PROVE  /\ DOMAIN GoZero[k] = DOMAIN Empty[k] /\ "kind" \in DOMAIN Empty[k] /\ "kind" \notin OmitEmpty(k)
         /\ "fd" \in DOMAIN Empty[k] => k = "net"
<1>1. "kind" \notin OmitEmpty(k)
  BY DEF OmitEmpty
<1>2. DOMAIN GoZero[k] = DOMAIN Empty[k]
  <2>1. k \in DOMAIN Empty
    BY DEF Kinds
  <2>2. CASE k \notin {"nbd", "vsock"}
    <3>1. GoZero[k] = Empty[k]
      BY <2>1, <2>2 DEF GoZero
    <3> QED
      BY <3>1
  <2>3. CASE k = "nbd"
    BY <2>3 DEF GoZero, Empty
  <2>4. CASE k = "vsock"
    BY <2>4 DEF GoZero, Empty
  <2> QED
    BY <2>2, <2>3, <2>4
<1>3. "kind" \in DOMAIN Empty[k]
  BY EmptyFits
<1>4. ASSUME k # "net" PROVE "fd" \notin DOMAIN Empty[k]
  <2>1. CASE k = "nvme"
    BY <2>1 DEF Empty, Disk
  <2>2. CASE k = "usb"
    BY <2>2 DEF Empty, Disk
  <2>3. CASE k = "blk"
    BY <2>3 DEF Empty, Disk
  <2>4. CASE k = "nbd"
    BY <2>4 DEF Empty, Disk
  <2>5. CASE k = "serial"
    BY <2>5 DEF Empty, Disk
  <2>6. CASE k = "input"
    BY <2>6 DEF Empty, Disk
  <2>7. CASE k = "gpu"
    BY <2>7 DEF Empty, Disk
  <2>8. CASE k = "vsock"
    BY <2>8 DEF Empty, Disk
  <2>9. CASE k = "fs"
    BY <2>9 DEF Empty, Disk
  <2>10. CASE k = "rosetta"
    BY <2>10 DEF Empty, Disk
  <2>11. CASE k = "rng"
    BY <2>11 DEF Empty, Disk
  <2>12. CASE k = "balloon"
    BY <2>12 DEF Empty, Disk
  <2>13. CASE k = "timesync"
    BY <2>13 DEF Empty, Disk
  <2> QED
    BY <1>4, KindsAre, <2>1, <2>2, <2>3, <2>4, <2>5, <2>6, <2>7, <2>8, <2>9, <2>10, <2>11, <2>12, <2>13
<1> QED
  BY <1>1, <1>2, <1>3, <1>4

\* The kind that a device is written with is its own.
LEMMA MarshalKind ==
  ASSUME NEW d, IsDevice(d)
  PROVE  MarshalDevice(d).kind = d.kind /\ d.kind \in Kinds
<1>1. d.kind \in Kinds /\ DOMAIN d = DOMAIN Empty[d.kind]
  BY DEF IsDevice, Kinds
<1>2. "kind" \in DOMAIN d /\ "kind" \notin OmitEmpty(d.kind)
  BY <1>1, ZeroFields
<1> QED
  BY <1>1, <1>2 DEF MarshalDevice

\* A device that is no interface is read from JSON as it was written, the fields
\* that omitempty leaves out included.
LEMMA JsonDevice ==
  ASSUME NEW d, IsDevice(d), d.kind # "net"
  PROVE  UnmarshalDevice(MarshalDevice(d)) = d
<1> DEFINE o == MarshalDevice(d)
           z == GoZero[d.kind]
<1>1. d.kind \in Kinds /\ d = [f \in DOMAIN Empty[d.kind] |-> d[f]]
  BY DEF IsDevice, Kinds
<1>2. DOMAIN z = DOMAIN d /\ "fd" \notin DOMAIN d
  BY <1>1, ZeroFields
<1>3. /\ DOMAIN o \subseteq DOMAIN d
      /\ \A f \in DOMAIN o : o[f] = d[f]
      /\ \A f \in DOMAIN d : f \notin DOMAIN o => d[f] = z[f]
  BY <1>2 DEF MarshalDevice
<1>4. UnmarshalDevice(o) = Over(o, z)
  BY MarshalKind DEF UnmarshalDevice
<1> HIDE DEF o, z
<1>5. Over(o, z) = [f \in DOMAIN d |-> d[f]]
  BY <1>2, <1>3 DEF Over
<1> QED
  BY <1>1, <1>4, <1>5 DEF o

\* An interface is read with its address, its path and whether it has a file, or
\* refused for its address.
LEMMA JsonNet ==
  ASSUME NEW d, IsDevice(d), d.kind = "net"
  PROVE  LET b == UnmarshalDevice(MarshalDevice(d))
         IN  IF d.mac \notin DOMAIN ParseMAC \cup {""} THEN b = Error
             ELSE /\ DOMAIN b = DOMAIN d /\ b = [f \in DOMAIN d |-> b[f]]
                  /\ b.kind = "net" /\ b.nat = d.nat /\ b.mac = d.mac /\ b.path = d.path
                  /\ b.fd = IF d.fd = NoFd THEN NoFd ELSE NoFile
<1> DEFINE o == MarshalDevice(d)
           z == [GoZero.net EXCEPT !.magic = "on"]
           m == Over(o, z)
<1>1. d = [f \in DOMAIN d |-> d[f]] /\ DOMAIN d = {"kind", "nat", "mac", "fd", "path", "magic"}
  BY DEF IsDevice, Empty
<1>2. /\ GoZero.net.path = "" /\ GoZero.net.mac = "" /\ GoZero.net.fd = NoFd /\ DOMAIN GoZero.net = DOMAIN d
      /\ GoZero.net = [f \in DOMAIN d |-> GoZero.net[f]]
  BY <1>1 DEF GoZero, Empty
<1>3. OmitEmpty("net") = {"fd", "path", "magic", "mac"}
  BY DEF OmitEmpty
<1>4. /\ DOMAIN z = DOMAIN d /\ z.path = "" /\ z.mac = "" /\ z.fd = NoFd
  BY <1>1, <1>2
<1>5. /\ DOMAIN o \subseteq DOMAIN d /\ {"kind", "nat"} \subseteq DOMAIN o
      /\ o.kind = "net" /\ o.nat = d.nat
      /\ "mac" \in DOMAIN o <=> d.mac # ""
      /\ "path" \in DOMAIN o <=> d.path # ""
      /\ "fd" \in DOMAIN o <=> d.fd # NoFd
  <2>1. DOMAIN o = {f \in DOMAIN d : f \in {"fd", "path", "magic", "mac"} => d[f] # GoZero.net[f]}
    BY <1>3 DEF MarshalDevice
  <2>2. \A f \in DOMAIN o : o[f] = IF f = "fd" /\ d.fd # NoFd THEN NoFile ELSE d[f]
    BY DEF MarshalDevice
  <2> HIDE DEF o
  <2> QED
    BY <2>1, <2>2, <1>1, <1>2
<1>6. /\ "mac" \in DOMAIN o => o.mac = d.mac
      /\ "path" \in DOMAIN o => o.path = d.path
      /\ "fd" \in DOMAIN o => o.fd = NoFile
  BY <1>5 DEF MarshalDevice
<1> HIDE DEF o, z
<1>7. /\ DOMAIN m = DOMAIN d /\ m = [f \in DOMAIN d |-> m[f]] /\ m.kind = "net" /\ m.nat = d.nat
      /\ m.mac = d.mac /\ m.path = d.path
      /\ m.fd = IF d.fd = NoFd THEN NoFd ELSE NoFile
  BY <1>1, <1>4, <1>5, <1>6 DEF Over
<1> HIDE DEF m
<1>8. UnmarshalDevice(o) = UnmarshalVirtioNet(o)
  BY <1>5 DEF UnmarshalDevice
<1>9. UnmarshalVirtioNet(o) =
        IF "mac" \in DOMAIN o /\ o.mac \notin DOMAIN ParseMAC THEN Error
        ELSE [m EXCEPT !.mac = IF m.mac = "" THEN "" ELSE ParseMAC[m.mac],
                       !.magic = IF m.path = "" THEN "off" ELSE m.magic]
  BY DEF UnmarshalVirtioNet, m, z
<1>10. CASE d.mac \notin DOMAIN ParseMAC \cup {""}
  BY <1>5, <1>6, <1>8, <1>9, <1>10 DEF o
<1>11. CASE d.mac \in DOMAIN ParseMAC \cup {""}
  <2>1. d.mac # "" => ParseMAC[d.mac] = d.mac
    BY <1>1, <1>11 DEF IsDevice
  <2>2. ~("mac" \in DOMAIN o /\ o.mac \notin DOMAIN ParseMAC)
    BY <1>5, <1>6, <1>11
  <2> DEFINE b == [m EXCEPT !.mac = IF m.mac = "" THEN "" ELSE ParseMAC[m.mac],
                            !.magic = IF m.path = "" THEN "off" ELSE m.magic]
  <2>3. UnmarshalDevice(o) = b
    BY <1>8, <1>9, <2>2
  <2>4. /\ DOMAIN b = DOMAIN d /\ b = [f \in DOMAIN d |-> b[f]]
        /\ b.kind = "net" /\ b.nat = d.nat /\ b.path = d.path
        /\ b.fd = IF d.fd = NoFd THEN NoFd ELSE NoFile
    BY <1>7, <1>1
  <2>5. b.mac = d.mac
    BY <1>7, <1>1, <2>1
  <2> HIDE DEF b
  <2> QED
    BY <1>11, <2>3, <2>4, <2>5 DEF o
<1> QED
  BY <1>10, <1>11

\* The fields of a machine.
VmFields == {"kind", "vcpus", "memory", "boot", "timesync", "nested", "devices", "ignition"}

\* What JSON carries of one device.
CarriedJsonDevice(d) ==
  IF d.kind # "net" THEN d
  ELSE [d EXCEPT !.magic = "off", !.fd = IF HasFile(d) THEN NoFile ELSE NoFd]

\* What JSON carries of a machine, field by field.
LEMMA CarriedJsonFields ==
  ASSUME NEW v, v = [f \in VmFields |-> v[f]], v.ignition = [path |-> v.ignition.path, port |-> v.ignition.port]
  PROVE  LET c == CarriedJson(v)
         IN  /\ c = [f \in VmFields |-> c[f]]
             /\ c.nested = FALSE /\ c.ignition = [path |-> v.ignition.path, port |-> 0]
             /\ c.devices = [i \in DOMAIN v.devices |-> CarriedJsonDevice(v.devices[i])]
             /\ c.kind = v.kind /\ c.vcpus = v.vcpus /\ c.memory = v.memory /\ c.boot = v.boot /\ c.timesync = v.timesync
<1> DEFINE c == CarriedJson(v)
           D == [i \in DOMAIN v.devices |->
                  IF v.devices[i].kind # "net" THEN v.devices[i]
                  ELSE [v.devices[i] EXCEPT !.magic = "off", !.fd = IF HasFile(v.devices[i]) THEN NoFile ELSE NoFd]]
<1>1. DOMAIN v = VmFields
  OBVIOUS
<1>2. D = [i \in DOMAIN v.devices |-> CarriedJsonDevice(v.devices[i])]
  BY DEF CarriedJsonDevice
<1>3. c = [v EXCEPT !.nested = FALSE, !.ignition.port = 0, !.devices = D]
  BY DEF CarriedJson
<1> HIDE DEF c, D
<1>4. c = [f \in VmFields |-> c[f]]
  BY <1>1, <1>3
<1>5. c.nested = FALSE /\ c.devices = D
  BY <1>1, <1>3 DEF VmFields
<1>6. c.ignition = [path |-> v.ignition.path, port |-> 0]
  BY <1>1, <1>3 DEF VmFields
<1>7. c.kind = v.kind /\ c.vcpus = v.vcpus /\ c.memory = v.memory /\ c.boot = v.boot /\ c.timesync = v.timesync
  BY <1>1, <1>3 DEF VmFields
<1> QED
  BY <1>2, <1>4, <1>5, <1>6, <1>7 DEF c

\* What JSON carries of a device is read again.
LEMMA JsonDeviceCarries ==
  ASSUME NEW d, IsDevice(d)
  PROVE  LET b == UnmarshalDevice(MarshalDevice(d))
         IN  IF d.kind = "net" /\ d.mac \notin DOMAIN ParseMAC \cup {""} THEN b = Error
             ELSE b # Error /\ CarriedJsonDevice(b) = CarriedJsonDevice(d)
<1> DEFINE b == UnmarshalDevice(MarshalDevice(d))
<1>1. CASE d.kind # "net"
  <2>1. b = d /\ d # Error
    BY <1>1, JsonDevice, CarriedOnce
  <2> QED
    BY <1>1, <2>1
<1>2. CASE d.kind = "net" /\ d.mac \notin DOMAIN ParseMAC \cup {""}
  BY <1>2, JsonNet
<1>3. CASE d.kind = "net" /\ d.mac \in DOMAIN ParseMAC \cup {""}
  <2>1. /\ DOMAIN b = DOMAIN d /\ b = [f \in DOMAIN d |-> b[f]]
        /\ b.kind = "net" /\ b.nat = d.nat /\ b.mac = d.mac /\ b.path = d.path
        /\ b.fd = IF d.fd = NoFd THEN NoFd ELSE NoFile
    BY <1>3, JsonNet
  <2>2. d = [f \in DOMAIN d |-> d[f]] /\ DOMAIN d = {"kind", "nat", "mac", "fd", "path", "magic"}
    <3>1. d = [f \in DOMAIN Empty.net |-> d[f]]
      BY <1>3 DEF IsDevice
    <3>2. DOMAIN Empty.net = {"kind", "nat", "mac", "fd", "path", "magic"}
      BY DEF Empty
    <3> QED
      BY <3>1, <3>2
  <2> HIDE DEF b
  <2>3. b # Error
    BY <2>1 DEF Error
  <2>4. HasFile(b) <=> HasFile(d)
    <3>1. NoFd # NoFile
      BY DEF NoFd, NoFile
    <3>2. b.fd # NoFd <=> d.fd # NoFd
      BY <2>1, <3>1
    <3> QED
      BY <2>1, <1>3, <3>2 DEF HasFile
  <2> DEFINE fd == IF HasFile(d) THEN NoFile ELSE NoFd
  <2>5. CarriedJsonDevice(b) = [b EXCEPT !.magic = "off", !.fd = fd]
    BY <2>1, <2>4 DEF CarriedJsonDevice
  <2>6. CarriedJsonDevice(d) = [d EXCEPT !.magic = "off", !.fd = fd]
    BY <1>3 DEF CarriedJsonDevice
  <2> HIDE DEF fd
  <2>7. [b EXCEPT !.magic = "off", !.fd = fd] = [d EXCEPT !.magic = "off", !.fd = fd]
    <3> DEFINE x == [b EXCEPT !.magic = "off", !.fd = fd]
               y == [d EXCEPT !.magic = "off", !.fd = fd]
    <3>1. x = [f \in DOMAIN d |-> x[f]] /\ y = [f \in DOMAIN d |-> y[f]]
      BY <2>1, <2>2
    <3>2. ASSUME NEW f \in DOMAIN d PROVE x[f] = y[f]
      BY <2>1, <2>2, <1>3
    <3> HIDE DEF x, y
    <3>3. x = y
      BY <3>1, <3>2
    <3> QED
      BY <3>3 DEF x, y
  <2> QED
    BY <1>3, <2>3, <2>5, <2>6, <2>7 DEF b
<1> QED
  BY <1>1, <1>2, <1>3

\* What JSON carries of a machine is read again, or the machine is refused for its
\* boot loader or for the address of an interface.
LEMMA JsonMachine ==
  ASSUME NEW vm, IsMachine(vm)
  PROVE  LET b == UnmarshalJSON(MarshalJSON(vm))
         IN  IF Unreadable(vm) THEN b = Error ELSE b # Error /\ CarriedJson(b) = CarriedJson(vm)
<1> DEFINE doc == MarshalJSON(vm)
           O == [i \in DOMAIN vm.devices |-> MarshalDevice(vm.devices[i])]
           D == [i \in DOMAIN vm.devices |-> UnmarshalDevice(MarshalDevice(vm.devices[i]))]
           b == UnmarshalJSON(doc)
           bad == \E i \in DOMAIN vm.devices : vm.devices[i].kind = "net" /\ vm.devices[i].mac \notin DOMAIN ParseMAC \cup {""}
<1>1. /\ vm = [f \in VmFields |-> vm[f]] /\ DOMAIN vm = VmFields
      /\ vm.ignition = [path |-> vm.ignition.path, port |-> vm.ignition.port]
      /\ \A i \in DOMAIN vm.devices : IsDevice(vm.devices[i])
  BY DEF IsMachine, VmFields
<1>2. doc = [vm EXCEPT !.boot = MarshalBootloader(vm.boot), !.ignition.port = 0, !.devices = O]
  BY DEF MarshalJSON
<1> HIDE DEF doc
<1>3. DOMAIN doc = VmFields /\ doc = [f \in VmFields |-> doc[f]] /\ doc.devices = O /\ doc.boot = MarshalBootloader(vm.boot)
  BY <1>1, <1>2 DEF VmFields
<1>4. doc.ignition = [path |-> vm.ignition.path, port |-> 0]
  BY <1>1, <1>2 DEF VmFields
<1>5. doc.kind = vm.kind /\ doc.vcpus = vm.vcpus /\ doc.memory = vm.memory /\ doc.timesync = vm.timesync
  BY <1>1, <1>2 DEF VmFields
<1>6. [i \in DOMAIN doc.devices |-> UnmarshalDevice(doc.devices[i])] = D
  BY <1>3
<1>7. Error \in ToSet(D) <=> bad
  <2>1. \A i \in DOMAIN vm.devices : D[i] = Error <=> vm.devices[i].kind = "net" /\ vm.devices[i].mac \notin DOMAIN ParseMAC \cup {""}
    BY <1>1, JsonDeviceCarries
  <2>2. ToSet(D) = {D[i] : i \in DOMAIN vm.devices}
    BY DEF ToSet
  <2> QED
    BY <2>1, <2>2
<1>8. vm.boot.kind \in {"efi", "linux", "macos", "none"}
  BY DEF IsMachine, IsLoader, Loader, NoBoot
<1>9. UnmarshalBootloader(doc.boot) = IF vm.boot.kind = "macos" THEN Error ELSE vm.boot
  <2>1. CASE vm.boot.kind = "macos"
    <3>1. IsLoader(vm.boot)
      BY <2>1 DEF IsMachine, NoBoot
    <3>2. doc.boot = [vm.boot EXCEPT !.kind = ""] /\ "kind" \in DOMAIN vm.boot
      <4>1. doc.boot = [vm.boot EXCEPT !.kind = ""]
        BY <2>1, <1>3 DEF MarshalBootloader
      <4>2. DOMAIN vm.boot = DOMAIN Loader.macos
        BY <2>1, <3>1 DEF IsLoader
      <4>3. "kind" \in DOMAIN Loader.macos
        BY DEF Loader
      <4> QED
        BY <4>1, <4>2, <4>3
    <3>3. doc.boot.kind = ""
      BY <3>2
    <3> QED
      BY <2>1, <3>3 DEF UnmarshalBootloader
  <2>2. CASE vm.boot.kind # "macos"
    BY <2>2, <1>3, <1>8 DEF MarshalBootloader, UnmarshalBootloader
  <2> QED
    BY <2>1, <2>2
<1>10. UnmarshalBootloader(doc.boot) = Error <=> vm.boot.kind = "macos"
  BY <1>8, <1>9 DEF Error
<1>11. CASE Unreadable(vm)
  BY <1>6, <1>7, <1>10, <1>11 DEF Unreadable, UnmarshalJSON, doc
<1>12. CASE ~Unreadable(vm)
  <2>1. vm.boot.kind # "macos" /\ ~bad
    BY <1>12 DEF Unreadable
  <2>2. b = [doc EXCEPT !.boot = vm.boot, !.devices = D, !.nested = FALSE]
    <3> HIDE DEF D, bad
    <3> QED
      BY <2>1, <1>6, <1>7, <1>9, <1>10 DEF UnmarshalJSON
  <2> HIDE DEF b, D
  <2>3. /\ b = [f \in VmFields |-> b[f]] /\ b.boot = vm.boot /\ b.devices = D /\ b.nested = FALSE
    BY <2>2, <1>3 DEF VmFields
  <2>4. b.ignition = [path |-> vm.ignition.path, port |-> 0]
    BY <2>2, <1>3, <1>4 DEF VmFields
  <2>5. b.kind = vm.kind /\ b.vcpus = vm.vcpus /\ b.memory = vm.memory /\ b.timesync = vm.timesync
    BY <2>2, <1>3, <1>5 DEF VmFields
  <2>6. b # Error
    <3>1. DOMAIN b = VmFields
      BY <2>3
    <3> QED
      BY <3>1 DEF Error, VmFields
  <2>7. [i \in DOMAIN D |-> CarriedJsonDevice(D[i])] = [i \in DOMAIN vm.devices |-> CarriedJsonDevice(vm.devices[i])]
    <3>1. DOMAIN D = DOMAIN vm.devices
      BY DEF D
    <3>2. ASSUME NEW i \in DOMAIN vm.devices PROVE CarriedJsonDevice(D[i]) = CarriedJsonDevice(vm.devices[i])
      <4>1. ~(vm.devices[i].kind = "net" /\ vm.devices[i].mac \notin DOMAIN ParseMAC \cup {""})
        BY <2>1
      <4>2. D[i] = UnmarshalDevice(MarshalDevice(vm.devices[i]))
        BY DEF D
      <4> QED
        BY <4>1, <4>2, <1>1, JsonDeviceCarries
    <3> QED
      BY <3>1, <3>2
  <2> DEFINE c == CarriedJson(b)
             e == CarriedJson(vm)
  <2>8. /\ c = [f \in VmFields |-> c[f]]
        /\ c.nested = FALSE /\ c.ignition = [path |-> b.ignition.path, port |-> 0]
        /\ c.devices = [i \in DOMAIN b.devices |-> CarriedJsonDevice(b.devices[i])]
        /\ c.kind = b.kind /\ c.vcpus = b.vcpus /\ c.memory = b.memory /\ c.boot = b.boot /\ c.timesync = b.timesync
    <3>1. b.ignition = [path |-> b.ignition.path, port |-> b.ignition.port]
      BY <2>4
    <3> QED
      BY <2>3, <3>1, CarriedJsonFields
  <2>9. /\ e = [f \in VmFields |-> e[f]]
        /\ e.nested = FALSE /\ e.ignition = [path |-> vm.ignition.path, port |-> 0]
        /\ e.devices = [i \in DOMAIN vm.devices |-> CarriedJsonDevice(vm.devices[i])]
        /\ e.kind = vm.kind /\ e.vcpus = vm.vcpus /\ e.memory = vm.memory /\ e.boot = vm.boot /\ e.timesync = vm.timesync
    BY <1>1, CarriedJsonFields
  <2> HIDE DEF c, e
  <2>10. c.devices = e.devices
    BY <2>3, <2>7, <2>8, <2>9
  <2>11. c.ignition = e.ignition
    BY <2>4, <2>8, <2>9
  <2>12. \A f \in VmFields : c[f] = e[f]
    BY <2>3, <2>5, <2>8, <2>9, <2>10, <2>11 DEF VmFields
  <2>13. c = e
    BY <2>8, <2>9, <2>12
  <2> QED
    BY <1>12, <2>6, <2>13 DEF b, c, e, doc
<1> QED
  BY <1>11, <1>12

------------------------------------------------------------------------------
\* Boot loaders and command lines: what vfkit accepts.

\* A sequence, over whatever set it was given.
LEMMA SeqIs ==
  ASSUME NEW C, NEW t \in Seq(C)
  PROVE  IsSeq(t) /\ DOMAIN t = 1 .. Len(t) /\ Len(t) \in Nat
<1>1. DOMAIN t = 1 .. Len(t) /\ Len(t) \in Nat /\ t = [i \in 1 .. Len(t) |-> t[i]]
  OBVIOUS
<1>2. \A i \in 1 .. Len(t) : t[i] \in ToSet(t)
  BY <1>1 DEF ToSet
<1> QED
  BY <1>1, <1>2 DEF IsSeq

\* The elements of a list flag are texts.
LEMMA EachText ==
  ASSUME NEW args, IsSeq(args), \A i \in DOMAIN args : IsSeq(args[i])
  PROVE  \E C : SetEach(args).list \in Seq(Seq(C))
<1> DEFINE C == UNION {ToSet(args[i]) : i \in DOMAIN args}
           lists == [i \in DOMAIN args |-> ParseString(args[i]).list]
<1>1. DOMAIN args = 1 .. Len(args) /\ Len(args) \in Nat
  BY DEF IsSeq
<1>2. ASSUME NEW i \in DOMAIN args PROVE ParseString(args[i]).list \in Seq(Seq(C))
  <2>1. args[i] \in Seq(ToSet(args[i]))
    BY DEF IsSeq
  <2>2. ToSet(args[i]) \subseteq C
    OBVIOUS
  <2> HIDE DEF C
  <2>3. args[i] \in Seq(C)
    BY <2>1, <2>2
  <2> QED
    BY <2>3, ListMeans
<1> HIDE DEF C
<1>3. lists \in Seq(Seq(Seq(C)))
  BY <1>1, <1>2
<1>4. SetEach(args).list = FlattenSeq(lists)
  BY DEF SetEach
<1> HIDE DEF lists
<1>5. FlattenSeq(lists) \in Seq(Seq(C))
  BY <1>3, FlattenHolds
<1> QED
  BY <1>4, <1>5

\* The loop of BootloaderFromCmdLine over the options of a boot loader is what they
\* make of it, one after the other, empty ones skipped.
LEMMA LoaderUnfolds ==
  ASSUME NEW list, Len(list) \in Nat \ {0}, Len(Head(list)) = 1, Head(list)[1] \in DOMAIN Loader
  PROVE  \E b : /\ BootloaderFromCmdLine(list) = b[Len(list)]
                /\ b[1] = Loader[Head(list)[1]]
                /\ \A n \in 2 .. Len(list) : b[n] = IF list[n] = <<>> THEN b[n - 1] ELSE LoaderApply(b[n - 1], list[n])
<1> DEFINE first == Loader[Head(list)[1]]
           Def(b, m) == b = [n \in 1 .. m |->
                               CASE n = 1                   -> first
                                 [] n > 1 /\ list[n] = <<>> -> b[n - 1]
                                 [] OTHER                   -> LoaderApply(b[n - 1], list[n])]
           S == {m \in Nat : \E b : Def(b, m + 1)}
           c == CHOOSE b : Def(b, Len(list))
<1>0. BootloaderFromCmdLine(list) = c[Len(list)]
  <2>1. list # <<>>
    OBVIOUS
  <2> QED
    BY <2>1 DEF BootloaderFromCmdLine
<1> HIDE DEF first
<1>1. 0 \in S
  <2>1. Def([n \in 1 .. 1 |-> first], 0 + 1)
    OBVIOUS
  <2> QED
    BY <2>1
<1>2. ASSUME NEW m \in Nat, m \in S PROVE m + 1 \in S
  <2>1. PICK b : Def(b, m + 1)
    BY <1>2
  <2> DEFINE e == [n \in 1 .. m + 2 |-> IF n = m + 2 THEN (IF list[n] = <<>> THEN b[m + 1] ELSE LoaderApply(b[m + 1], list[n])) ELSE b[n]]
  <2>2. Def(e, m + 2)
    <3>1. ASSUME NEW n \in 1 .. m + 2
          PROVE  e[n] = CASE n = 1                   -> first
                          [] n > 1 /\ list[n] = <<>> -> e[n - 1]
                          [] OTHER                   -> LoaderApply(e[n - 1], list[n])
      <4>1. CASE n = m + 2
        BY <4>1
      <4>2. CASE n = 1
        BY <4>2, <2>1
      <4>3. CASE n \in 2 .. m + 1
        <5>1. e[n] = b[n] /\ e[n - 1] = b[n - 1]
          BY <4>3
        <5>2. b[n] = IF list[n] = <<>> THEN b[n - 1] ELSE LoaderApply(b[n - 1], list[n])
          BY <4>3, <2>1
        <5> HIDE DEF e
        <5> QED
          BY <4>3, <5>1, <5>2
      <4> QED
        BY <4>1, <4>2, <4>3
    <3> HIDE DEF e
    <3> QED
      BY <3>1 DEF e
  <2>3. \E x : Def(x, (m + 1) + 1)
    <3>1. (m + 1) + 1 = m + 2
      OBVIOUS
    <3> HIDE DEF e, Def
    <3> QED
      BY <2>2, <3>1
  <2>4. m + 1 \in Nat
    OBVIOUS
  <2> HIDE DEF Def
  <2> QED
    BY <2>3, <2>4
<1>3. Len(list) - 1 \in S
  <2> HIDE DEF S
  <2> QED
    BY <1>1, <1>2, Induction
<1>4. PICK b : Def(b, Len(list))
  BY <1>3
<1>5. Def(c, Len(list))
  BY <1>4
<1> HIDE DEF c
<1>6. c[1] = first
  BY <1>5
<1>7. \A n \in 2 .. Len(list) : c[n] = IF list[n] = <<>> THEN c[n - 1] ELSE LoaderApply(c[n - 1], list[n])
  BY <1>5
<1> QED
  BY <1>0, <1>6, <1>7 DEF first

\* The boot loaders, and the fields their options are for.
LEMMA LoaderKinds ==
  ASSUME NEW k \in DOMAIN Loader
  PROVE  /\ k \in {"efi", "linux", "macos"}
         /\ IsLoader(Loader[k]) /\ Loader[k].kind = k
         /\ \A key \in DOMAIN LoaderFields[k] :
              LoaderFields[k][key] \in DOMAIN Loader[k] \ {"kind"} /\ (LoaderFields[k][key] = "create" <=> key = "create")
<1>1. k \in {"efi", "linux", "macos"}
  BY DEF Loader
<1>2. IsSeq(<<>>)
  BY DEF IsSeq
<1>3. CASE k = "efi"
  <2>1. Loader[k] = [kind |-> "efi", path |-> <<>>, create |-> FALSE]
    BY <1>3 DEF Loader
  <2>a. DOMAIN Loader[k] = {"kind", "path", "create"} /\ Loader[k].kind = k /\ Loader[k].create = FALSE /\ Loader[k].path = <<>>
    BY <2>1, <1>3
  <2>b. Loader[k] = [f \in DOMAIN Loader[k] |-> Loader[k][f]]
    BY <2>1
  <2>2. IsLoader(Loader[k])
    BY <2>a, <2>b, <1>2 DEF IsLoader
  <2>3. LoaderFields[k] = [key \in {"variable-store", "create"} |-> IF key = "create" THEN key ELSE "path"]
    BY <1>3 DEF LoaderFields
  <2> QED
    BY <1>3, <2>1, <2>2, <2>3
<1>4. CASE k = "linux"
  <2>1. Loader[k] = [kind |-> "linux", kernel |-> <<>>, cmdline |-> <<>>, initrd |-> <<>>]
    BY <1>4 DEF Loader
  <2>2. IsLoader(Loader[k])
    BY <2>1, <1>2, <1>4 DEF IsLoader
  <2>3. LoaderFields[k] = [kernel |-> "kernel", cmdline |-> "cmdline", initrd |-> "initrd"]
    BY <1>4 DEF LoaderFields
  <2> QED
    BY <1>4, <2>1, <2>2, <2>3
<1>5. CASE k = "macos"
  <2>1. Loader[k] = [kind |-> "macos", machine |-> <<>>, hardware |-> <<>>, aux |-> <<>>]
    BY <1>5 DEF Loader
  <2>2. IsLoader(Loader[k])
    BY <2>1, <1>2, <1>5 DEF IsLoader
  <2>3. LoaderFields[k] = [machineIdentifierPath |-> "machine", hardwareModelPath |-> "hardware", auxImagePath |-> "aux"]
    BY <1>5 DEF LoaderFields
  <2> QED
    BY <1>5, <2>1, <2>2, <2>3
<1> QED
  BY <1>1, <1>3, <1>4, <1>5

\* An option keeps a boot loader one of its kind.
LEMMA LoaderApplied ==
  ASSUME NEW C, NEW b, IsLoader(b), NEW e \in Seq(C), LoaderApply(b, e) # Error
  PROVE  IsLoader(LoaderApply(b, e)) /\ LoaderApply(b, e).kind = b.kind
<1> DEFINE key == Key(e)
           f == LoaderFields[b.kind][key]
           v == CASE key = "create"  -> TRUE
                  [] key = "cmdline" -> TrimQuotes(Val(e))
                  [] OTHER           -> Val(e)
           w == [b EXCEPT ![f] = v]
<1>1. key \in DOMAIN LoaderFields[b.kind] /\ LoaderApply(b, e) = w
  BY DEF LoaderApply
<1>2. b.kind \in DOMAIN Loader /\ b = [g \in DOMAIN Loader[b.kind] |-> b[g]] /\ DOMAIN b = DOMAIN Loader[b.kind]
  BY DEF IsLoader
<1>3. f \in DOMAIN b \ {"kind"} /\ (f = "create" <=> key = "create")
  BY <1>1, <1>2, LoaderKinds
<1>4. Val(e) \in Seq(C)
  BY DEF Val
<1>5. TrimQuotes(Val(e)) \in Seq(C)
  BY <1>4, TrimText
<1>6. IF f = "create" THEN v \in BOOLEAN ELSE IsSeq(v)
  BY <1>3, <1>4, <1>5, SeqIs
<1> HIDE DEF f, v, key
<1>7. w = [g \in DOMAIN Loader[b.kind] |-> w[g]] /\ w[f] = v /\ \A g \in DOMAIN b : g # f => w[g] = b[g]
  BY <1>2, <1>3
<1>8. w.kind = b.kind
  <2>1. "kind" \in DOMAIN Loader[b.kind]
    BY <1>2 DEF Loader
  <2> QED
    BY <2>1, <1>2, <1>3, <1>7
<1> HIDE DEF w
<1>9. ASSUME NEW g \in DOMAIN w \ {"kind"} PROVE IF g = "create" THEN w[g] \in BOOLEAN ELSE IsSeq(w[g])
  <2>1. g \in DOMAIN b \ {"kind"}
    BY <1>2, <1>7
  <2>2. IF g = "create" THEN b[g] \in BOOLEAN ELSE IsSeq(b[g])
    BY <2>1 DEF IsLoader
  <2> QED
    BY <2>1, <2>2, <1>6, <1>7
<1>10. IsLoader(w)
  BY <1>2, <1>7, <1>8, <1>9 DEF IsLoader
<1> QED
  BY <1>1, <1>8, <1>10

\* What vfkit accepts after --bootloader is a boot loader.
LEMMA ParsedLoader ==
  ASSUME NEW C, NEW list \in Seq(Seq(C)), BootloaderFromCmdLine(list) # Error
  PROVE  IsLoader(BootloaderFromCmdLine(list))
<1>1. list # <<>> /\ Len(Head(list)) = 1 /\ Head(list)[1] \in DOMAIN Loader
  BY DEF BootloaderFromCmdLine
<1>2. Len(list) \in Nat \ {0}
  BY <1>1
<1>3. PICK b : /\ BootloaderFromCmdLine(list) = b[Len(list)]
               /\ b[1] = Loader[Head(list)[1]]
               /\ \A n \in 2 .. Len(list) : b[n] = IF list[n] = <<>> THEN b[n - 1] ELSE LoaderApply(b[n - 1], list[n])
  BY <1>1, <1>2, LoaderUnfolds
<1> DEFINE S == {n \in Nat : n + 1 <= Len(list) => b[n + 1] = Error \/ IsLoader(b[n + 1])}
<1>4. 0 \in S
  BY <1>1, <1>3, LoaderKinds
<1>5. ASSUME NEW n \in Nat, n \in S PROVE n + 1 \in S
  <2> SUFFICES ASSUME n + 2 <= Len(list) PROVE b[n + 2] = Error \/ IsLoader(b[n + 2])
    OBVIOUS
  <2>1. b[n + 1] = Error \/ IsLoader(b[n + 1])
    BY <1>5, <1>2
  <2>2. n + 2 \in 2 .. Len(list) /\ (n + 2) - 1 = n + 1 /\ list[n + 2] \in Seq(C)
    BY <1>2
  <2>3. b[n + 2] = IF list[n + 2] = <<>> THEN b[n + 1] ELSE LoaderApply(b[n + 1], list[n + 2])
    BY <1>3, <2>2
  <2>4. b[n + 1] = Error => LoaderApply(b[n + 1], list[n + 2]) = Error
    BY DEF LoaderApply
  <2> QED
    BY <2>1, <2>2, <2>3, <2>4, LoaderApplied
<1>6. \A n \in Nat : n \in S
  <2> HIDE DEF S
  <2> QED
    BY <1>4, <1>5, Induction
<1>7. Len(list) - 1 \in S
  <2> HIDE DEF S
  <2> QED
    BY <1>2, <1>6
<1> QED
  BY <1>2, <1>3, <1>7

\* A device of a machine that vfkit accepts: the next vfkit accepts it too.
Kept(d) == IsDevice(d) /\ (CanWrite(d) => Reread(d) # Error)

\* A GPU is read again whatever its window.
LEMMA GpuKept ==
  ASSUME NEW d, d = [f \in {"kind", "width", "height", "usesGUI"} |-> d[f]], d.kind = "gpu",
         d.width \in Int, d.height \in Int, d.usesGUI \in BOOLEAN
  PROVE  Kept(d)
<1>1. DOMAIN Empty["gpu"] = {"kind", "width", "height", "usesGUI"} /\ "gpu" \in DOMAIN Empty
  BY DEF Empty
<1>2. DOMAIN d = {"kind", "width", "height", "usesGUI"}
  OBVIOUS
<1>3. ASSUME NEW f \in DOMAIN d
      PROVE  /\ f \in {"readonly", "nat", "stdio", "pty", "usesGUI", "listen", "install", "ignore"} => d[f] \in BOOLEAN
             /\ f \in {"timeout", "fd", "width", "height", "port"} => d[f] \in Int
             /\ f = "magic" => d[f] \in {"on", "off"}
             /\ f = "mac" => (d[f] \in DOMAIN ParseMAC => ParseMAC[d[f]] = d[f])
  <2>1. CASE f = "kind"
    BY <2>1
  <2>2. CASE f \in {"width", "height"}
    BY <2>2
  <2>3. CASE f = "usesGUI"
    BY <2>3
  <2> QED
    BY <2>1, <2>2, <2>3, <1>2
<1>4. IsDevice(d)
  BY <1>1, <1>2, <1>3 DEF IsDevice
<1>5. CanWrite(d) => Reread(d) # Error
  BY <1>4, GpuRead, CarriedOnce
<1> QED
  BY <1>4, <1>5 DEF Kept

\* The keyboard that --gui adds is read again.
LEMMA WindowInput == Kept([Empty.input EXCEPT !.type = "keyboard"])
<1> DEFINE d == [Empty.input EXCEPT !.type = "keyboard"]
<1>1. DOMAIN Empty["input"] = {"kind", "type"} /\ "input" \in DOMAIN Empty /\ Empty.input = [kind |-> "input", type |-> ""]
  BY DEF Empty
<1>2. d = [f \in DOMAIN Empty["input"] |-> d[f]]
  BY <1>1
<1>a. DOMAIN d = {"kind", "type"}
  BY <1>1
<1>c. DOMAIN Empty["input"] = {"kind", "type"} /\ Empty["input"].kind = "input"
  BY DEF Empty
<1>b. d.kind = Empty.input.kind /\ Empty.input.kind = "input"
  BY <1>c
<1>3. DOMAIN d = {"kind", "type"} /\ d.kind = "input"
  BY <1>a, <1>b
<1> HIDE DEF d
<1>4. IsDevice(d)
  BY <1>1, <1>2, <1>3 DEF IsDevice
<1>5. CanWrite(d) => Reread(d) # Error
  BY <1>3, <1>4, InputRead, CarriedOnce
<1> QED
  BY <1>4, <1>5 DEF Kept, d

\* So is the GPU that it adds.
LEMMA WindowGpu == Kept([Empty.gpu EXCEPT !.width = DefaultWidth, !.height = DefaultHeight])
<1> DEFINE d == [Empty.gpu EXCEPT !.width = DefaultWidth, !.height = DefaultHeight]
<1>1. Empty.gpu = [kind |-> "gpu", width |-> 0, height |-> 0, usesGUI |-> FALSE]
  BY DEF Empty
<1>2. DOMAIN Empty.gpu = {"kind", "width", "height", "usesGUI"}
  BY <1>1
<1>3. DefaultWidth \in Int /\ DefaultHeight \in Int
  BY NumbersAssumption
<1>4. d = [f \in {"kind", "width", "height", "usesGUI"} |-> d[f]]
  BY <1>2
<1>5. d.kind = "gpu" /\ d.width = DefaultWidth /\ d.height = DefaultHeight /\ d.usesGUI = FALSE
  BY <1>1, <1>2
<1> HIDE DEF d
<1> QED
  BY <1>3, <1>4, <1>5, GpuKept DEF d

\* So is the first GPU, which gets the window.
LEMMA WindowFirst ==
  ASSUME NEW d, IsDevice(d), d.kind = "gpu"
  PROVE  Kept([d EXCEPT !.usesGUI = TRUE])
<1> DEFINE e == [d EXCEPT !.usesGUI = TRUE]
<1>1. DOMAIN Empty["gpu"] = {"kind", "width", "height", "usesGUI"}
  BY DEF Empty
<1>2. d = [f \in {"kind", "width", "height", "usesGUI"} |-> d[f]] /\ DOMAIN d = {"kind", "width", "height", "usesGUI"}
  BY <1>1 DEF IsDevice
<1>3. d.width \in Int /\ d.height \in Int
  BY <1>2 DEF IsDevice
<1>4. e = [f \in {"kind", "width", "height", "usesGUI"} |-> e[f]]
  BY <1>2
<1>5. e.kind = "gpu" /\ e.width = d.width /\ e.height = d.height /\ e.usesGUI = TRUE
  BY <1>2
<1> HIDE DEF e
<1> QED
  BY <1>3, <1>4, <1>5, GpuKept DEF e

\* The devices that --gui leaves are devices that vfkit reads again.
LEMMA WindowKept ==
  ASSUME NEW D, NEW devices \in Seq(D), \A i \in DOMAIN devices : Kept(devices[i])
  PROVE  IsSeq(WithWindow(devices)) /\ \A i \in DOMAIN WithWindow(devices) : Kept(WithWindow(devices)[i])
<1> DEFINE gpu == [Empty.gpu EXCEPT !.width = DefaultWidth, !.height = DefaultHeight]
           input == [Empty.input EXCEPT !.type = "keyboard"]
           g == When(FilterDevices(devices, "gpu") = <<>>, gpu)
           k == When(FilterDevices(devices, "input") = <<>>, input)
           all == devices \o g \o k
           first == SelectInSeq(all, LAMBDA d : d.kind = "gpu")
           K == {d \in D \cup {gpu, input} : Kept(d)}
<1>1. WithWindow(devices) = [all EXCEPT ![first].usesGUI = TRUE]
  BY DEF WithWindow
<1>2. gpu \in K /\ input \in K
  BY WindowGpu, WindowInput
<1>3. devices \in Seq(K)
  OBVIOUS
<1> HIDE DEF K, gpu, input
<1>4. g \in Seq(K) /\ k \in Seq(K)
  BY <1>2 DEF When
<1>5. all \in Seq(K)
  <2> HIDE DEF g, k
  <2> QED
    BY <1>3, <1>4
<1>6. ASSUME first \in DOMAIN all PROVE all[first].kind = "gpu"
  <2> HIDE DEF all
  <2> DEFINE I == {i \in 1 .. Len(all) : all[i].kind = "gpu"}
  <2>1. first = IF I # {} THEN Min(I) ELSE 0
    BY DEF SelectInSeq
  <2>2. I # {}
    BY <1>5, <1>6, <2>1
  <2>3. \E x \in I : \A y \in I : x <= y
    <3>1. I \subseteq Nat
      BY <1>5
    <3> HIDE DEF I
    <3> QED
      BY <2>2, <3>1, LeastNatural
  <2>4. Min(I) \in I
    <3> HIDE DEF I
    <3> QED
      BY <2>3 DEF Min
  <2> QED
    BY <2>1, <2>2, <2>4
<1> HIDE DEF all, first
<1>7. ASSUME NEW i \in DOMAIN WithWindow(devices) PROVE Kept(WithWindow(devices)[i])
  <2>1. i \in DOMAIN all
    BY <1>1, <1>7
  <2>2. Kept(all[i])
    BY <1>5, <2>1 DEF K
  <2>3. CASE i = first
    <3>1. WithWindow(devices)[i] = [all[i] EXCEPT !.usesGUI = TRUE]
      BY <1>1, <2>1, <2>3
    <3> QED
      BY <3>1, <2>1, <2>2, <2>3, <1>6, WindowFirst DEF Kept
  <2>4. CASE i # first
    BY <1>1, <2>1, <2>2, <2>4
  <2> QED
    BY <2>3, <2>4
<1>8. WithWindow(devices) = [i \in 1 .. Len(all) |-> WithWindow(devices)[i]] /\ Len(all) \in Nat
  <2>1. DOMAIN all = 1 .. Len(all) /\ Len(all) \in Nat
    BY <1>5
  <2>2. WithWindow(devices) = [i \in DOMAIN all |-> WithWindow(devices)[i]]
    BY <1>1
  <2> QED
    BY <2>1, <2>2
<1>9. WithWindow(devices) \in Seq({WithWindow(devices)[i] : i \in 1 .. Len(all)})
  BY <1>8
<1>10. IsSeq(WithWindow(devices))
  BY <1>9, SeqIs
<1> QED
  BY <1>7, <1>10

------------------------------------------------------------------------------
\* Machines: what vfkit accepts, and what JSON and lists keep.

\* So are the devices of a command line, the image of --cloud-init included.
LEMMA LinesParsed ==
  ASSUME NEW o, IsCommandLine(o), Error \notin ToSet(Devices(o))
  PROVE  IsSeq(Devices(o)) /\ \A i \in DOMAIN Devices(o) : Kept(Devices(o)[i])
<1> DEFINE l == [kind |-> "blk", options |-> <<Text("path", CloudInitImage)>>]
           image == When(o.cloudInit, l)
           lines == o.devices \o image
           L == ToSet(o.devices) \cup {l}
<1>1. Devices(o) = [i \in DOMAIN lines |-> DeviceFromCmdLine(lines[i])]
  BY DEF Devices
<1>2. o.devices \in Seq(L)
  BY DEF IsCommandLine, IsSeq
<1>3. image \in Seq(L)
  <2>1. l \in L
    OBVIOUS
  <2> HIDE DEF l, L
  <2>2. <<l>> \in Seq(L) /\ <<>> \in Seq(L)
    BY <2>1
  <2> QED
    BY <2>2 DEF When
<1>4. \A x \in L : x.kind \in Kinds /\ IsSeq(x.options)
  <2>1. ASSUME NEW x \in ToSet(o.devices) PROVE x.kind \in Kinds /\ IsSeq(x.options)
    BY DEF IsCommandLine, ToSet, Kinds
  <2>2. l.kind \in Kinds
    BY KindsAre
  <2>3. l.options \in Seq({Text("path", CloudInitImage)})
    OBVIOUS
  <2>4. IsSeq(l.options)
    BY <2>3, SeqIs
  <2> HIDE DEF l
  <2> QED
    BY <2>1, <2>2, <2>4
<1> HIDE DEF L, image
<1>5. lines \in Seq(L)
  BY <1>2, <1>3
<1> HIDE DEF lines
<1>6. DOMAIN lines = 1 .. Len(lines) /\ Len(lines) \in Nat
  BY <1>5
<1>7. ASSUME NEW i \in DOMAIN Devices(o) PROVE Kept(Devices(o)[i])
  <2>1. i \in DOMAIN lines /\ Devices(o)[i] = DeviceFromCmdLine(lines[i])
    BY <1>1, <1>7
  <2>2. lines[i].kind \in Kinds /\ lines[i].options \in Seq(ToSet(lines[i].options))
    BY <1>4, <1>5, <2>1 DEF IsSeq
  <2>3. DeviceFromCmdLine(lines[i]) # Error
    BY <2>1, <1>7 DEF ToSet
  <2> QED
    BY <2>1, <2>2, <2>3, ParsedDevice DEF Kept
<1>8. Devices(o) \in Seq({Devices(o)[i] : i \in 1 .. Len(lines)})
  BY <1>1, <1>6
<1> QED
  BY <1>7, <1>8, SeqIs

\* A machine that vfkit accepted has the types of its fields, its devices are read
\* again, and it has what vfkit checked of the rest.
LEMMA ParsedMachine ==
  ASSUME NEW o, IsCommandLine(o), NewVMConfiguration(o) # Error
  PROVE  LET vm == NewVMConfiguration(o)
         IN  /\ IsMachine(vm) /\ \A i \in DOMAIN vm.devices : Kept(vm.devices[i])
             /\ IsLoader(vm.boot) /\ (vm.nested => NestedSupported)
             /\ vm.ignition.path # Comma /\ (vm.ignition # NoIgnition => vm.ignition.port = IgnitionPort)
<1> DEFINE vm == NewVMConfiguration(o)
           boot == NewBootloaderConfiguration(o)
           devices == Devices(o)
           all == IF o.gui THEN WithWindow(devices) ELSE devices
           ignition == IF o.ignition = "" THEN NoIgnition ELSE [path |-> o.ignition, port |-> IgnitionPort]
<1>1. boot # Error /\ Error \notin ToSet(devices) /\ o.ignition # Comma /\ ~(o.nested /\ ~NestedSupported)
  BY DEF NewVMConfiguration
<1>2. vm = [kind |-> "vm", vcpus |-> o.cpus, memory |-> ToBytes(o.memory), boot |-> boot,
            timesync |-> TimeSync(o), nested |-> o.nested, devices |-> all, ignition |-> ignition]
  BY DEF NewVMConfiguration
<1>3. IsSeq(all) /\ \A i \in DOMAIN all : Kept(all[i])
  <2>1. IsSeq(devices) /\ \A i \in DOMAIN devices : Kept(devices[i])
    BY <1>1, LinesParsed
  <2>2. devices \in Seq(ToSet(devices))
    BY <2>1 DEF IsSeq
  <2> HIDE DEF devices
  <2>3. IsSeq(WithWindow(devices)) /\ \A i \in DOMAIN WithWindow(devices) : Kept(WithWindow(devices)[i])
    BY <2>1, <2>2, WindowKept
  <2> QED
    BY <2>1, <2>3
<1>4. IsLoader(boot)
  <2>1. PICK C : SetEach(o.bootloader).list \in Seq(Seq(C))
    BY EachText DEF IsCommandLine
  <2>2. boot = o.legacy \/ boot = BootloaderFromCmdLine(SetEach(o.bootloader).list)
    BY <1>1 DEF NewBootloaderConfiguration
  <2>3. IsLoader(o.legacy)
    BY DEF IsCommandLine
  <2> QED
    BY <1>1, <2>1, <2>2, <2>3, ParsedLoader
<1>5. /\ ignition = [path |-> ignition.path, port |-> ignition.port]
      /\ ignition.path # Comma /\ (ignition # NoIgnition => ignition.port = IgnitionPort)
  BY <1>1 DEF NoIgnition, Comma
<1>6. o.nested \in BOOLEAN
  BY DEF IsCommandLine
<1> HIDE DEF boot, all, ignition, vm
<1>7. vm = [f \in VmFields |-> vm[f]]
  BY <1>2 DEF VmFields
<1>8. vm.kind = "vm" /\ vm.boot = boot /\ vm.nested = o.nested /\ vm.devices = all /\ vm.ignition = ignition
  BY <1>2
<1>9. IsMachine(vm)
  BY <1>3, <1>4, <1>5, <1>6, <1>7, <1>8 DEF IsMachine, VmFields, Kept
<1> QED
  BY <1>1, <1>3, <1>4, <1>5, <1>8, <1>9 DEF vm

\* A machine, parsed or built, has the types of its fields.
LEMMA KnownMachine ==
  ASSUME VmKnown
  PROVE  IsMachine(dev)
BY ParsedMachine, TypedVmsAssumption, BuiltVmsAssumption DEF VmKnown

\* For every machine, parsed or built, JSON is read as the machine it was written
\* from, but for what it does not carry, unless it boots macOS or an address of it
\* cannot be parsed; then it is refused.
THEOREM DescJsonKept == DescSpec => []JsonKept
<1>1. DescInv => JsonKept
  <2> SUFFICES ASSUME DescInv, phase = "unmarshalled"
               PROVE  IF Unreadable(dev) THEN back = Error ELSE back # Error /\ CarriedJson(back) = CarriedJson(dev)
    BY DEF JsonKept
  <2>1. VmKnown /\ back = UnmarshalJSON(MarshalJSON(dev))
    BY DEF DescInv, VmInv
  <2> QED
    BY <2>1, KnownMachine, JsonMachine
<1> QED
  BY <1>1, DescAlways, PTL

\* For every use of a list flag, however quotes and commas are mixed, its elements
\* are the texts between the commas outside quotes.
THEOREM DescListAsQuoted == DescSpec => []ListAsQuoted
<1>1. DescInv => ListAsQuoted
  <2> SUFFICES ASSUME DescInv, phase = "listRead"
               PROVE  /\ \A i \in DOMAIN line : MeansFields(line[i])
                      /\ dev.ok => dev.list = FlattenSeq([i \in DOMAIN line |-> Fields(line[i])])
    BY DEF ListAsQuoted
  <2>1. line \in TypedLists /\ dev = SetEach(line)
    BY DEF DescInv, OthersInv
  <2>2. \A i \in DOMAIN line : IsSeq(line[i])
    BY <2>1, TypedListsAssumption
  <2> QED
    BY <2>1, <2>2, EachMeans
<1> QED
  BY <1>1, DescAlways, PTL

------------------------------------------------------------------------------
\* The files of the interfaces.

\* The files that Cmd passes on are those of the interfaces that have one, in their
\* order.
LEMMA FilesUnfold ==
  ASSUME NEW vm, Len(vm.devices) \in Nat
  PROVE  \E f : /\ ExtraFiles(vm) = f[Len(vm.devices)]
                /\ f[0] = <<>>
                /\ \A n \in 1 .. Len(vm.devices) :
                     f[n] = IF HasFile(vm.devices[n]) THEN Append(f[n - 1], vm.devices[n].fd) ELSE f[n - 1]
<1> DEFINE devices == vm.devices
           Body(f, n) == CASE n = 0                       -> <<>>
                           [] n > 0 /\ HasFile(devices[n]) -> Append(f[n - 1], devices[n].fd)
                           [] OTHER                       -> f[n - 1]
           Def(f, m) == f = [n \in 0 .. m |-> Body(f, n)]
           S == {m \in Nat : \E f : Def(f, m)}
           c == CHOOSE f : Def(f, Len(devices))
<1>0. ExtraFiles(vm) = c[Len(devices)]
  BY DEF ExtraFiles
<1>b. ASSUME NEW f, NEW n \in Nat \ {0}
      PROVE  Body(f, n) = IF HasFile(devices[n]) THEN Append(f[n - 1], devices[n].fd) ELSE f[n - 1]
  BY n > 0
<1>c. \A f : Body(f, 0) = <<>>
  OBVIOUS
<1> HIDE DEF devices, Body
<1>1. 0 \in S
  <2>1. Def([n \in 0 .. 0 |-> <<>>], 0)
    BY <1>c
  <2> QED
    BY <2>1
<1>2. ASSUME NEW m \in Nat, m \in S PROVE m + 1 \in S
  <2>1. PICK f : Def(f, m)
    BY <1>2
  <2> DEFINE e == [n \in 0 .. m + 1 |-> IF n = m + 1 THEN (IF HasFile(devices[n]) THEN Append(f[m], devices[n].fd) ELSE f[m]) ELSE f[n]]
  <2>2. Def(e, m + 1)
    <3>1. ASSUME NEW n \in 0 .. m + 1 PROVE e[n] = Body(e, n)
      <4>1. CASE n = m + 1
        <5>1. n \in Nat \ {0} /\ n - 1 \in 0 .. m + 1 /\ n - 1 # m + 1 /\ n - 1 = m
          BY <4>1
        <5>2. e[n] = IF HasFile(devices[n]) THEN Append(f[m], devices[n].fd) ELSE f[m]
          BY <4>1
        <5>3. e[n - 1] = f[m]
          BY <5>1
        <5> HIDE DEF e
        <5> QED
          BY <1>b, <5>1, <5>2, <5>3
      <4>2. CASE n = 0
        <5>1. e[0] = f[0] /\ f[0] = Body(f, 0)
          BY <2>1
        <5> QED
          BY <4>2, <5>1, <1>c
      <4>3. CASE n \in 1 .. m
        <5>1. e[n] = f[n] /\ e[n - 1] = f[n - 1] /\ n \in Nat \ {0}
          BY <4>3
        <5>2. f[n] = Body(f, n)
          BY <4>3, <2>1
        <5> HIDE DEF e
        <5> QED
          BY <1>b, <5>1, <5>2
      <4> QED
        BY <4>1, <4>2, <4>3
    <3> HIDE DEF e
    <3> QED
      BY <3>1 DEF e
  <2>3. \E x : Def(x, m + 1)
    <3> HIDE DEF e, Def
    <3> QED
      BY <2>2
  <2> HIDE DEF Def
  <2> QED
    BY <2>3
<1>3. Len(devices) \in S
  <2> HIDE DEF S
  <2> QED
    BY <1>1, <1>2, Induction DEF devices
<1>4. PICK f : Def(f, Len(devices))
  BY <1>3
<1>5. Def(c, Len(devices))
  BY <1>4
<1> HIDE DEF c
<1>l. Len(devices) \in Nat
  BY DEF devices
<1>6. c[0] = <<>>
  BY <1>5, <1>c, <1>l
<1>7. ASSUME NEW n \in 1 .. Len(devices)
      PROVE  c[n] = IF HasFile(devices[n]) THEN Append(c[n - 1], devices[n].fd) ELSE c[n - 1]
  <2>1. c[n] = Body(c, n) /\ n \in Nat \ {0}
    BY <1>5, <1>l
  <2> QED
    BY <2>1, <1>b
<1> QED
  BY <1>0, <1>6, <1>7 DEF devices

\* The interfaces with a file among the first n devices.
WithFile(devices, n) == {j \in 1 .. n : HasFile(devices[j])}

\* One more file, or the same number.
LEMMA FilesCounted ==
  ASSUME NEW devices, NEW n \in Nat
  PROVE  /\ Cardinality(WithFile(devices, 0)) = 0 /\ Cardinality(WithFile(devices, n)) \in Nat
         /\ Cardinality(WithFile(devices, n + 1)) =
              IF HasFile(devices[n + 1]) THEN Cardinality(WithFile(devices, n)) + 1 ELSE Cardinality(WithFile(devices, n))
<1> DEFINE A == WithFile(devices, n)
<1>1. IsFiniteSet(1 .. n)
  BY FS_Interval
<1>2. A \in SUBSET (1 .. n) /\ n + 1 \notin A
  BY DEF WithFile
<1>3. 1 .. n + 1 = (1 .. n) \cup {n + 1}
  OBVIOUS
<1>4. WithFile(devices, n + 1) = IF HasFile(devices[n + 1]) THEN A \cup {n + 1} ELSE A
  BY <1>3 DEF WithFile
<1>5. WithFile(devices, 0) = {}
  BY DEF WithFile
<1> HIDE DEF A
<1>6. IsFiniteSet(A)
  BY <1>1, <1>2, FS_Subset
<1>7. Cardinality(A) \in Nat
  BY <1>6, FS_CardinalityType
<1>8. Cardinality(A \cup {n + 1}) = Cardinality(A) + 1
  BY <1>2, <1>6, FS_AddElement
<1> QED
  BY <1>4, <1>5, <1>7, <1>8, FS_EmptySet DEF A

\* The file of an interface comes after those of the interfaces before it.
LEMMA FilesPlaced ==
  ASSUME NEW vm, Len(vm.devices) \in Nat, NEW i \in 1 .. Len(vm.devices), HasFile(vm.devices[i])
  PROVE  LET p == Cardinality(WithFile(vm.devices, i - 1)) + 1
         IN  p \in DOMAIN ExtraFiles(vm) /\ ExtraFiles(vm)[p] = vm.devices[i].fd
<1> DEFINE devices == vm.devices
           W == {devices[j].fd : j \in 1 .. Len(devices)}
           Card(n) == Cardinality(WithFile(devices, n))
           p == Card(i - 1) + 1
<1>1. PICK f : /\ ExtraFiles(vm) = f[Len(devices)]
               /\ f[0] = <<>>
               /\ \A n \in 1 .. Len(devices) : f[n] = IF HasFile(devices[n]) THEN Append(f[n - 1], devices[n].fd) ELSE f[n - 1]
  BY FilesUnfold
<1>2. /\ Card(0) = 0
      /\ \A n \in Nat : Card(n) \in Nat /\ Card(n + 1) = IF HasFile(devices[n + 1]) THEN Card(n) + 1 ELSE Card(n)
  BY FilesCounted
<1>w. \A n \in 1 .. Len(devices) : devices[n].fd \in W
  OBVIOUS
<1>l. Len(devices) \in Nat /\ i \in 1 .. Len(devices) /\ HasFile(devices[i])
  OBVIOUS
<1> HIDE DEF devices, Card, W
<1> DEFINE Good(n) == /\ f[n] \in Seq(W) /\ Len(f[n]) = Card(n)
                      /\ i <= n => p \in 1 .. Card(n) /\ f[n][p] = devices[i].fd
           S == {n \in Nat : n <= Len(devices) => Good(n)}
<1>3. 0 \in S
  <2>1. f[0] \in Seq(W) /\ Len(f[0]) = 0
    BY <1>1
  <2>2. ~(i <= 0)
    BY <1>l
  <2>3. Good(0)
    BY <2>1, <2>2, <1>2
  <2> QED
    BY <2>3
<1>4. ASSUME NEW n \in Nat, n \in S PROVE n + 1 \in S
  <2> SUFFICES ASSUME n + 1 <= Len(devices) PROVE Good(n + 1)
    OBVIOUS
  <2>1. Good(n)
    BY <1>4, <1>l
  <2> DEFINE t == f[n]
             x == devices[n + 1].fd
  <2>2. n + 1 \in 1 .. Len(devices) /\ (n + 1) - 1 = n
    BY <1>l
  <2>3. f[n + 1] = IF HasFile(devices[n + 1]) THEN Append(t, x) ELSE t
    BY <1>1, <2>2
  <2>4. t \in Seq(W) /\ Len(t) = Card(n) /\ x \in W /\ Card(n) \in Nat
    BY <2>1, <2>2, <1>w, <1>2
  <2>5. i <= n => p \in 1 .. Card(n) /\ t[p] = devices[i].fd
    BY <2>1
  <2>6. Card(n + 1) = IF HasFile(devices[n + 1]) THEN Card(n) + 1 ELSE Card(n)
    BY <1>2
  <2>7. i <= n + 1 => i <= n \/ i = n + 1
    BY <1>l
  <2>8. i = n + 1 => HasFile(devices[n + 1]) /\ p = Card(n) + 1 /\ x = devices[i].fd
    BY <1>l
  <2> HIDE DEF t, x, p
  <2>9. CASE HasFile(devices[n + 1])
    <3>1. f[n + 1] = Append(t, x) /\ Card(n + 1) = Card(n) + 1
      BY <2>3, <2>6, <2>9
    <3>2. /\ Append(t, x) \in Seq(W) /\ Len(Append(t, x)) = Card(n) + 1 /\ Append(t, x)[Card(n) + 1] = x
          /\ \A q \in 1 .. Card(n) : Append(t, x)[q] = t[q]
      BY <2>4
    <3> DEFINE u == Append(t, x)
    <3> HIDE DEF u
    <3>3. i <= n + 1 => p \in 1 .. Card(n) + 1 /\ u[p] = devices[i].fd
      BY <3>2, <2>4, <2>5, <2>7, <2>8 DEF u
    <3> QED
      BY <3>1, <3>2, <3>3 DEF u
  <2>10. CASE ~HasFile(devices[n + 1])
    BY <2>3, <2>4, <2>5, <2>6, <2>7, <2>8, <2>10 DEF t
  <2> QED
    BY <2>9, <2>10
<1>5. Len(devices) \in S
  <2> HIDE DEF S
  <2> QED
    BY <1>3, <1>4, <1>l, Induction
<1>6. Good(Len(devices)) /\ i <= Len(devices)
  BY <1>5, <1>l
<1>7. p \in DOMAIN ExtraFiles(vm) /\ ExtraFiles(vm)[p] = devices[i].fd
  BY <1>1, <1>6
<1> QED
  BY <1>7 DEF devices, Card

\* The devices of the vfkit that Cmd starts are the devices that were written, each
\* read again.
LEMMA StartedDevices ==
  ASSUME NEW vm, IsMachine(vm)
  PROVE  /\ Devices(Args(vm)) = [i \in DOMAIN vm.devices |-> Reread(vm.devices[i])]
         /\ NewVMConfiguration(Args(vm)) # Error =>
              /\ NewVMConfiguration(Args(vm)).devices = [i \in DOMAIN vm.devices |-> Reread(vm.devices[i])]
              /\ \A i \in DOMAIN vm.devices : Reread(vm.devices[i]) # Error
<1> DEFINE l == DeviceArgs(vm)
           A == Args(vm)
           D == [i \in DOMAIN vm.devices |-> Reread(vm.devices[i])]
           n == Len(vm.devices)
<1>1. A.devices = l /\ A.cloudInit = FALSE /\ A.gui = FALSE
  BY DEF Args
<1>2. DOMAIN vm.devices = 1 .. n /\ n \in Nat
  BY DEF IsMachine, IsSeq
<1>3. l = [i \in 1 .. n |-> [kind |-> vm.devices[i].kind, options |-> Options(vm.devices[i])]]
  BY <1>2 DEF DeviceArgs
<1> HIDE DEF A, l, n
<1>4. l \in Seq({l[i] : i \in 1 .. n}) /\ DOMAIN l = 1 .. n
  <2>1. l = [i \in 1 .. n |-> l[i]] /\ DOMAIN l = 1 .. n
    BY <1>3
  <2> QED
    BY <1>2, <2>1
<1>5. l \o When(A.cloudInit, [kind |-> "blk", options |-> <<Text("path", CloudInitImage)>>]) = l
  <2>1. l \o <<>> = l
    BY <1>4
  <2> QED
    BY <1>1, <2>1 DEF When
<1>6. Devices(A) = [i \in DOMAIN l |-> DeviceFromCmdLine(l[i])]
  BY <1>1, <1>5 DEF Devices
<1>7. Devices(A) = D
  BY <1>2, <1>3, <1>4, <1>6 DEF Reread
<1> HIDE DEF D
<1>8. ASSUME NewVMConfiguration(A) # Error PROVE NewVMConfiguration(A).devices = D /\ Error \notin ToSet(D)
  BY <1>1, <1>7, <1>8 DEF NewVMConfiguration
<1>9. Error \notin ToSet(D) => \A i \in DOMAIN vm.devices : Reread(vm.devices[i]) # Error
  BY DEF D, ToSet
<1> QED
  BY <1>7, <1>8, <1>9 DEF A, D

\* For every machine whose interfaces share no file, an interface of the vfkit that
\* Cmd starts is connected to its own file exactly when that file already had the
\* descriptor it gets in the new process.
THEOREM DescInterfaceGetsItsFile == DescSpec => []InterfaceGetsItsFile
<1>1. DescInv => InterfaceGetsItsFile
  <2> SUFFICES ASSUME DescInv, phase = "vmRead", back # Error, IsInjective(written.files),
                      NEW i \in DOMAIN dev.devices, HasFile(dev.devices[i])
               PROVE  FileAt(back.devices[i].fd) = dev.devices[i].fd <=> dev.devices[i].fd = Inherited(i)
    BY DEF InterfaceGetsItsFile
  <2> DEFINE d == dev.devices[i]
             files == ExtraFiles(dev)
             p == Cardinality(WithFile(dev.devices, i - 1)) + 1
  <2>1. VmKnown /\ CanWriteVm(dev) /\ written.files = files /\ back = NewVMConfiguration(Args(dev))
    BY DEF DescInv, VmInv
  <2>2. IsMachine(dev)
    BY <2>1, KnownMachine
  <2>3. IsDevice(d) /\ CanWrite(d) /\ d.kind = "net"
    BY <2>1, <2>2 DEF IsMachine, CanWriteVm, HasFile
  <2>4. back.devices[i] = Reread(d) /\ Reread(d) # Error
    BY <2>1, <2>2, StartedDevices
  <2>5. Reread(d) = Carried(d) /\ d.fd \in 0 .. Int32Max
    BY <2>3, <2>4, NetRead DEF NetRefused, HasFile
  <2>6. Carried(d).fd = d.fd
    <3>1. d = [f \in DOMAIN Empty["net"] |-> d[f]]
      BY <2>3 DEF IsDevice
    <3>2. DOMAIN Empty["net"] = {"kind", "nat", "mac", "fd", "path", "magic"}
      BY DEF Empty
    <3> HIDE DEF d
    <3>3. Carried(d) = [d EXCEPT !.magic = IF d.path = "" THEN "off" ELSE d.magic]
      BY <2>3 DEF Carried
    <3> QED
      BY <3>1, <3>2, <3>3
  <2>7. Len(dev.devices) \in Nat /\ i \in 1 .. Len(dev.devices)
    BY <2>2 DEF IsMachine, IsSeq
  <2>8. p \in DOMAIN files /\ files[p] = d.fd
    BY <2>7, FilesPlaced
  <2>9. Inherited(i) = 2 + p /\ p \in Int
    <3>1. i - 1 \in Nat
      BY <2>7
    <3>2. Cardinality(WithFile(dev.devices, i - 1)) \in Nat
      BY <3>1, FilesCounted
    <3>3. Inherited(i) = 3 + Cardinality(WithFile(dev.devices, i - 1))
      BY DEF Inherited, WithFile
    <3> QED
      BY <3>2, <3>3
  <2> DEFINE fd == d.fd
  <2>10. FileAt(back.devices[i].fd) = IF fd - 2 \in DOMAIN files THEN files[fd - 2] ELSE NoFile
    BY <2>1, <2>4, <2>5, <2>6 DEF FileAt
  <2>11. fd \in Nat /\ fd # NoFile
    BY <2>5, NumbersAssumption DEF NoFile
  <2>12. \A a, b \in DOMAIN files : files[a] = files[b] => a = b
    BY <2>1 DEF IsInjective
  <2> HIDE DEF d, files, p, fd
  <2>13. files[p] = fd
    BY <2>8 DEF fd
  <2>14. (IF fd - 2 \in DOMAIN files THEN files[fd - 2] ELSE NoFile) = fd <=> fd = 2 + p
    <3>1. ASSUME fd = 2 + p PROVE fd - 2 \in DOMAIN files /\ files[fd - 2] = fd
      <4>1. fd - 2 = p
        BY <3>1, <2>9, <2>11
      <4> QED
        BY <4>1, <2>8, <2>13
    <3>2. ASSUME fd - 2 \in DOMAIN files, files[fd - 2] = fd PROVE fd = 2 + p
      <4>1. fd - 2 = p
        BY <3>2, <2>8, <2>12, <2>13
      <4> QED
        BY <4>1, <2>9, <2>11
    <3> QED
      BY <3>1, <3>2, <2>11
  <2> QED
    BY <2>9, <2>10, <2>14 DEF fd, d
<1> QED
  BY <1>1, DescAlways, PTL

------------------------------------------------------------------------------
\* The text that ToCmdLine writes of an EFI boot loader, and what vfkit reads of it.

\* The cuts of a text and its ends can be counted.
LEMMA CutsCounted ==
  ASSUME NEW C, NEW s \in Seq(C)
  PROVE  \E f, m : m \in Nat /\ Counts(f, m + 1, Cuts(s) \cup {0, Len(s) + 1}) /\ f[m + 1] = Len(s) + 1
<1>0. Len(s) \in Nat /\ DOMAIN s = 1 .. Len(s)
  OBVIOUS
<1>1. PICK r : /\ r[0] = Builder
               /\ \A n \in 1 .. Len(s) : r[n] = WriteRune(r[n - 1], s[n])
  BY <1>0, ReadUnfolds
<1> DEFINE n == Len(s)
           b == r[n]
<1>2. DOMAIN b = {"quoted", "text", "list"} /\ \E e, m : AtCuts(s, b, n, e, m)
  BY <1>0, <1>1, ReadAtCuts
<1>3. PICK e, m : AtCuts(s, b, n, e, m)
  BY <1>2
<1> HIDE DEF b
<1>4. n \in Nat /\ n <= Len(s)
  BY <1>0
<1>5. PICK f : CutAfter(s, b, n, f, m + 1)
  BY <1>2, <1>3, <1>4, WriteCut
<1>6. m \in Nat
  BY <1>3 DEF AtCuts
<1>7. {0} \cup {i \in Cuts(s) : i <= n} \cup {n + 1} = Cuts(s) \cup {0, Len(s) + 1}
  <2>1. {i \in Cuts(s) : i <= n} = Cuts(s)
    BY <1>0 DEF Cuts
  <2> QED
    BY <2>1
<1> QED
  BY <1>5, <1>6, <1>7 DEF CutAfter

\* What ToCmdLine writes of an EFI boot loader.
CreateTexts == {<<>>, <<CommaCh, "create">>}
StoreText(p, t) == <<"efi", CommaCh, "variable-store", "=">> \o p \o t

\* F is that text, character by character.
Spells(F, p, t) ==
  /\ Len(p) \in Nat /\ Len(F) = Len(p) + 4 + Len(t) /\ Len(t) = (IF t = <<>> THEN 0 ELSE 2)
  /\ F[1] = "efi" /\ F[2] = CommaCh /\ F[3] = "variable-store" /\ F[4] = "="
  /\ \A i \in 1 .. Len(p) : F[i + 4] = p[i]
  /\ t # <<>> => F[Len(p) + 5] = CommaCh /\ F[Len(p) + 6] = "create"

\* The text, character by character.
LEMMA StoreTextIs ==
  ASSUME NEW C, NEW p \in Seq(C), NEW t \in CreateTexts, NEW F, F = StoreText(p, t)
  PROVE  Spells(F, p, t) /\ F \in Seq(C \cup {"efi", CommaCh, "variable-store", "=", "create"})
<1> DEFINE D == C \cup {"efi", CommaCh, "variable-store", "=", "create"}
           h == <<"efi", CommaCh, "variable-store", "=">>
           u == h \o p
           L == Len(p)
<1>0. F = u \o t
  BY DEF StoreText
<1>1. h \in Seq(D) /\ Len(h) = 4 /\ h[1] = "efi" /\ h[2] = CommaCh /\ h[3] = "variable-store" /\ h[4] = "="
  OBVIOUS
<1>2. p \in Seq(D) /\ L \in Nat
  OBVIOUS
<1>3. t \in Seq(D) /\ Len(t) = (IF t = <<>> THEN 0 ELSE 2) /\ (t # <<>> => t[1] = CommaCh /\ t[2] = "create")
  <2>1. <<CommaCh, "create">> \in Seq(D) /\ <<>> \in Seq(D)
    OBVIOUS
  <2> HIDE DEF D
  <2>2. CASE t = <<>>
    BY <2>1, <2>2
  <2>3. CASE t = <<CommaCh, "create">>
    BY <2>1, <2>3
  <2> QED
    BY <2>2, <2>3 DEF CreateTexts
<1> HIDE DEF D, h
<1>4. u \in Seq(D) /\ Len(u) = L + 4 /\ (\A i \in 1 .. 4 : u[i] = h[i]) /\ \A i \in 1 .. L : u[i + 4] = p[i]
  <2>0. /\ u \in Seq(D) /\ Len(u) = Len(h) + Len(p)
        /\ \A i \in 1 .. Len(h) + Len(p) : u[i] = IF i <= Len(h) THEN h[i] ELSE p[i - Len(h)]
    BY <1>1, <1>2, ConcatProperties
  <2>1. /\ u \in Seq(D) /\ Len(u) = 4 + L
        /\ \A i \in 1 .. 4 + L : u[i] = IF i <= 4 THEN h[i] ELSE p[i - 4]
    BY <1>1, <2>0
  <2> HIDE DEF u, L
  <2>2. ASSUME NEW i \in 1 .. 4 PROVE u[i] = h[i]
    BY <1>2, <2>1
  <2>3. ASSUME NEW i \in 1 .. L PROVE u[i + 4] = p[i]
    <3>1. i + 4 \in 1 .. 4 + L /\ (i + 4) - 4 = i /\ ~(i + 4 <= 4)
      BY <1>2
    <3> QED
      BY <2>1, <3>1
  <2> QED
    BY <1>2, <2>1, <2>2, <2>3
<1> HIDE DEF u, L
<1>5. /\ F \in Seq(D) /\ Len(F) = L + 4 + Len(t)
      /\ \A i \in 1 .. L + 4 + Len(t) : F[i] = IF i <= L + 4 THEN u[i] ELSE t[i - (L + 4)]
  <2> DEFINE v == u \o t
  <2>1. /\ v \in Seq(D) /\ Len(v) = Len(u) + Len(t)
        /\ \A i \in 1 .. Len(u) + Len(t) : v[i] = IF i <= Len(u) THEN u[i] ELSE t[i - Len(u)]
    BY <1>3, <1>4, ConcatProperties
  <2>2. F = v
    BY <1>0
  <2> HIDE DEF v
  <2> QED
    BY <1>4, <2>1, <2>2
<1>7. ASSUME NEW i \in 1 .. 4 PROVE F[i] = h[i]
  <2>1. i \in 1 .. L + 4 + Len(t) /\ i <= L + 4
    BY <1>2, <1>3
  <2> QED
    BY <1>4, <1>5, <2>1
<1>8. ASSUME NEW i \in 1 .. L PROVE F[i + 4] = p[i]
  <2>1. i + 4 \in 1 .. L + 4 + Len(t) /\ i + 4 <= L + 4
    BY <1>2, <1>3
  <2> QED
    BY <1>4, <1>5, <2>1
<1>9. ASSUME t # <<>> PROVE F[L + 5] = CommaCh /\ F[L + 6] = "create"
  <2>1. /\ L + 5 \in 1 .. L + 4 + Len(t) /\ ~(L + 5 <= L + 4) /\ (L + 5) - (L + 4) = 1
        /\ L + 6 \in 1 .. L + 4 + Len(t) /\ ~(L + 6 <= L + 4) /\ (L + 6) - (L + 4) = 2
    BY <1>2, <1>3, <1>9
  <2> QED
    BY <1>3, <1>5, <1>9, <2>1
<1> QED
  BY <1>1, <1>2, <1>3, <1>5, <1>7, <1>8, <1>9 DEF D, L, Spells

\* The quotes of that text are the quotes of the path.
LEMMA StoreQuotes ==
  ASSUME NEW C, NEW p \in Seq(C), NEW t \in CreateTexts, NEW F, F = StoreText(p, t)
  PROVE  /\ QuotesBefore(F, 2) = 0
         /\ \A i \in 1 .. Len(p) + 1 : QuotesBefore(F, i + 4) = QuotesBefore(p, i)
         /\ QuotesBefore(F, Len(F) + 1) = QuotesBefore(p, Len(p) + 1)
<1> DEFINE L == Len(p)
<1>0. /\ L \in Nat /\ Len(F) = L + 4 + Len(t) /\ Len(t) = (IF t = <<>> THEN 0 ELSE 2)
      /\ F[1] = "efi" /\ F[2] = CommaCh /\ F[3] = "variable-store" /\ F[4] = "="
      /\ \A i \in 1 .. L : F[i + 4] = p[i]
      /\ t # <<>> => F[L + 5] = CommaCh /\ F[L + 6] = "create"
  <2>1. Spells(F, p, t)
    BY StoreTextIs
  <2> QED
    BY <2>1 DEF Spells
<1>1. QuoteCh \notin {"efi", CommaCh, "variable-store", "=", "create"}
  BY DEF QuoteCh, CommaCh
<1> HIDE DEF L
<1>2. /\ QuotesBefore(F, 1) = 0 /\ \A n \in Nat : QuotesBefore(F, n + 1) \in Nat
      /\ \A n \in Nat : QuotesBefore(F, n + 2) = IF F[n + 1] = QuoteCh THEN QuotesBefore(F, n + 1) + 1 ELSE QuotesBefore(F, n + 1)
  BY QuotesCounted
<1>3. /\ QuotesBefore(p, 1) = 0
      /\ \A n \in Nat : QuotesBefore(p, n + 2) = IF p[n + 1] = QuoteCh THEN QuotesBefore(p, n + 1) + 1 ELSE QuotesBefore(p, n + 1)
  BY QuotesCounted
<1>4. QuotesBefore(F, 2) = 0
  <2>1. F[0 + 1] # QuoteCh /\ 0 \in Nat
    BY <1>0, <1>1
  <2>2. QuotesBefore(F, 0 + 2) = QuotesBefore(F, 0 + 1)
    BY <1>2, <2>1
  <2> QED
    BY <2>2, <1>2
<1>5. QuotesBefore(F, 5) = 0
  <2>1. QuotesBefore(F, 1 + 2) = QuotesBefore(F, 1 + 1)
    <3>1. F[1 + 1] # QuoteCh /\ 1 \in Nat
      BY <1>0, <1>1
    <3> QED
      BY <1>2, <3>1
  <2>2. QuotesBefore(F, 2 + 2) = QuotesBefore(F, 2 + 1)
    <3>1. F[2 + 1] # QuoteCh /\ 2 \in Nat
      BY <1>0, <1>1
    <3> QED
      BY <1>2, <3>1
  <2>3. QuotesBefore(F, 3 + 2) = QuotesBefore(F, 3 + 1)
    <3>1. F[3 + 1] # QuoteCh /\ 3 \in Nat
      BY <1>0, <1>1
    <3> QED
      BY <1>2, <3>1
  <2> QED
    BY <1>4, <2>1, <2>2, <2>3
<1> DEFINE S == {n \in Nat : n <= L => QuotesBefore(F, n + 5) = QuotesBefore(p, n + 1)}
<1>6. 0 \in S
  BY <1>3, <1>5
<1>7. ASSUME NEW n \in Nat, n \in S PROVE n + 1 \in S
  <2> SUFFICES ASSUME n + 1 <= L PROVE QuotesBefore(F, (n + 1) + 5) = QuotesBefore(p, (n + 1) + 1)
    OBVIOUS
  <2>1. n + 4 \in Nat /\ (n + 4) + 2 = (n + 1) + 5 /\ (n + 4) + 1 = n + 5 /\ (n + 1) + 1 = n + 2 /\ (n + 1) + 4 = n + 5 /\ n + 1 \in 1 .. L
    BY <1>0
  <2>2. QuotesBefore(F, n + 5) = QuotesBefore(p, n + 1)
    BY <1>0, <1>7
  <2>3. F[n + 5] = p[n + 1]
    BY <1>0, <2>1
  <2>4. QuotesBefore(F, (n + 4) + 2) = IF F[(n + 4) + 1] = QuoteCh THEN QuotesBefore(F, (n + 4) + 1) + 1 ELSE QuotesBefore(F, (n + 4) + 1)
    BY <1>2, <2>1
  <2>5. QuotesBefore(p, n + 2) = IF p[n + 1] = QuoteCh THEN QuotesBefore(p, n + 1) + 1 ELSE QuotesBefore(p, n + 1)
    BY <1>3
  <2> QED
    BY <2>1, <2>2, <2>3, <2>4, <2>5
<1>8. \A n \in Nat : n \in S
  <2> HIDE DEF S
  <2> QED
    BY <1>6, <1>7, Induction
<1>9. ASSUME NEW i \in 1 .. L + 1 PROVE QuotesBefore(F, i + 4) = QuotesBefore(p, i)
  <2>1. i - 1 \in Nat /\ i - 1 <= L /\ (i - 1) + 5 = i + 4 /\ (i - 1) + 1 = i
    BY <1>0
  <2>2. i - 1 \in S
    <3> HIDE DEF S
    <3> QED
      BY <2>1, <1>8
  <2> QED
    BY <2>1, <2>2
<1>10. QuotesBefore(F, Len(F) + 1) = QuotesBefore(p, L + 1)
  <2>1. QuotesBefore(F, L + 5) = QuotesBefore(p, L + 1)
    <3>1. L + 1 \in 1 .. L + 1 /\ (L + 1) + 4 = L + 5
      BY <1>0
    <3> QED
      BY <3>1, <1>9
  <2>2. CASE t = <<>>
    <3>1. Len(F) + 1 = L + 5
      BY <1>0, <2>2
    <3> QED
      BY <2>1, <3>1
  <2>3. CASE t # <<>>
    <3>1. Len(F) + 1 = (L + 5) + 2 /\ L + 4 \in Nat /\ L + 5 \in Nat /\ (L + 4) + 2 = (L + 5) + 1 /\ (L + 4) + 1 = L + 5 /\ (L + 5) + 1 = L + 6
      BY <1>0, <2>3
    <3>2. QuotesBefore(F, (L + 5) + 2) = QuotesBefore(F, (L + 5) + 1)
      BY <1>0, <1>1, <1>2, <2>3, <3>1
    <3>3. QuotesBefore(F, (L + 4) + 2) = QuotesBefore(F, (L + 4) + 1)
      BY <1>0, <1>1, <1>2, <2>3, <3>1
    <3> QED
      BY <2>1, <3>1, <3>2, <3>3
  <2> QED
    BY <2>2, <2>3
<1> QED
  BY <1>4, <1>9, <1>10 DEF L

\* Where the text of a boot loader is cut: after efi, where the path is, and at its end.
LEMMA StoreCuts ==
  ASSUME NEW C, NEW p \in Seq(C), NEW t \in CreateTexts, NEW F, F = StoreText(p, t),
         Even(QuotesBefore(p, Len(p) + 1))
  PROVE  Cuts(F) \cup {0, Len(F) + 1} = ({0, 2} \cup {i + 4 : i \in Cuts(p) \cup {Len(p) + 1}}) \cup {Len(F) + 1}
<1> DEFINE L == Len(p)
           T == {0, 2} \cup {i + 4 : i \in Cuts(p) \cup {L + 1}}
<1>1. Spells(F, p, t) /\ DOMAIN F = 1 .. Len(F)
  <2>1. Spells(F, p, t) /\ F \in Seq(C \cup {"efi", CommaCh, "variable-store", "=", "create"})
    BY StoreTextIs
  <2> QED
    BY <2>1, SeqIs
<1>2. /\ QuotesBefore(F, 2) = 0 /\ \A i \in 1 .. L + 1 : QuotesBefore(F, i + 4) = QuotesBefore(p, i)
  BY StoreQuotes
<1>3. Cuts(p) \subseteq 1 .. L /\ DOMAIN p = 1 .. L
  BY DEF Cuts
<1>4. \A i \in 1 .. L : i \in Cuts(p) <=> p[i] = CommaCh /\ Even(QuotesBefore(p, i))
  BY <1>3 DEF Cuts
<1>5. \A i \in 1 .. Len(F) : i \in Cuts(F) <=> F[i] = CommaCh /\ Even(QuotesBefore(F, i))
  BY <1>1 DEF Cuts
<1>6. Cuts(F) \subseteq 1 .. Len(F)
  BY <1>1 DEF Cuts
<1>7. CommaCh \notin {"efi", "variable-store", "=", "create"} /\ Even(0)
  BY DEF CommaCh, Even
<1>8. L \in Nat /\ Len(F) = L + 4 + Len(t) /\ ((t = <<>> /\ Len(t) = 0) \/ (t # <<>> /\ Len(t) = 2))
  BY <1>1 DEF Spells
<1>9. F[1] = "efi" /\ F[2] = CommaCh /\ F[3] = "variable-store" /\ F[4] = "="
  BY <1>1 DEF Spells
<1>10. \A i \in 1 .. L : F[i + 4] = p[i]
  BY <1>1 DEF Spells
<1>11. t # <<>> => F[L + 5] = CommaCh /\ F[L + 6] = "create"
  BY <1>1 DEF Spells
<1> HIDE DEF L
<1>12. ASSUME NEW i \in Cuts(F) PROVE i \in T \cup {Len(F) + 1}
  <2>1. i \in 1 .. Len(F) /\ F[i] = CommaCh /\ Even(QuotesBefore(F, i))
    BY <1>5, <1>6
  <2>2. CASE i \in 1 .. 4
    BY <2>1, <2>2, <1>7, <1>9
  <2>3. CASE i \in 5 .. L + 4
    <3>1. i - 4 \in 1 .. L /\ (i - 4) + 4 = i
      BY <2>3, <1>8
    <3>2. p[i - 4] = CommaCh /\ Even(QuotesBefore(p, i - 4))
      <4>1. F[(i - 4) + 4] = p[i - 4] /\ i - 4 \in 1 .. L + 1
        BY <1>8, <1>10, <3>1
      <4> QED
        BY <2>1, <3>1, <4>1, <1>2 DEF L
    <3>3. i - 4 \in Cuts(p)
      BY <1>4, <3>1, <3>2
    <3> QED
      BY <3>1, <3>3
  <2>4. CASE i = L + 5
    <3>1. i = (L + 1) + 4
      BY <2>4, <1>8
    <3> QED
      BY <3>1
  <2>5. CASE i = L + 6 /\ t # <<>>
    BY <2>1, <2>5, <1>7, <1>11
  <2>6. i \in 1 .. 4 \/ i \in 5 .. L + 4 \/ i = L + 5 \/ (i = L + 6 /\ t # <<>>)
    <3>1. i \in Int /\ 1 <= i /\ i <= Len(F) /\ L \in Nat
      BY <2>1, <1>8
    <3>2. CASE t = <<>> /\ Len(t) = 0
      <4>1. i <= L + 4
        BY <3>1, <3>2, <1>8
      <4> QED
        BY <3>1, <4>1
    <3>3. CASE t # <<>> /\ Len(t) = 2
      <4>1. i <= L + 6
        BY <3>1, <3>3, <1>8
      <4> QED
        BY <3>1, <3>3, <4>1
    <3> QED
      BY <3>2, <3>3, <1>8
  <2> QED
    BY <2>2, <2>3, <2>4, <2>5, <2>6
<1>13. ASSUME NEW i \in T PROVE i \in Cuts(F) \cup {0, Len(F) + 1}
  <2>1. 2 \in Cuts(F)
    BY <1>2, <1>5, <1>7, <1>8, <1>9
  <2>2. ASSUME NEW j \in Cuts(p) PROVE j + 4 \in Cuts(F)
    <3>1. j \in 1 .. L /\ j + 4 \in 1 .. Len(F) /\ j \in 1 .. L + 1
      BY <1>3, <1>8 DEF L
    <3>2. F[j + 4] = CommaCh /\ Even(QuotesBefore(F, j + 4))
      BY <3>1, <1>2, <1>4, <1>10 DEF L
    <3> QED
      BY <1>5, <3>1, <3>2
  <2>3. (L + 1) + 4 \in Cuts(F) \cup {Len(F) + 1}
    <3>1. (L + 1) + 4 = L + 5 /\ L + 1 \in 1 .. L + 1
      BY <1>8
    <3>2. CASE t = <<>>
      BY <3>1, <3>2, <1>8
    <3>3. CASE t # <<>>
      <4>1. L + 5 \in 1 .. Len(F)
        BY <3>3, <1>8
      <4>2. F[L + 5] = CommaCh
        BY <3>3, <1>11
      <4>3. Even(QuotesBefore(F, (L + 1) + 4))
        BY <3>1, <1>2 DEF L
      <4> QED
        BY <1>5, <3>1, <4>1, <4>2, <4>3
    <3> QED
      BY <3>2, <3>3
  <2> QED
    BY <2>1, <2>2, <2>3
<1> HIDE DEF T
<1>14. 0 \in T
  BY DEF T
<1>15. Cuts(F) \cup {0, Len(F) + 1} = T \cup {Len(F) + 1}
  BY <1>12, <1>13, <1>14
<1> QED
  BY <1>15 DEF T, L

\* The cuts of the text, counted: those of the path come after the one after efi.
Shift(e, m) == [k \in 0 .. m + 2 |-> IF k = 0 THEN 0 ELSE IF k = 1 THEN 2 ELSE e[k - 1] + 4]

\* The cuts of the path, counted again after the cut behind efi.
LEMMA ShiftCounts ==
  ASSUME NEW m \in Nat, NEW e, NEW T, NEW g, Counts(e, m + 1, T \cup {0}), 0 \notin T, g = Shift(e, m)
  PROVE  Counts(g, m + 2, {0, 2} \cup {i + 4 : i \in T})
<1>1. /\ DOMAIN g = 0 .. m + 2 /\ g[0] = 0 /\ g[1] = 2
      /\ \A k \in 2 .. m + 2 : g[k] = e[k - 1] + 4
  BY DEF Shift
<1>2. /\ e[0] = 0 /\ \A k \in 0 .. m + 1 : e[k] \in Nat
      /\ \A j, k \in 0 .. m + 1 : j < k => e[j] < e[k]
      /\ T \cup {0} = {e[k] : k \in 0 .. m + 1}
  BY DEF Counts
<1>3. \A k \in 2 .. m + 2 : k - 1 \in 1 .. m + 1 /\ e[k - 1] \in T /\ e[k - 1] \in Nat
  <2> SUFFICES ASSUME NEW k \in 2 .. m + 2 PROVE k - 1 \in 1 .. m + 1 /\ e[k - 1] \in T /\ e[k - 1] \in Nat
    OBVIOUS
  <2>1. k - 1 \in 1 .. m + 1 /\ k - 1 \in 0 .. m + 1 /\ 0 < k - 1 /\ 0 \in 0 .. m + 1
    OBVIOUS
  <2>2. e[k - 1] \in T \cup {0} /\ e[0] < e[k - 1] /\ e[k - 1] \in Nat
    BY <1>2, <2>1
  <2> QED
    BY <2>1, <2>2, <1>2
<1>4. \A k \in 0 .. m + 2 : g[k] \in Nat
  BY <1>1, <1>3
<1>5. ASSUME NEW j \in 0 .. m + 2, NEW k \in 0 .. m + 2, j < k PROVE g[j] < g[k]
  <2>1. CASE k = 1
    BY <2>1, <1>1, <1>5
  <2>2. CASE k \in 2 .. m + 2
    <3>1. g[k] = e[k - 1] + 4 /\ e[k - 1] \in Nat
      BY <2>2, <1>1, <1>3
    <3>2. CASE j \in {0, 1}
      BY <3>1, <3>2, <1>1
    <3>3. CASE j \in 2 .. m + 2
      <4>1. g[j] = e[j - 1] + 4 /\ e[j - 1] \in Nat
        BY <3>3, <1>1, <1>3
      <4>2. e[j - 1] < e[k - 1]
        <5>1. j - 1 \in 0 .. m + 1 /\ k - 1 \in 0 .. m + 1 /\ j - 1 < k - 1
          BY <2>2, <3>3, <1>5
        <5> QED
          BY <5>1, <1>2
      <4> QED
        BY <3>1, <4>1, <4>2
    <3> QED
      BY <3>2, <3>3
  <2> QED
    BY <2>1, <2>2, <1>5
<1> DEFINE U == {0, 2} \cup {i + 4 : i \in T}
<1>6. U \subseteq {g[k] : k \in 0 .. m + 2}
  <2>1. 0 \in 0 .. m + 2 /\ 1 \in 0 .. m + 2
    OBVIOUS
  <2>2. ASSUME NEW i \in T PROVE i + 4 \in {g[k] : k \in 0 .. m + 2}
    <3>1. PICK k \in 0 .. m + 1 : i = e[k]
      BY <1>2
    <3>2. k # 0
      BY <3>1, <1>2
    <3>3. k + 1 \in 2 .. m + 2 /\ (k + 1) - 1 = k /\ k + 1 \in 0 .. m + 2
      BY <3>2
    <3>4. g[k + 1] = i + 4
      BY <3>1, <3>3, <1>1
    <3> QED
      BY <3>3, <3>4
  <2> QED
    BY <2>1, <2>2, <1>1
<1>7. ASSUME NEW k \in 0 .. m + 2 PROVE g[k] \in U
  <2>1. CASE k \in {0, 1}
    BY <2>1, <1>1
  <2>2. CASE k \in 2 .. m + 2
    BY <2>2, <1>1, <1>3
  <2> QED
    BY <2>1, <2>2
<1> HIDE DEF U
<1>8. U = {g[k] : k \in 0 .. m + 2}
  BY <1>6, <1>7
<1>9. Counts(g, m + 2, U)
  BY <1>1, <1>4, <1>5, <1>8 DEF Counts
<1> QED
  BY <1>9 DEF U

\* A part of the text that lies in the path.
LEMMA PathPart ==
  ASSUME NEW D, NEW F \in Seq(D), NEW p \in Seq(D), NEW t, Spells(F, p, t),
         NEW a \in 1 .. Len(p) + 1, NEW b \in 0 .. Len(p), a <= b + 1
  PROVE  SubSeq(F, a + 4, b + 4) = SubSeq(p, a, b)
<1> DEFINE u == SubSeq(F, a + 4, b + 4)
           v == SubSeq(p, a, b)
           L == Len(p)
<1>1. L \in Nat /\ Len(F) \in Nat /\ L + 4 <= Len(F) /\ \A i \in 1 .. L : F[i + 4] = p[i]
  <2>1. Len(t) \in Nat
    BY DEF Spells
  <2> QED
    BY <2>1 DEF Spells
<1> HIDE DEF L
<1>2. a \in 1 .. L + 1 /\ b \in 0 .. L /\ a + 4 \in 1 .. Len(F) + 1 /\ b + 4 \in 0 .. Len(F) /\ a + 4 <= (b + 4) + 1 /\ (b + 4) - (a + 4) + 1 = b - a + 1
  BY <1>1 DEF L
<1>3. \A i \in a + 4 .. b + 4 : F[i] \in D
  BY <1>1, <1>2
<1>4. u \in Seq(D) /\ Len(u) = b - a + 1 /\ \A i \in 1 .. b - a + 1 : u[i] = F[(a + 4) + i - 1]
  BY <1>1, <1>2
<1>5. v \in Seq(D) /\ Len(v) = b - a + 1 /\ \A i \in 1 .. b - a + 1 : v[i] = p[a + i - 1]
  BY <1>1, <1>2 DEF L
<1>6. ASSUME NEW i \in 1 .. b - a + 1 PROVE u[i] = v[i]
  <2>1. (a + 4) + i - 1 = (a + i - 1) + 4 /\ a + i - 1 \in 1 .. L
    BY <1>1, <1>2
  <2>2. F[(a + i - 1) + 4] = p[a + i - 1]
    BY <1>1, <2>1
  <2> HIDE DEF u, v
  <2> QED
    BY <1>4, <1>5, <2>1, <2>2
<1> HIDE DEF u, v
<1>7. u = v
  BY <1>4, <1>5, <1>6, SeqEqual
<1> QED
  BY <1>7 DEF u, v

\* A text of one character other than a quote, and one that begins with another
\* character, are not trimmed.
LEMMA NotTrimmed ==
  ASSUME NEW s, s # <<>>, s[1] # QuoteCh
  PROVE  TrimQuotes(s) = s
BY DEF TrimQuotes

\* A part of one character.
LEMMA OneCharacter ==
  ASSUME NEW D, NEW F \in Seq(D), NEW i \in 1 .. Len(F)
  PROVE  SubSeq(F, i, i) = <<F[i]>>
<1> DEFINE u == SubSeq(F, i, i)
           v == <<F[i]>>
<1>1. Len(F) \in Nat /\ F[i] \in D
  OBVIOUS
<1>2. u \in Seq(D) /\ Len(u) = 1 /\ u[1] = F[i]
  BY <1>1
<1>3. v \in Seq(D) /\ Len(v) = 1 /\ v[1] = F[i]
  BY <1>1
<1> HIDE DEF u, v
<1>4. u = v
  BY <1>2, <1>3, SeqEqual
<1> QED
  BY <1>4 DEF u, v

\* The first part of the path, with the key before it.
LEMMA StorePart ==
  ASSUME NEW D, NEW F \in Seq(D), NEW p \in Seq(D), NEW t, Spells(F, p, t), NEW c \in 1 .. Len(p) + 1,
         NEW q, q = SubSeq(F, 3, c + 3)
  PROVE  q # <<>> /\ TrimQuotes(q) = q /\ Key(q) = "variable-store" /\ Val(q) = SubSeq(p, 1, c - 1)
<1> DEFINE L == Len(p)
           v == SubSeq(p, 1, c - 1)
           w == SubSeq(q, 3, c + 1)
<1>1. L \in Nat /\ Len(F) \in Nat /\ L + 4 <= Len(F) /\ \A i \in 1 .. L : F[i + 4] = p[i]
  <2>1. Len(t) \in Nat
    BY DEF Spells
  <2> QED
    BY <2>1 DEF Spells
<1>2. F[3] = "variable-store" /\ F[4] = "="
  BY DEF Spells
<1> HIDE DEF L
<1>3. c \in 1 .. L + 1 /\ c + 3 \in 4 .. Len(F)
  BY <1>1 DEF L
<1>4. q \in Seq(D) /\ Len(q) = c + 1 /\ \A i \in 1 .. c + 1 : q[i] = F[3 + i - 1]
  BY <1>1, <1>3
<1>5. q[1] = "variable-store" /\ q[2] = "="
  <2>1. 1 \in 1 .. c + 1 /\ 2 \in 1 .. c + 1 /\ 3 + 1 - 1 = 3 /\ 3 + 2 - 1 = 4
    BY <1>3
  <2>2. q[1] = F[3 + 1 - 1] /\ q[2] = F[3 + 2 - 1]
    BY <1>4, <2>1
  <2> QED
    BY <1>2, <2>1, <2>2
<1>6. q # <<>>
  <2>1. Len(q) # 0
    BY <1>3, <1>4
  <2> QED
    BY <2>1
<1>7. TrimQuotes(q) = q
  <2>1. q[1] # QuoteCh
    BY <1>5 DEF QuoteCh
  <2> QED
    BY <1>6, <2>1, NotTrimmed
<1>8. Key(q) = "variable-store"
  BY <1>5 DEF Key
<1>9. Val(q) = w
  BY <1>4 DEF Val
<1>10. w \in Seq(D) /\ Len(w) = c - 1 /\ \A i \in 1 .. c - 1 : w[i] = q[3 + i - 1]
  BY <1>3, <1>4
<1>11. v \in Seq(D) /\ Len(v) = c - 1 /\ \A i \in 1 .. c - 1 : v[i] = p[i]
  BY <1>1, <1>3 DEF L
<1> HIDE DEF v, w
<1>12. ASSUME NEW i \in 1 .. c - 1 PROVE w[i] = v[i]
  <2>1. 3 + i - 1 \in 1 .. c + 1 /\ 3 + (3 + i - 1) - 1 = i + 4 /\ i \in 1 .. L
    BY <1>3, <1>1
  <2>2. w[i] = F[i + 4]
    BY <1>4, <1>10, <2>1
  <2> QED
    BY <2>1, <2>2, <1>1, <1>11
<1>13. w = v
  BY <1>10, <1>11, <1>12, SeqEqual
<1> QED
  BY <1>6, <1>7, <1>8, <1>9, <1>13 DEF v

\* The elements that the text of a boot loader is read as: the key and what is
\* before the first cut of the path, what is between its other cuts, and the rest.
ReadsAs(l, p, t, e, m) ==
  /\ Len(l) = IF t = <<>> THEN m + 2 ELSE m + 3
  /\ l[1] = <<"efi">>
  /\ l[2] # <<>> /\ Key(l[2]) = "variable-store" /\ Val(l[2]) = SubSeq(p, 1, e[1] - 1)
  /\ \A k \in 2 .. m + 1 : l[k + 1] = TrimQuotes(SubSeq(p, e[k - 1] + 1, e[k] - 1))
  /\ t # <<>> => l[m + 3] = <<"create">>

\* g counts the n + 1 cuts of that text.
StoreCount(g, n, F, t, e, m) ==
  /\ n = (IF t = <<>> THEN m + 2 ELSE m + 3) /\ Counts(g, n, Cuts(F) \cup {0, Len(F) + 1})
  /\ g[0] = 0 /\ g[1] = 2 /\ \A k \in 2 .. m + 2 : g[k] = e[k - 1] + 4
  /\ t # <<>> => g[m + 3] = Len(F) + 1

\* The cuts of the text can be counted along those of the path.
LEMMA StoreCounted ==
  ASSUME NEW C, NEW p \in Seq(C), NEW t \in CreateTexts, NEW F, F = StoreText(p, t),
         Even(QuotesBefore(p, Len(p) + 1)),
         NEW m \in Nat, NEW e, Counts(e, m + 1, Cuts(p) \cup {0, Len(p) + 1}), e[m + 1] = Len(p) + 1
  PROVE  \E g, n : StoreCount(g, n, F, t, e, m)
<1> DEFINE L == Len(p)
           T == Cuts(p) \cup {L + 1}
           U == {0, 2} \cup {i + 4 : i \in T}
           g == Shift(e, m)
<1>1. Spells(F, p, t)
  BY StoreTextIs
<1>2. L \in Nat /\ (t = <<>> => Len(F) = L + 4) /\ (t # <<>> => Len(F) = L + 6)
  BY <1>1 DEF Spells
<1>3. Cuts(F) \cup {0, Len(F) + 1} = U \cup {Len(F) + 1}
  BY StoreCuts
<1>4. Cuts(p) \subseteq 1 .. L
  BY DEF Cuts
<1>5. Counts(g, m + 2, U)
  <2>1. Cuts(p) \cup {0, L + 1} = T \cup {0}
    OBVIOUS
  <2>2. 0 \notin T
    BY <1>2, <1>4
  <2> HIDE DEF T, g
  <2>3. Counts(e, m + 1, T \cup {0})
    BY <2>1
  <2> QED
    BY <2>2, <2>3, ShiftCounts DEF g
<1>6. g[0] = 0 /\ g[1] = 2 /\ \A k \in 2 .. m + 2 : g[k] = e[k - 1] + 4
  BY DEF Shift
<1>7. CASE t = <<>>
  <2>1. Len(F) + 1 = (L + 1) + 4
    BY <1>2, <1>7
  <2>2. Len(F) + 1 \in U
    BY <2>1
  <2> HIDE DEF U, g
  <2>3. Cuts(F) \cup {0, Len(F) + 1} = U
    BY <1>3, <2>2
  <2>4. StoreCount(g, m + 2, F, t, e, m)
    BY <1>5, <1>6, <1>7, <2>3 DEF StoreCount
  <2> QED
    BY <2>4
<1>8. CASE t # <<>>
  <2> DEFINE x == Len(F) + 1
             h == [k \in 0 .. (m + 2) + 1 |-> IF k = (m + 2) + 1 THEN x ELSE g[k]]
  <2>1. x = L + 7
    BY <1>2, <1>8
  <2>2. \A u \in U : u < x
    <3>1. \A i \in T : i \in Nat /\ i <= L + 1
      BY <1>2, <1>4
    <3> HIDE DEF T
    <3> QED
      BY <1>2, <2>1, <3>1
  <2>3. x \in Nat /\ m + 2 \in Nat
    BY <1>2, <2>1
  <2> HIDE DEF U, g, x
  <2>4. Counts(h, (m + 2) + 1, U \cup {x})
    BY <1>5, <2>2, <2>3, OneMoreCut
  <2>5. h[0] = g[0] /\ h[1] = g[1] /\ (\A k \in 2 .. m + 2 : h[k] = g[k]) /\ h[m + 3] = x
    OBVIOUS
  <2>6. (m + 2) + 1 = m + 3
    OBVIOUS
  <2> HIDE DEF h
  <2>7. Counts(h, m + 3, Cuts(F) \cup {0, Len(F) + 1})
    BY <1>3, <2>4, <2>6 DEF x
  <2>8. h[0] = 0 /\ h[1] = 2 /\ (\A k \in 2 .. m + 2 : h[k] = e[k - 1] + 4) /\ h[m + 3] = Len(F) + 1
    BY <1>6, <2>5 DEF x
  <2>9. StoreCount(h, m + 3, F, t, e, m)
    BY <1>8, <2>7, <2>8 DEF StoreCount
  <2> QED
    BY <2>9
<1> QED
  BY <1>7, <1>8

\* What stands between them.
LEMMA StoreFields ==
  ASSUME NEW C, NEW p \in Seq(C), NEW t \in CreateTexts, NEW F, F = StoreText(p, t),
         Even(QuotesBefore(p, Len(p) + 1)),
         NEW m \in Nat, NEW e, Counts(e, m + 1, Cuts(p) \cup {0, Len(p) + 1}), e[m + 1] = Len(p) + 1
  PROVE  ReadsAs(Fields(F), p, t, e, m)
<1> DEFINE L == Len(p)
           D == C \cup {"efi", CommaCh, "variable-store", "=", "create"}
<1>1. Spells(F, p, t) /\ F \in Seq(D)
  BY StoreTextIs
<1>2. p \in Seq(D)
  OBVIOUS
<1> HIDE DEF D
<1>3. L \in Nat /\ (t = <<>> => Len(F) = L + 4) /\ (t # <<>> => Len(F) = L + 6)
  BY <1>1 DEF Spells
<1>4. F[1] = "efi" /\ (t # <<>> => F[L + 6] = "create")
  BY <1>1 DEF Spells
<1>a. PICK g, n : StoreCount(g, n, F, t, e, m)
  BY StoreCounted
<1>5. /\ n = (IF t = <<>> THEN m + 2 ELSE m + 3) /\ Counts(g, n, Cuts(F) \cup {0, Len(F) + 1})
      /\ g[0] = 0 /\ g[1] = 2 /\ \A k \in 2 .. m + 2 : g[k] = e[k - 1] + 4
      /\ t # <<>> => g[m + 3] = Len(F) + 1
  BY <1>a DEF StoreCount
<1>6. /\ \A k \in 0 .. m + 1 : e[k] \in Nat
      /\ \A j, k \in 0 .. m + 1 : j < k => e[j] < e[k]
      /\ e[0] = 0
  BY DEF Counts
<1>7. \A k \in 1 .. m + 1 : e[k] \in 1 .. L + 1 /\ e[k - 1] \in 0 .. L /\ e[k - 1] < e[k]
  <2> SUFFICES ASSUME NEW k \in 1 .. m + 1 PROVE e[k] \in 1 .. L + 1 /\ e[k - 1] \in 0 .. L /\ e[k - 1] < e[k]
    OBVIOUS
  <2>1. k \in 0 .. m + 1 /\ k - 1 \in 0 .. m + 1 /\ m + 1 \in 0 .. m + 1 /\ k - 1 < k
    OBVIOUS
  <2>2. e[k] \in Nat /\ e[k - 1] \in Nat /\ e[k - 1] < e[k]
    BY <1>6, <2>1
  <2>3. e[k] <= L + 1
    <3>1. CASE k = m + 1
      BY <3>1, <2>2
    <3>2. CASE k < m + 1
      <4>1. e[k] < e[m + 1]
        BY <1>6, <2>1, <3>2
      <4> QED
        BY <4>1, <2>2, <1>3
    <3> QED
      BY <3>1, <3>2
  <2> QED
    BY <2>2, <2>3, <1>3
<1> HIDE DEF L
<1> DEFINE l == Pieces(F, g, n)
<1>8. n \in Nat /\ m + 2 <= n
  BY <1>5
<1>9. Len(l) = n /\ \A k \in 1 .. n : l[k] = TrimQuotes(SubSeq(F, g[k - 1] + 1, g[k] - 1))
  BY <1>8 DEF Pieces
<1>10. l[1] = <<"efi">>
  <2>1. l[1] = TrimQuotes(SubSeq(F, g[1 - 1] + 1, g[1] - 1))
    BY <1>8, <1>9
  <2>2. g[1 - 1] + 1 = 1 /\ g[1] - 1 = 1
    BY <1>5
  <2>3. 1 \in 1 .. Len(F)
    BY <1>3
  <2>4. SubSeq(F, 1, 1) = <<"efi">>
    BY <1>1, <1>4, <2>3, OneCharacter
  <2>5. TrimQuotes(<<"efi">>) = <<"efi">>
    <3> DEFINE s == <<"efi">>
    <3>1. s # <<>> /\ s[1] # QuoteCh
      BY DEF QuoteCh
    <3> HIDE DEF s
    <3>2. TrimQuotes(s) = s
      BY <3>1, NotTrimmed
    <3> QED
      BY <3>2 DEF s
  <2> QED
    BY <2>1, <2>2, <2>4, <2>5
<1>11. l[2] # <<>> /\ Key(l[2]) = "variable-store" /\ Val(l[2]) = SubSeq(p, 1, e[1] - 1)
  <2> DEFINE c == e[1]
             q == SubSeq(F, 3, c + 3)
  <2>1. c \in 1 .. Len(p) + 1
    BY <1>7 DEF L
  <2>2. g[2 - 1] + 1 = 3 /\ g[2] - 1 = c + 3
    <3>1. g[2] = e[2 - 1] + 4 /\ g[2 - 1] = 2 /\ e[2 - 1] = c
      BY <1>5
    <3> QED
      BY <3>1, <2>1, <1>3 DEF L
  <2> HIDE DEF c, q
  <2>3. q # <<>> /\ TrimQuotes(q) = q /\ Key(q) = "variable-store" /\ Val(q) = SubSeq(p, 1, c - 1)
    BY <1>1, <1>2, <2>1, StorePart DEF q
  <2>4. l[2] = TrimQuotes(SubSeq(F, g[2 - 1] + 1, g[2] - 1))
    BY <1>8, <1>9
  <2>5. l[2] = q
    BY <2>2, <2>3, <2>4 DEF q
  <2> QED
    BY <2>3, <2>5 DEF c
<1>12. ASSUME NEW k \in 2 .. m + 1 PROVE l[k + 1] = TrimQuotes(SubSeq(p, e[k - 1] + 1, e[k] - 1))
  <2> DEFINE a == e[k - 1] + 1
             b == e[k] - 1
  <2>0. e[k] \in 1 .. L + 1 /\ e[k - 1] \in 0 .. L /\ e[k - 1] < e[k] /\ L \in Nat
    <3>1. k \in 1 .. m + 1
      OBVIOUS
    <3> QED
      BY <1>3, <1>7, <3>1
  <2>1. a \in 1 .. Len(p) + 1 /\ b \in 0 .. Len(p) /\ a <= b + 1
    BY <2>0 DEF L
  <2>2. k + 1 \in 1 .. n /\ (k + 1) - 1 = k /\ k \in 2 .. m + 2 /\ k + 1 \in 2 .. m + 2
    BY <1>8
  <2>3. e[k] \in Nat /\ e[k - 1] \in Nat
    BY <1>3, <1>7
  <2>4. g[(k + 1) - 1] + 1 = a + 4 /\ g[k + 1] - 1 = b + 4
    <3>1. g[k] = e[k - 1] + 4 /\ g[k + 1] = e[(k + 1) - 1] + 4
      BY <1>5, <2>2
    <3> QED
      BY <2>2, <2>3, <3>1
  <2> HIDE DEF a, b
  <2>5. SubSeq(F, a + 4, b + 4) = SubSeq(p, a, b)
    BY <1>1, <1>2, <2>1, PathPart
  <2>6. l[k + 1] = TrimQuotes(SubSeq(F, g[(k + 1) - 1] + 1, g[k + 1] - 1))
    BY <1>9, <2>2
  <2> QED
    BY <2>4, <2>5, <2>6 DEF a, b
<1>13. ASSUME t # <<>> PROVE l[m + 3] = <<"create">>
  <2>1. n = m + 3 /\ g[m + 3] = L + 7
    BY <1>3, <1>5, <1>13
  <2>2. g[(m + 3) - 1] + 1 = L + 6 /\ g[m + 3] - 1 = L + 6
    <3>1. (m + 3) - 1 = m + 2 /\ m + 2 \in 2 .. m + 2 /\ (m + 2) - 1 = m + 1
      OBVIOUS
    <3>2. g[m + 2] = e[(m + 2) - 1] + 4 /\ e[m + 1] = L + 1
      BY <1>5, <3>1 DEF L
    <3> QED
      BY <1>3, <2>1, <3>1, <3>2
  <2>3. l[m + 3] = TrimQuotes(SubSeq(F, g[(m + 3) - 1] + 1, g[m + 3] - 1))
    BY <1>8, <1>9, <2>1
  <2>4. L + 6 \in 1 .. Len(F)
    BY <1>3, <1>13
  <2>5. SubSeq(F, L + 6, L + 6) = <<"create">>
    BY <1>1, <1>4, <1>13, <2>4, OneCharacter
  <2>6. TrimQuotes(<<"create">>) = <<"create">>
    <3> DEFINE s == <<"create">>
    <3>1. s # <<>> /\ s[1] # QuoteCh
      BY DEF QuoteCh
    <3> HIDE DEF s
    <3>2. TrimQuotes(s) = s
      BY <3>1, NotTrimmed
    <3> QED
      BY <3>2 DEF s
  <2> QED
    BY <2>2, <2>3, <2>5, <2>6
<1>14. Fields(F) = l
  <2>1. Fields(F) = IF l = <<(<<>>)>> THEN <<>> ELSE l
    BY <1>5, <1>8, FieldsAre
  <2>2. <<(<<>>)>>[1] = <<>> /\ <<"efi">> # <<>>
    OBVIOUS
  <2> HIDE DEF l
  <2>3. l # <<(<<>>)>>
    BY <1>10, <2>2
  <2> QED
    BY <2>1, <2>3
<1> HIDE DEF l
<1>15. ReadsAs(l, p, t, e, m)
  BY <1>5, <1>9, <1>10, <1>11, <1>12, <1>13 DEF ReadsAs
<1> QED
  BY <1>14, <1>15

\* The boot loaders after the elements of a list: each after the one before it.
LoaderSteps(b, l) ==
  \A n \in 2 .. Len(l) : b[n] = IF l[n] = <<>> THEN b[n - 1] ELSE LoaderApply(b[n - 1], l[n])

\* An option that the boot loader does not have refuses the list.
LEMMA LoaderRefuses ==
  ASSUME NEW C, NEW l \in Seq(Seq(C)), NEW b, LoaderSteps(b, l), b[1] = Loader["efi"],
         NEW k \in 2 .. Len(l), l[k] # <<>>, Key(l[k]) \notin DOMAIN LoaderFields["efi"]
  PROVE  b[Len(l)] = Error
<1>0. Len(l) \in Nat
  OBVIOUS
<1> DEFINE EfiOrError(x) == x = Error \/ (IsLoader(x) /\ x.kind = "efi")
           S == {n \in Nat : n + 1 <= Len(l) => EfiOrError(b[n + 1])}
           R == {n \in Nat : k + n <= Len(l) => b[k + n] = Error}
<1>1. 0 \in S
  <2>1. "efi" \in DOMAIN Loader
    BY DEF Loader
  <2>2. EfiOrError(Loader["efi"])
    BY <2>1, LoaderKinds
  <2> HIDE DEF EfiOrError
  <2> QED
    BY <2>2
<1>2. ASSUME NEW n \in Nat, n \in S PROVE n + 1 \in S
  <2> SUFFICES ASSUME n + 2 <= Len(l) PROVE EfiOrError(b[n + 2])
    <3> HIDE DEF EfiOrError
    <3> QED
      OBVIOUS
  <2>1. EfiOrError(b[n + 1])
    <3> HIDE DEF EfiOrError
    <3> QED
      BY <1>2, <1>0
  <2>2. n + 2 \in 2 .. Len(l) /\ (n + 2) - 1 = n + 1 /\ l[n + 2] \in Seq(C)
    BY <1>0
  <2>3. b[n + 2] = IF l[n + 2] = <<>> THEN b[n + 1] ELSE LoaderApply(b[n + 1], l[n + 2])
    BY <2>2 DEF LoaderSteps
  <2>4. b[n + 1] = Error => LoaderApply(b[n + 1], l[n + 2]) = Error
    BY DEF LoaderApply
  <2>5. IsLoader(b[n + 1]) /\ b[n + 1].kind = "efi" => EfiOrError(LoaderApply(b[n + 1], l[n + 2]))
    BY <2>2, LoaderApplied
  <2> QED
    BY <2>1, <2>3, <2>4, <2>5
<1>3. \A n \in Nat : n \in S
  <2> HIDE DEF S
  <2> QED
    BY <1>1, <1>2, Induction
<1>4. EfiOrError(b[k - 1])
  <2>1. k - 2 \in S
    <3> HIDE DEF S
    <3> QED
      BY <1>3
  <2>2. (k - 2) + 1 = k - 1 /\ (k - 2) + 1 <= Len(l)
    BY <1>0
  <2> HIDE DEF EfiOrError
  <2> QED
    BY <2>1, <2>2
<1>5. b[k] = Error
  <2>1. b[k] = LoaderApply(b[k - 1], l[k])
    BY DEF LoaderSteps
  <2>2. CASE b[k - 1] = Error
    BY <2>1, <2>2 DEF LoaderApply
  <2>3. CASE b[k - 1].kind = "efi"
    BY <2>1, <2>3 DEF LoaderApply
  <2> QED
    BY <1>4, <2>2, <2>3
<1>6. 0 \in R
  BY <1>5
<1>7. ASSUME NEW n \in Nat, n \in R PROVE n + 1 \in R
  <2> SUFFICES ASSUME k + (n + 1) <= Len(l) PROVE b[k + (n + 1)] = Error
    OBVIOUS
  <2>1. k + (n + 1) \in 2 .. Len(l) /\ (k + (n + 1)) - 1 = k + n /\ k + n <= Len(l)
    BY <1>0
  <2>2. b[k + n] = Error
    BY <1>7, <2>1
  <2>3. b[k + (n + 1)] = IF l[k + (n + 1)] = <<>> THEN b[k + n] ELSE LoaderApply(b[k + n], l[k + (n + 1)])
    BY <2>1 DEF LoaderSteps
  <2> QED
    BY <2>2, <2>3 DEF LoaderApply
<1>8. Len(l) - k \in R
  <2>1. Len(l) - k \in Nat
    BY <1>0
  <2> HIDE DEF R
  <2> QED
    BY <1>6, <1>7, <2>1, Induction
<1>9. k + (Len(l) - k) = Len(l)
  BY <1>0
<1> QED
  BY <1>0, <1>8, <1>9

\* Names for the two values of a flag.
Off == FALSE
On == TRUE

\* The fields of an EFI boot loader.
EfiFields == {"kind", "path", "create"}

\* An EFI boot loader, by its fields.
EfiIs(x, p, c) == x = [f \in EfiFields |-> x[f]] /\ x.kind = "efi" /\ x.path = p /\ x.create = c

\* With another path.
LEMMA EfiPath ==
  ASSUME NEW x, NEW p, NEW c, EfiIs(x, p, c), NEW q, NEW y, y = [x EXCEPT !["path"] = q]
  PROVE  EfiIs(y, q, c)
<1>1. DOMAIN x = EfiFields /\ x.kind = "efi" /\ x.path = p /\ x.create = c
  BY DEF EfiIs
<1>2. y = [f \in EfiFields |-> y[f]]
  BY <1>1
<1>3. y.kind = "efi" /\ y.path = q /\ y.create = c
  BY <1>1 DEF EfiFields
<1> QED
  BY <1>2, <1>3 DEF EfiIs

\* With another flag.
LEMMA EfiCreate ==
  ASSUME NEW x, NEW p, NEW c, EfiIs(x, p, c), NEW d, NEW y, y = [x EXCEPT !["create"] = d]
  PROVE  EfiIs(y, p, d)
<1>1. DOMAIN x = EfiFields /\ x.kind = "efi" /\ x.path = p /\ x.create = c
  BY DEF EfiIs
<1>2. y = [f \in EfiFields |-> y[f]]
  BY <1>1
<1>3. y.kind = "efi" /\ y.path = p /\ y.create = d
  BY <1>1 DEF EfiFields
<1> QED
  BY <1>2, <1>3 DEF EfiIs

\* An EFI boot loader is its fields.
LEMMA EfiSame ==
  ASSUME NEW x, NEW y, NEW p, NEW c, EfiIs(x, p, c), EfiIs(y, p, c)
  PROVE  x = y
<1>1. \A f \in EfiFields : x[f] = y[f]
  BY DEF EfiIs, EfiFields
<1>2. x = [f \in EfiFields |-> x[f]] /\ y = [f \in EfiFields |-> y[f]]
  BY DEF EfiIs
<1> QED
  BY <1>1, <1>2

\* What vfkit makes of the text that ToCmdLine writes for a path that is not cut.
LEMMA StoreApplied ==
  ASSUME NEW C, NEW p \in Seq(C), NEW t \in CreateTexts, NEW m \in Nat, NEW e, e[1] = Len(p) + 1, m = 0,
         NEW l, ReadsAs(l, p, t, e, m), NEW b, LoaderSteps(b, l), b[1] = Loader["efi"]
  PROVE  IF t = <<>> THEN EfiIs(b[Len(l)], p, Off) ELSE EfiIs(b[Len(l)], p, On)
<1>1. EfiIs(b[1], <<>>, Off)
  <2> DEFINE x == [kind |-> "efi", path |-> <<>>, create |-> Off]
  <2>1. b[1] = x
    BY DEF Loader, Off
  <2>2. x = [f \in EfiFields |-> x[f]] /\ x.kind = "efi" /\ x.path = <<>> /\ x.create = Off
    BY DEF EfiFields
  <2> HIDE DEF x
  <2> QED
    BY <2>1, <2>2 DEF EfiIs
<1>2. LoaderFields["efi"] = [key \in {"variable-store", "create"} |-> IF key = "create" THEN key ELSE "path"]
  BY DEF LoaderFields
<1>3. /\ Len(l) = IF t = <<>> THEN 2 ELSE 3
      /\ l[2] # <<>> /\ Key(l[2]) = "variable-store" /\ Val(l[2]) = SubSeq(p, 1, e[1] - 1)
      /\ t # <<>> => l[3] = <<"create">>
  BY DEF ReadsAs
<1>4. Val(l[2]) = p
  <2>1. Len(p) \in Nat /\ e[1] - 1 = Len(p)
    OBVIOUS
  <2>2. SubSeq(p, 1, Len(p)) = p
    OBVIOUS
  <2> QED
    BY <1>3, <2>1, <2>2
<1>5. EfiIs(b[2], p, Off)
  <2>1. b[2] = LoaderApply(b[1], l[2])
    <3>1. 2 \in 2 .. Len(l) /\ 2 - 1 = 1
      BY <1>3
    <3> QED
      BY <1>3, <3>1 DEF LoaderSteps
  <2>2. b[1].kind = "efi" /\ b[1] # Error
    BY <1>1 DEF EfiIs, Error
  <2>3. LoaderFields[b[1].kind]["variable-store"] = "path" /\ "variable-store" \in DOMAIN LoaderFields[b[1].kind]
    BY <1>2, <2>2
  <2>4. LoaderApply(b[1], l[2]) = [b[1] EXCEPT !["path"] = p]
    BY <1>3, <1>4, <2>2, <2>3 DEF LoaderApply
  <2>5. b[2] = [b[1] EXCEPT !["path"] = p]
    BY <2>1, <2>4
  <2> QED
    BY <1>1, <2>5, EfiPath
<1>6. CASE t = <<>>
  <2>1. Len(l) = 2
    BY <1>3, <1>6
  <2> QED
    BY <1>5, <1>6, <2>1
<1>7. CASE t # <<>>
  <2>1. Len(l) = 3 /\ l[3] = <<"create">>
    BY <1>3, <1>7
  <2>2. Key(l[3]) = "create" /\ Val(l[3]) = <<>> /\ l[3] # <<>>
    <3>1. Len(l[3]) = 1 /\ l[3][1] = "create" /\ l[3] \in Seq({"create"})
      BY <2>1
    <3>2. Key(l[3]) = "create"
      BY <3>1 DEF Key
    <3>3. Val(l[3]) = SubSeq(l[3], 3, 1)
      BY <3>1 DEF Val
    <3>4. SubSeq(l[3], 3, 1) = <<>>
      BY <3>1
    <3> QED
      BY <2>1, <3>2, <3>3, <3>4
  <2>3. b[3] = LoaderApply(b[2], l[3])
    <3>1. 3 \in 2 .. Len(l) /\ 3 - 1 = 2
      BY <2>1
    <3> QED
      BY <2>2, <3>1 DEF LoaderSteps
  <2>4. b[2].kind = "efi" /\ b[2] # Error
    BY <1>5 DEF EfiIs, Error
  <2>5. LoaderFields[b[2].kind]["create"] = "create" /\ "create" \in DOMAIN LoaderFields[b[2].kind]
    BY <1>2, <2>4
  <2>6. LoaderApply(b[2], l[3]) = [b[2] EXCEPT !["create"] = On]
    BY <2>2, <2>4, <2>5 DEF LoaderApply, On
  <2>7. b[3] = [b[2] EXCEPT !["create"] = On]
    BY <2>3, <2>6
  <2>8. EfiIs(b[3], p, On)
    BY <1>5, <2>7, EfiCreate
  <2> QED
    BY <1>7, <2>1, <2>8
<1> QED
  BY <1>6, <1>7

\* What ToCmdLine writes of an EFI boot loader is read as that boot loader if its
\* path is not cut, and is refused if something after a cut is no option.
LEMMA StoreRead ==
  ASSUME NEW C, NEW p \in Seq(C), NEW t \in CreateTexts, NEW F, F = StoreText(p, t), Even(QuotesBefore(p, Len(p) + 1)),
         NEW x, x = BootloaderFromCmdLine(Fields(F))
  PROVE  /\ Cuts(p) = {} => IF t = <<>> THEN EfiIs(x, p, Off) ELSE EfiIs(x, p, On)
         /\ \A k \in 2 .. Len(Fields(p)) :
              Fields(p)[k] # <<>> /\ Key(Fields(p)[k]) \notin DOMAIN LoaderFields["efi"] => x = Error
<1> DEFINE D == C \cup {"efi", CommaCh, "variable-store", "=", "create"}
           l == Fields(F)
<1>1. PICK e, m : m \in Nat /\ Counts(e, m + 1, Cuts(p) \cup {0, Len(p) + 1}) /\ e[m + 1] = Len(p) + 1
  BY CutsCounted
<1>2. ReadsAs(l, p, t, e, m)
  BY <1>1, StoreFields
<1>3. l \in Seq(Seq(D))
  <2>1. F \in Seq(D)
    BY StoreTextIs
  <2> HIDE DEF D
  <2>2. MeansFields(F) /\ ParseString(F).list \in Seq(Seq(D))
    BY <2>1, ListMeans
  <2>3. Even(QuotesBefore(F, Len(F) + 1))
    BY StoreQuotes
  <2>4. ParseString(F) = [ok |-> TRUE, list |-> l]
    BY <2>2, <2>3 DEF MeansFields
  <2> HIDE DEF l
  <2> QED
    BY <2>2, <2>4
<1> HIDE DEF D, l
<1>4. Len(l) \in Nat \ {0} /\ Head(l) = <<"efi">>
  <2>1. Len(l) \in Nat \ {0} /\ l[1] = <<"efi">>
    BY <1>1, <1>2 DEF ReadsAs
  <2> QED
    BY <1>3, <2>1
<1>5. Len(Head(l)) = 1 /\ Head(l)[1] = "efi" /\ "efi" \in DOMAIN Loader
  <2>1. Len(<<"efi">>) = 1 /\ <<"efi">>[1] = "efi"
    OBVIOUS
  <2>2. "efi" \in DOMAIN Loader
    BY DEF Loader
  <2> QED
    BY <1>4, <2>1, <2>2
<1>6. PICK b : /\ BootloaderFromCmdLine(l) = b[Len(l)]
               /\ b[1] = Loader[Head(l)[1]]
               /\ \A n \in 2 .. Len(l) : b[n] = IF l[n] = <<>> THEN b[n - 1] ELSE LoaderApply(b[n - 1], l[n])
  BY <1>4, <1>5, LoaderUnfolds
<1>7. x = b[Len(l)] /\ b[1] = Loader["efi"] /\ LoaderSteps(b, l)
  BY <1>5, <1>6 DEF LoaderSteps, l
<1>8. ASSUME Cuts(p) = {} PROVE IF t = <<>> THEN EfiIs(x, p, Off) ELSE EfiIs(x, p, On)
  <2>1. /\ {0, Len(p) + 1} = {e[k] : k \in 0 .. m + 1} /\ e[0] = 0
        /\ \A j, k \in 0 .. m + 1 : j < k => e[j] < e[k]
        /\ \A k \in 0 .. m + 1 : e[k] \in Nat
    BY <1>1, <1>8 DEF Counts
  <2>2. Len(p) \in Nat
    OBVIOUS
  <2>3. m = 0
    <3> SUFFICES ASSUME m # 0 PROVE FALSE
      OBVIOUS
    <3>1. 0 \in 0 .. m + 1 /\ 1 \in 0 .. m + 1 /\ 2 \in 0 .. m + 1
      BY <1>1
    <3>2. e[0] < e[1] /\ e[1] < e[2] /\ e[0] \in Nat /\ e[1] \in Nat /\ e[2] \in Nat
      BY <2>1, <3>1
    <3>3. e[1] \in {0, Len(p) + 1} /\ e[2] \in {0, Len(p) + 1}
      BY <2>1, <3>1
    <3> QED
      BY <2>1, <2>2, <3>2, <3>3
  <2>4. e[1] = Len(p) + 1
    BY <1>1, <2>3
  <2> QED
    BY <1>1, <1>2, <1>7, <2>3, <2>4, StoreApplied
<1>9. ASSUME NEW k \in 2 .. Len(Fields(p)), Fields(p)[k] # <<>>, Key(Fields(p)[k]) \notin DOMAIN LoaderFields["efi"] PROVE x = Error
  <2> DEFINE q == Pieces(p, e, m + 1)
  <2>1. Fields(p) = IF q = <<(<<>>)>> THEN <<>> ELSE q
    BY <1>1, FieldsAre
  <2>2. Len(q) = m + 1 /\ \A i \in 1 .. m + 1 : q[i] = TrimQuotes(SubSeq(p, e[i - 1] + 1, e[i] - 1))
    BY <1>1 DEF Pieces
  <2> HIDE DEF q
  <2>3. Fields(p) = q
    <3>1. Len(<<>>) = 0
      OBVIOUS
    <3>2. Fields(p) # <<>>
      BY <1>9, <3>1
    <3> QED
      BY <2>1, <3>2
  <2>4. k \in 2 .. m + 1 /\ k \in 1 .. m + 1 /\ k + 1 \in 2 .. m + 2
    BY <1>1, <2>2, <2>3
  <2>5. l[k + 1] = Fields(p)[k] /\ m + 2 <= Len(l)
    <3>1. l[k + 1] = TrimQuotes(SubSeq(p, e[k - 1] + 1, e[k] - 1))
      BY <1>2, <2>4 DEF ReadsAs
    <3>2. q[k] = TrimQuotes(SubSeq(p, e[k - 1] + 1, e[k] - 1))
      BY <2>2, <2>4
    <3>3. m + 2 <= Len(l)
      BY <1>1, <1>2 DEF ReadsAs
    <3> QED
      BY <2>3, <3>1, <3>2, <3>3
  <2>6. k + 1 \in 2 .. Len(l)
    BY <1>1, <1>4, <2>4, <2>5
  <2> QED
    BY <1>3, <1>7, <1>9, <2>5, <2>6, LoaderRefuses
<1> QED
  BY <1>8, <1>9

\* One use of a list flag, and none.
LEMMA OneList ==
  ASSUME NEW C, NEW F \in Seq(C), NEW args, args = <<F>>
  PROVE  /\ SetEach(args).ok <=> Even(QuotesBefore(F, Len(F) + 1))
         /\ SetEach(args).ok => SetEach(args).list = Fields(F)
<1>1. DOMAIN args = {1} /\ args[1] = F
  OBVIOUS
<1>2. IsSeq(F)
  BY SeqIs
<1>3. /\ SetEach(args).ok <=> \A i \in DOMAIN args : Even(QuotesBefore(args[i], Len(args[i]) + 1))
      /\ SetEach(args).ok => SetEach(args).list = FlattenSeq([i \in DOMAIN args |-> Fields(args[i])])
  BY <1>1, <1>2, EachMeans
<1> DEFINE seqs == [i \in DOMAIN args |-> Fields(args[i])]
<1>4. Len(seqs) = 1 /\ seqs[1] = Fields(F)
  <2>1. seqs = [i \in 1 .. 1 |-> Fields(args[i])]
    BY <1>1
  <2>2. Len([i \in 1 .. 1 |-> Fields(args[i])]) = 1
    OBVIOUS
  <2> QED
    BY <1>1, <2>1, <2>2
<1> HIDE DEF seqs
<1>5. FlattenSeq(seqs) = Fields(F)
  <2>0. Len(seqs) \in Nat /\ Len(seqs) # 0
    BY <1>4
  <2>1. PICK f : /\ FlattenSeq(seqs) = f[Len(seqs)]
                 /\ f[1] = seqs[1]
                 /\ \A n \in 1 .. Len(seqs) - 1 : f[n + 1] = f[n] \o seqs[n + 1]
    BY <2>0, FlattenUnfolds
  <2> QED
    BY <1>4, <2>1
<1> QED
  BY <1>1, <1>3, <1>5 DEF seqs

\* A flag that is not used has no elements.
LEMMA NoList == SetEach(<<>>).ok = TRUE /\ SetEach(<<>>).list = <<>>
<1> DEFINE e == <<>>
           seqs == [i \in DOMAIN e |-> ParseString(e[i]).list]
<1>1. DOMAIN e = {} /\ Len(seqs) = 0
  OBVIOUS
<1>2. FlattenSeq(seqs) = <<>>
  BY <1>1 DEF FlattenSeq
<1>3. SetEach(e) = [ok |-> \A i \in DOMAIN e : ParseString(e[i]).ok, list |-> FlattenSeq(seqs)]
  BY DEF SetEach
<1>4. SetEach(e).list = FlattenSeq(seqs)
  BY <1>3
<1>5. SetEach(e).ok = TRUE
  BY <1>1, <1>3
<1> QED
  BY <1>2, <1>4, <1>5

\* An EFI boot loader, and what the vfkit that Cmd starts makes of it.
LEMMA EfiStarted ==
  ASSUME NEW b, IsLoader(b), b.kind = "efi", NEW o, o.bootloader = LoaderArgs(b), o.legacy = LegacyArgs(b),
         NEW x, x = NewBootloaderConfiguration(o)
  PROVE  (~Cut(b) => x # Error) /\ (x # Error /\ ~Ambiguous(b) => x = b)
<1> DEFINE p == b.path
           t == IF b.create THEN <<CommaCh, "create">> ELSE <<>>
           F == StoreText(p, t)
           C == ToSet(p)
           D == C \cup {"efi", CommaCh, "variable-store", "=", "create"}
           even == Even(QuotesBefore(p, Len(p) + 1))
<1>1. DOMAIN b = EfiFields /\ b = [f \in EfiFields |-> b[f]]
  <2>1. DOMAIN Loader["efi"] = EfiFields
    BY DEF Loader, EfiFields
  <2> QED
    BY <2>1 DEF IsLoader
<1>2. b.create \in BOOLEAN /\ p \in Seq(C)
  BY <1>1 DEF IsLoader, EfiFields, IsSeq
<1>3. t \in CreateTexts /\ (t = <<>> <=> ~b.create)
  BY <1>2 DEF CreateTexts
<1>4. EfiIs(b, p, IF t = <<>> THEN Off ELSE On)
  <2>1. b.create = IF t = <<>> THEN Off ELSE On
    BY <1>2, <1>3 DEF Off, On
  <2> HIDE DEF t
  <2> QED
    BY <1>1, <2>1 DEF EfiIs
<1>5. o.bootloader = <<F>>
  BY DEF LoaderArgs, StoreText
<1>6. o.legacy = NoLegacy
  BY DEF LegacyArgs
<1> HIDE DEF p, t, C
<1>7. F \in Seq(D)
  BY <1>2, <1>3, StoreTextIs
<1>8. QuotesBefore(F, Len(F) + 1) = QuotesBefore(p, Len(p) + 1)
  BY <1>2, <1>3, StoreQuotes
<1> HIDE DEF F, D
<1>9. (SetEach(o.bootloader).ok <=> even) /\ (even => SetEach(o.bootloader).list = Fields(F))
  BY <1>5, <1>7, <1>8, OneList
<1>10. x = IF even THEN BootloaderFromCmdLine(Fields(F)) ELSE Error
  BY <1>6, <1>9 DEF NewBootloaderConfiguration
<1>11. CASE ~even
  BY <1>10, <1>11 DEF Cut, p
<1>12. CASE even
  <2>1. x = BootloaderFromCmdLine(Fields(F))
    BY <1>10, <1>12
  <2>2. /\ Cuts(p) = {} => IF t = <<>> THEN EfiIs(x, p, Off) ELSE EfiIs(x, p, On)
        /\ \A k \in 2 .. Len(Fields(p)) :
             Fields(p)[k] # <<>> /\ Key(Fields(p)[k]) \notin DOMAIN LoaderFields["efi"] => x = Error
    BY <1>2, <1>3, <1>12, <2>1, StoreRead DEF F
  <2>3. CASE Cuts(p) = {}
    <3>1. x = b
      <4>1. CASE t = <<>>
        BY <1>4, <2>2, <2>3, <4>1, EfiSame
      <4>2. CASE t # <<>>
        BY <1>4, <2>2, <2>3, <4>2, EfiSame
      <4> QED
        BY <4>1, <4>2
    <3>2. b # Error
      BY DEF Error
    <3> QED
      BY <3>1, <3>2
  <2>4. CASE Cuts(p) # {}
    <3>1. Cut(b)
      BY <2>4 DEF Cut, p
    <3>2. ASSUME ~Ambiguous(b) PROVE x = Error
      <4>1. PICK k \in 2 .. Len(Fields(p)) : ~(Fields(p)[k] = <<>> \/ Key(Fields(p)[k]) \in DOMAIN LoaderFields.efi)
        BY <2>4, <3>2 DEF Ambiguous, p
      <4> QED
        BY <2>2, <4>1
    <3> QED
      BY <3>1, <3>2
  <2> QED
    BY <2>3, <2>4
<1> QED
  BY <1>11, <1>12

\* The boot loader of the vfkit that Cmd starts: refused only if it boots macOS or
\* its path is cut, and otherwise its own unless what follows a cut are options.
LEMMA LoaderStarted ==
  ASSUME NEW b, b = NoBoot \/ IsLoader(b), CanWriteLoader(b), NEW o, o.bootloader = LoaderArgs(b), o.legacy = LegacyArgs(b),
         NEW x, x = NewBootloaderConfiguration(o)
  PROVE  (b.kind # "macos" /\ ~Cut(b) => x # Error) /\ (x # Error /\ ~Ambiguous(b) => x = b)
<1>1. b # NoBoot
  BY DEF CanWriteLoader, NoBoot
<1>2. IsLoader(b) /\ b.kind \in {"efi", "linux", "macos"}
  BY <1>1 DEF IsLoader, Loader
<1>3. CASE b.kind = "efi"
  BY <1>2, <1>3, EfiStarted
<1>4. CASE b.kind = "linux"
  <2>1. o.bootloader = <<>> /\ o.legacy = b
    BY <1>4 DEF LoaderArgs, LegacyArgs
  <2>2. b # NoLegacy /\ b # Error
    <3>1. b.kernel # <<>>
      BY <1>4 DEF CanWriteLoader
    <3>2. NoLegacy.kernel = <<>>
      BY DEF NoLegacy, Loader
    <3> QED
      BY <1>4, <3>1, <3>2 DEF Error
  <2>3. x = b
    BY <2>1, <2>2, NoList DEF NewBootloaderConfiguration
  <2> QED
    BY <2>2, <2>3
<1>5. CASE b.kind = "macos"
  <2>1. o.bootloader = <<>> /\ o.legacy = NoLegacy
    BY <1>5 DEF LoaderArgs, LegacyArgs
  <2>2. x = BootloaderFromCmdLine(<<>>)
    BY <2>1, NoList DEF NewBootloaderConfiguration
  <2>3. x = Error
    BY <2>2 DEF BootloaderFromCmdLine
  <2> QED
    BY <1>5, <2>3
<1> QED
  BY <1>2, <1>3, <1>4, <1>5

------------------------------------------------------------------------------
\* A machine written and read again.

\* What the command line carries of a machine, field by field.
LEMMA CarriedVmFields ==
  ASSUME NEW v, v = [f \in VmFields |-> v[f]], v.ignition = [path |-> v.ignition.path, port |-> v.ignition.port]
  PROVE  LET c == CarriedVm(v)
         IN  /\ c = [f \in VmFields |-> c[f]]
             /\ c.timesync = Empty.timesync /\ c.memory = 0 /\ c.ignition = [path |-> v.ignition.path, port |-> 0]
             /\ c.vcpus = IF v.vcpus = 0 THEN 1 ELSE v.vcpus
             /\ c.devices = [i \in DOMAIN v.devices |-> Carried(v.devices[i])]
             /\ c.kind = v.kind /\ c.boot = v.boot /\ c.nested = v.nested
<1> DEFINE c == CarriedVm(v)
           D == [i \in DOMAIN v.devices |-> Carried(v.devices[i])]
           n == IF v.vcpus = 0 THEN 1 ELSE v.vcpus
           T == Empty.timesync
<1>1. DOMAIN v = VmFields
  OBVIOUS
<1>2. c = [v EXCEPT !.timesync = T, !.memory = 0, !.ignition.port = 0, !.vcpus = n, !.devices = D]
  BY DEF CarriedVm
<1> HIDE DEF c, D, n, T
<1>3. c = [f \in VmFields |-> c[f]]
  BY <1>1, <1>2
<1>4. c.timesync = T /\ c.memory = 0 /\ c.devices = D /\ c.vcpus = n
  BY <1>1, <1>2 DEF VmFields
<1>5. c.ignition = [path |-> v.ignition.path, port |-> 0]
  BY <1>1, <1>2 DEF VmFields
<1>6. c.kind = v.kind /\ c.boot = v.boot /\ c.nested = v.nested
  BY <1>1, <1>2 DEF VmFields
<1> QED
  BY <1>3, <1>4, <1>5, <1>6 DEF c, D, n, T

\* The machine of the vfkit that Cmd starts, if it has one, and why it may have none.
LEMMA MachineStarted ==
  ASSUME NEW vm, IsMachine(vm), CanWriteVm(vm), NEW b, b = NewVMConfiguration(Args(vm))
  PROVE  /\ b # Error /\ ~Ambiguous(vm.boot) => CarriedVm(b) = CarriedVm(vm)
         /\ b = Error => \/ vm.boot.kind = "macos" \/ Cut(vm.boot)
                         \/ \E i \in DOMAIN vm.devices : Reread(vm.devices[i]) = Error
                         \/ vm.ignition.path = Comma \/ (vm.nested /\ ~NestedSupported)
<1> DEFINE A == Args(vm)
           boot == NewBootloaderConfiguration(A)
           D == [i \in DOMAIN vm.devices |-> Reread(vm.devices[i])]
           ignition == IF vm.ignition.path = "" THEN NoIgnition ELSE [path |-> vm.ignition.path, port |-> IgnitionPort]
           vcpus == IF vm.vcpus # 0 THEN vm.vcpus ELSE 1
<1>1. /\ A.bootloader = LoaderArgs(vm.boot) /\ A.legacy = LegacyArgs(vm.boot) /\ A.timesync = <<>>
      /\ A.ignition = vm.ignition.path /\ A.nested = vm.nested /\ A.gui = FALSE /\ A.cpus = vcpus
  BY DEF Args
<1>2. /\ vm = [f \in VmFields |-> vm[f]] /\ DOMAIN vm = VmFields /\ vm.kind = "vm" /\ vm.nested \in BOOLEAN
      /\ vm.ignition = [path |-> vm.ignition.path, port |-> vm.ignition.port]
      /\ vm.boot = NoBoot \/ IsLoader(vm.boot)
      /\ \A i \in DOMAIN vm.devices : IsDevice(vm.devices[i])
  BY DEF IsMachine, VmFields
<1>3. CanWriteLoader(vm.boot) /\ \A i \in DOMAIN vm.devices : CanWrite(vm.devices[i])
  BY DEF CanWriteVm
<1>4. Devices(A) = D
  BY StartedDevices
<1> HIDE DEF A, vcpus
<1>5. (vm.boot.kind # "macos" /\ ~Cut(vm.boot) => boot # Error) /\ (boot # Error /\ ~Ambiguous(vm.boot) => boot = vm.boot)
  BY <1>1, <1>2, <1>3, LoaderStarted
<1>6. TimeSync(A) = Empty.timesync /\ TimeSync(A) # Error
  <2>1. TimeSync(A) = Empty.timesync
    BY <1>1 DEF TimeSync
  <2>2. Empty.timesync # Error
    BY DEF Empty, Error
  <2> QED
    BY <2>1, <2>2
<1> HIDE DEF boot, D, ignition
<1> DEFINE bad == boot = Error \/ Error \in ToSet(D) \/ vm.ignition.path = Comma \/ (vm.nested /\ ~NestedSupported)
<1>7. b = IF bad THEN Error
          ELSE [kind |-> "vm", vcpus |-> vcpus, memory |-> ToBytes(A.memory), boot |-> boot, timesync |-> TimeSync(A),
                nested |-> vm.nested, devices |-> D, ignition |-> ignition]
  BY <1>1, <1>4, <1>6 DEF NewVMConfiguration, A, boot, ignition
<1>8. CASE bad
  <2>1. b = Error
    BY <1>7, <1>8
  <2>2. Error \in ToSet(D) => \E i \in DOMAIN vm.devices : Reread(vm.devices[i]) = Error
    BY DEF ToSet, D
  <2> QED
    BY <1>5, <1>8, <2>1, <2>2
<1>9. CASE ~bad
  <2> DEFINE memory == ToBytes(A.memory)
  <2> HIDE DEF bad, memory
  <2>1. b = [kind |-> "vm", vcpus |-> vcpus, memory |-> memory, boot |-> boot, timesync |-> TimeSync(A),
             nested |-> vm.nested, devices |-> D, ignition |-> ignition]
    BY <1>7, <1>9 DEF memory
  <2>2. b = [f \in VmFields |-> b[f]] /\ DOMAIN b = VmFields
    BY <2>1 DEF VmFields
  <2>3. b.kind = "vm" /\ b.vcpus = vcpus /\ b.boot = boot /\ b.devices = D /\ b.ignition = ignition
    BY <2>1
  <2>4. b.nested = vm.nested
    BY <2>1
  <2>5. b # Error
    BY <2>2 DEF VmFields, Error
  <2>6. ignition = [path |-> ignition.path, port |-> ignition.port] /\ ignition.path = vm.ignition.path
    BY DEF ignition, NoIgnition
  <2>7. ASSUME ~Ambiguous(vm.boot) PROVE CarriedVm(b) = CarriedVm(vm)
    <3> DEFINE c == CarriedVm(b)
               e == CarriedVm(vm)
    <3>1. /\ c = [f \in VmFields |-> c[f]]
          /\ c.timesync = Empty.timesync /\ c.memory = 0 /\ c.ignition = [path |-> b.ignition.path, port |-> 0]
          /\ c.vcpus = IF b.vcpus = 0 THEN 1 ELSE b.vcpus
          /\ c.devices = [i \in DOMAIN b.devices |-> Carried(b.devices[i])]
          /\ c.kind = b.kind /\ c.boot = b.boot /\ c.nested = b.nested
      <4>1. b.ignition = [path |-> b.ignition.path, port |-> b.ignition.port]
        BY <2>3, <2>6
      <4> QED
        BY <2>2, <4>1, CarriedVmFields
    <3>2. /\ e = [f \in VmFields |-> e[f]]
          /\ e.timesync = Empty.timesync /\ e.memory = 0 /\ e.ignition = [path |-> vm.ignition.path, port |-> 0]
          /\ e.vcpus = IF vm.vcpus = 0 THEN 1 ELSE vm.vcpus
          /\ e.devices = [i \in DOMAIN vm.devices |-> Carried(vm.devices[i])]
          /\ e.kind = vm.kind /\ e.boot = vm.boot /\ e.nested = vm.nested
      BY <1>2, CarriedVmFields
    <3> HIDE DEF c, e
    <3>3. c.devices = e.devices
      <4>1. DOMAIN D = DOMAIN vm.devices /\ \A i \in DOMAIN vm.devices : D[i] = Reread(vm.devices[i])
        BY DEF D
      <4>2. \A i \in DOMAIN vm.devices : Reread(vm.devices[i]) # Error
        BY <1>9, <4>1 DEF bad, ToSet
      <4>3. \A i \in DOMAIN vm.devices : Carried(D[i]) = Carried(vm.devices[i])
        BY <1>2, <1>3, <4>1, <4>2, RereadCarries
      <4> QED
        BY <2>3, <3>1, <3>2, <4>1, <4>3
    <3>4. c.vcpus = e.vcpus
      BY <2>3, <3>1, <3>2 DEF vcpus
    <3>5. c.boot = e.boot
      <4>1. boot # Error
        BY <1>9 DEF bad
      <4> QED
        BY <1>5, <2>3, <2>7, <3>1, <3>2, <4>1
    <3>6. c.ignition = e.ignition
      BY <2>3, <2>6, <3>1, <3>2
    <3>7. c.nested = e.nested
      BY <2>4, <3>1, <3>2
    <3>8. \A f \in VmFields : c[f] = e[f]
      BY <1>2, <2>3, <3>1, <3>2, <3>3, <3>4, <3>5, <3>6, <3>7 DEF VmFields
    <3>9. c = e
      BY <3>1, <3>2, <3>8
    <3> QED
      BY <3>9 DEF c, e
  <2> QED
    BY <2>5, <2>7
<1> QED
  BY <1>8, <1>9

\* For every machine: what vfkit accepted and can be written is accepted by the
\* vfkit that Cmd starts, unless it boots macOS or the path of its variable store is
\* cut; and whatever a program builds, that vfkit has the machine or none, unless
\* only options, or nothing, follow a cut of that path.
THEOREM DescDescriptionKept == DescSpec => []DescriptionKept
<1>1. DescInv => DescriptionKept
  <2> SUFFICES ASSUME DescInv, phase = "vmRead"
               PROVE  /\ line # NoLine /\ dev.boot.kind # "macos" /\ ~Cut(dev.boot) => back # Error
                      /\ back # Error /\ ~Ambiguous(dev.boot) => CarriedVm(back) = CarriedVm(dev)
    BY DEF DescriptionKept
  <2>1. VmKnown /\ CanWriteVm(dev) /\ back = NewVMConfiguration(Args(dev))
    BY DEF DescInv, VmInv
  <2>2. IsMachine(dev)
    BY <2>1, KnownMachine
  <2>3. /\ back # Error /\ ~Ambiguous(dev.boot) => CarriedVm(back) = CarriedVm(dev)
        /\ back = Error => \/ dev.boot.kind = "macos" \/ Cut(dev.boot)
                           \/ \E i \in DOMAIN dev.devices : Reread(dev.devices[i]) = Error
                           \/ dev.ignition.path = Comma \/ (dev.nested /\ ~NestedSupported)
    BY <2>1, <2>2, MachineStarted
  <2>4. ASSUME line # NoLine, dev.boot.kind # "macos", ~Cut(dev.boot) PROVE back # Error
    <3>1. IsCommandLine(line) /\ dev = NewVMConfiguration(line) /\ dev # Error
      BY <2>1, <2>4, TypedVmsAssumption DEF VmKnown
    <3>2. /\ \A i \in DOMAIN dev.devices : Kept(dev.devices[i])
          /\ dev.nested => NestedSupported
          /\ dev.ignition.path # Comma
      BY <3>1, ParsedMachine
    <3>3. \A i \in DOMAIN dev.devices : Reread(dev.devices[i]) # Error
      BY <2>1, <3>2 DEF Kept, CanWriteVm
    <3> QED
      BY <2>3, <2>4, <3>2, <3>3
  <2> QED
    BY <2>3, <2>4
<1> QED
  BY <1>1, DescAlways, PTL
=============================================================================

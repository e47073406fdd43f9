--------------------------- MODULE SystemXProofs ---------------------------
(***************************************************************************)
(* What AVFS and the system calls satisfy for every bus, every model       *)
(* number, every set of paths and every buffer a program may use.          *)
(***************************************************************************)
EXTENDS SystemX, FiniteSetTheorems, TLAPS

-----------------------------------------------------------------------------
(* The inductive invariant *)

Codes == {"Success", "Generic_Error", "NotFound", "FileNotFound"} \cup Store!Errors
Contents == Seq(Nat) \cup {Absent}
Questions == [op : {"none", "write", "read", "exists", "mount", "dismount"}, dir : Dirs, had : BOOLEAN]

\* The types of all variables but those of FileStore that nothing here reads.
Typed ==
    /\ storage \in Seq(Addresses) /\ model \in [text : Texts, pad : {"blanks"}]
    /\ m_initialized \in BOOLEAN /\ formatted \in BOOLEAN
    /\ pc \in {"gaossd", "format", "init", "ready"}
    /\ asked \in Questions
    /\ code \in Codes \cup {"none"}
    /\ files \in [Dirs -> Contents] /\ busy \in BOOLEAN /\ astray \in BOOLEAN
    /\ attached \in BOOLEAN /\ buffer \in Data /\ deleted \in BOOLEAN
    /\ rcx \in Codes \cup {Garbage, "os_arch", "os_type"}
    /\ sys \in [id : 0 .. 5, open : BOOLEAN]

\* gaossd knows one device or none, and every drive goes by the name of that one.
TheDevice == [address |-> 0, name |-> TrimModel(model)]
TheName == IF model.text = "" THEN DefaultName ELSE TrimModel(model)

DriveTable ==
    /\ devices = <<>> \/ devices = <<TheDevice>>
    /\ drives \in Seq(Drives)
    /\ Len(drives) = IF pc = "ready" /\ devices # <<>> THEN Len(storage) ELSE 0
    /\ \A i \in DOMAIN drives : drives[i].name = TheName

\* Nothing is called before AVFS is there, and nothing by programs before
\* attachAVFS.
BootOrder ==
    /\ formatted => m_initialized /\ pc \in {"init", "ready"}
    /\ attached => pc = "ready"
    /\ sys # NoCall => attached

\* AbtrFS works for the call that is under way, over a formatted device that a
\* drive led to.
ServesCall ==
    busy => /\ sys.open /\ formatted /\ drives # <<>>
            /\ asked.op \in {"write", "read"}
            /\ call.op = asked.op /\ call.path = asked.dir /\ call.off = 0
            /\ asked.op = "write" => call.data = CleanData(buffer)
            /\ ~asked.had => files[asked.dir] = Absent

Dispatched == sys.open => sys.id \in 1 .. 5 /\ asked.op = Handlers[sys.id]

\* What Success stands for, from the moment a call has its code until the program
\* goes on.
Done(id) ==
    /\ id = 1 /\ ~astray => HoldsNonzero(files[asked.dir], buffer, asked.had)
    /\ id = 4 => \E i \in DOMAIN drives : drives[i].format = "abtrfs"
    /\ id = 5 => drives[1].format = ""
    /\ drives # <<>>

Told == IF sys.id \in {1, 2} THEN code ELSE rcx
Answered ==
    /\ sys.open /\ ~busy => code # "none" /\ (code = "Success" => Done(sys.id))
    /\ ~sys.open /\ sys.id # 0 /\ Told = "Success" => Done(sys.id)

SysInv ==
    /\ Typed /\ DriveTable /\ BootOrder /\ MountedMeansFormatted
    /\ ServesCall /\ Dispatched /\ Answered

-----------------------------------------------------------------------------
(* Data *)

LEMMA MinExists ==
    ASSUME NEW T \in SUBSET Nat, T # {}
    PROVE  \E x \in T : \A y \in T : x <= y
<1>1. PICK x \in T : \A y \in T : ~(<<y, x>> \in OpToRel(<, Nat))
  BY NatLessThanWellFounded, WFMin
<1>2. ASSUME NEW y \in T PROVE x <= y
  <2>1. x \in Nat /\ y \in Nat
    OBVIOUS
  <2>2. y < x => <<y, x>> \in OpToRel(<, Nat)
    BY <2>1 DEF OpToRel
  <2>3. ~(y < x)
    BY <1>1, <2>2, Zenon
  <2> QED
    BY <2>1, <2>3
<1> QED
  BY <1>2, Zenon

\* The places up to n of bytes that write keeps, and how many there are.
KeptUpTo(bytes, n) == {j \in 1 .. n : bytes[j] # 0}

LEMMA KeptCount ==
    ASSUME NEW bytes, NEW n \in Nat
    PROVE  /\ IsFiniteSet(KeptUpTo(bytes, n)) /\ Cardinality(KeptUpTo(bytes, n)) \in Nat
           /\ n = 0 => Cardinality(KeptUpTo(bytes, n)) = 0
           /\ Cardinality(KeptUpTo(bytes, n + 1)) =
                Cardinality(KeptUpTo(bytes, n)) + IF bytes[n + 1] # 0 THEN 1 ELSE 0
<1>1. IsFiniteSet(1 .. n)
  BY FS_Interval
<1>2. IsFiniteSet(KeptUpTo(bytes, n))
  <2>1. KeptUpTo(bytes, n) \subseteq 1 .. n
    BY DEF KeptUpTo
  <2> QED
    BY <1>1, <2>1, FS_Subset
<1>3. Cardinality(KeptUpTo(bytes, n)) \in Nat
  BY <1>2, FS_CardinalityType
<1>4. n = 0 => Cardinality(KeptUpTo(bytes, n)) = 0
  <2>1. n = 0 => KeptUpTo(bytes, n) = {}
    BY DEF KeptUpTo
  <2> QED
    BY <2>1, FS_EmptySet
<1>5. CASE bytes[n + 1] # 0
  <2>1. KeptUpTo(bytes, n + 1) = KeptUpTo(bytes, n) \cup {n + 1} /\ n + 1 \notin KeptUpTo(bytes, n)
    BY <1>5 DEF KeptUpTo
  <2>2. Cardinality(KeptUpTo(bytes, n) \cup {n + 1}) = Cardinality(KeptUpTo(bytes, n)) + 1
    BY <1>2, <2>1, FS_AddElement
  <2> QED
    BY <1>2, <1>3, <1>4, <1>5, <2>1, <2>2
<1>6. CASE ~(bytes[n + 1] # 0)
  <2>1. KeptUpTo(bytes, n + 1) = KeptUpTo(bytes, n)
    BY <1>6 DEF KeptUpTo
  <2> QED
    BY <1>2, <1>3, <1>4, <1>6, <2>1
<1> QED
  BY <1>5, <1>6

\* A sequence holds the bytes that are not zero among the first n.
Cleaned(bytes, n, s) ==
    /\ s \in Seq(Nat)
    /\ Len(s) = Cardinality(KeptUpTo(bytes, n))
    /\ \A i \in KeptUpTo(bytes, n) :
          /\ Cardinality(KeptUpTo(bytes, i)) \in 1 .. Len(s)
          /\ s[Cardinality(KeptUpTo(bytes, i))] = bytes[i]

CleanStep(bytes, n, s) == IF bytes[n] # 0 THEN Append(s, bytes[n]) ELSE s

LEMMA CleanedStep ==
    ASSUME NEW bytes \in Seq(Nat), NEW n \in Nat, n + 1 <= Len(bytes), NEW s, Cleaned(bytes, n, s)
    PROVE  Cleaned(bytes, n + 1, CleanStep(bytes, n + 1, s))
<1> DEFINE t == CleanStep(bytes, n + 1, s)
           c(k) == Cardinality(KeptUpTo(bytes, k))
<1>1. bytes[n + 1] \in Nat
  OBVIOUS
<1>2. c(n) \in Nat /\ c(n + 1) = c(n) + IF bytes[n + 1] # 0 THEN 1 ELSE 0
  BY KeptCount
<1>3. s \in Seq(Nat) /\ Len(s) = c(n)
  BY DEF Cleaned
<1>4. ASSUME NEW i \in KeptUpTo(bytes, n) PROVE c(i) \in 1 .. Len(s) /\ s[c(i)] = bytes[i]
  BY DEF Cleaned
<1>5. ASSUME NEW i \in KeptUpTo(bytes, n + 1)
      PROVE  bytes[i] # 0 /\ (i \in KeptUpTo(bytes, n) \/ i = n + 1)
  BY DEF KeptUpTo
<1> HIDE DEF c
<1>6. CASE bytes[n + 1] # 0
  <2>1. t = Append(s, bytes[n + 1])
    BY <1>6 DEF CleanStep
  <2>2. /\ t \in Seq(Nat) /\ Len(t) = Len(s) + 1
        /\ t[Len(s) + 1] = bytes[n + 1] /\ \A k \in 1 .. Len(s) : t[k] = s[k]
    <3> DEFINE x == bytes[n + 1]
    <3> HIDE DEF x
    <3>1. x \in Nat /\ t = Append(s, x)
      BY <1>1, <2>1 DEF x
    <3> HIDE DEF t
    <3>2. /\ Append(s, x) \in Seq(Nat) /\ Len(Append(s, x)) = Len(s) + 1
          /\ Append(s, x)[Len(s) + 1] = x /\ \A k \in 1 .. Len(s) : Append(s, x)[k] = s[k]
      BY <1>3, <3>1
    <3> QED
      BY <3>1, <3>2 DEF x
  <2> HIDE DEF t
  <2>3. ASSUME NEW i \in KeptUpTo(bytes, n + 1) PROVE c(i) \in 1 .. Len(t) /\ t[c(i)] = bytes[i]
    BY <1>2, <1>3, <1>4, <1>5, <1>6, <2>2
  <2>4. Len(t) = c(n + 1)
    BY <1>2, <1>3, <1>6, <2>2
  <2> QED
    BY <2>2, <2>3, <2>4 DEF Cleaned, c, t
<1>7. CASE ~(bytes[n + 1] # 0)
  <2>1. t = s
    BY <1>7 DEF CleanStep
  <2>2. ASSUME NEW i \in KeptUpTo(bytes, n + 1) PROVE c(i) \in 1 .. Len(t) /\ t[c(i)] = bytes[i]
    BY <1>4, <1>5, <1>7, <2>1
  <2>3. Len(t) = c(n + 1)
    BY <1>2, <1>3, <1>7, <2>1
  <2> HIDE DEF t
  <2> QED
    BY <1>3, <2>1, <2>2, <2>3 DEF Cleaned, c, t
<1> QED
  BY <1>6, <1>7

LEMMA CleanedNone == ASSUME NEW bytes PROVE Cleaned(bytes, 0, <<>>)
<1>1. KeptUpTo(bytes, 0) = {}
  BY DEF KeptUpTo
<1>2. Cardinality(KeptUpTo(bytes, 0)) = 0
  BY KeptCount
<1> QED
  BY <1>1, <1>2 DEF Cleaned

\* The values of the loop in write, up to its n-th pass.
CleanRun(bytes, n, f) ==
    f \in [0 .. n -> Seq(Nat)] /\ \A k \in 0 .. n : f[k] = IF k = 0 THEN <<>> ELSE CleanStep(bytes, k, f[k - 1])

LEMMA CleanRunExists ==
    ASSUME NEW bytes \in Seq(Nat)
    PROVE  \E f : CleanRun(bytes, Len(bytes), f)
<1> DEFINE T == {n \in 0 .. Len(bytes) : ~\E f : CleanRun(bytes, n, f)}
<1>1. T = {}
  <2> SUFFICES ASSUME T # {} PROVE FALSE
    OBVIOUS
  <2>0. T \in SUBSET Nat
    OBVIOUS
  <2>1. PICK n \in T : \A y \in T : n <= y
    <3> HIDE DEF T
    <3> QED
      BY <2>0, MinExists
  <2>2. n \in Nat /\ n <= Len(bytes) /\ ~\E f : CleanRun(bytes, n, f)
    BY <2>1
  <2>3. CASE n = 0
    <3>1. CleanRun(bytes, 0, [k \in 0 .. 0 |-> <<>>])
      BY DEF CleanRun
    <3> QED
      BY <2>2, <2>3, <3>1
  <2>4. CASE n # 0
    <3>1. n - 1 \in 0 .. Len(bytes) /\ ~(n <= n - 1)
      BY <2>2, <2>4
    <3>2. PICK f : CleanRun(bytes, n - 1, f)
      BY <2>1, <3>1
    <3>3. /\ f[n - 1] \in Seq(Nat) /\ f \in [0 .. n - 1 -> Seq(Nat)]
          /\ \A k \in 0 .. n - 1 : f[k] = IF k = 0 THEN <<>> ELSE CleanStep(bytes, k, f[k - 1])
      BY <3>1, <3>2 DEF CleanRun
    <3> DEFINE last == CleanStep(bytes, n, f[n - 1])
               g == [k \in 0 .. n |-> IF k = n THEN last ELSE f[k]]
    <3>4. last \in Seq(Nat)
      <4>1. bytes[n] \in Nat
        BY <2>2, <2>4
      <4> QED
        BY <3>3, <4>1 DEF CleanStep
    <3> HIDE DEF last
    <3>5. g \in [0 .. n -> Seq(Nat)]
      BY <3>1, <3>3, <3>4
    <3>6. ASSUME NEW k \in 0 .. n PROVE g[k] = IF k = 0 THEN <<>> ELSE CleanStep(bytes, k, g[k - 1])
      <4>1. CASE k = n
        <5>1. g[k] = last /\ g[n - 1] = f[n - 1]
          BY <3>1, <4>1
        <5> HIDE DEF g
        <5> QED
          BY <2>4, <4>1, <5>1 DEF last
      <4>2. CASE k # n
        <5>1. k \in 0 .. n - 1 /\ g[k] = f[k]
          BY <3>1, <4>2
        <5>2. k # 0 => g[k - 1] = f[k - 1]
          BY <3>1, <4>2
        <5>3. f[k] = IF k = 0 THEN <<>> ELSE CleanStep(bytes, k, f[k - 1])
          BY <3>3, <5>1
        <5> HIDE DEF g
        <5> QED
          BY <5>1, <5>2, <5>3
      <4> QED
        BY <4>1, <4>2
    <3>7. CleanRun(bytes, n, g)
      <4> HIDE DEF g
      <4> QED
        BY <3>5, <3>6 DEF CleanRun
    <3> QED
      BY <2>2, <3>7
  <2> QED
    BY <2>3, <2>4
<1>2. Len(bytes) \in 0 .. Len(bytes)
  OBVIOUS
<1> QED
  BY <1>1, <1>2

\* What write passes on: the bytes that are not zero, in their order.
LEMMA CleanDataExact ==
    ASSUME NEW bytes \in Seq(Nat)
    PROVE  Cleaned(bytes, Len(bytes), CleanData(bytes))
<1> DEFINE P(g) == g = [n \in 0 .. Len(bytes) |->
                          IF n = 0 THEN <<>>
                          ELSE IF bytes[n] # 0 THEN Append(g[n - 1], bytes[n]) ELSE g[n - 1]]
           clean == CHOOSE g : P(g)
<1>1. \E g : P(g)
  <2>1. PICK f : CleanRun(bytes, Len(bytes), f)
    BY CleanRunExists
  <2>2. P(f)
    BY <2>1 DEF CleanRun, CleanStep
  <2> QED
    BY <2>2
<1>2. P(clean)
  BY <1>1
<1>3. CleanData(bytes) = clean[Len(bytes)]
  BY DEF CleanData
<1> HIDE DEF clean
<1>4. \A k \in 0 .. Len(bytes) : clean[k] = IF k = 0 THEN <<>> ELSE CleanStep(bytes, k, clean[k - 1])
  BY <1>2 DEF CleanStep
<1> HIDE DEF P
<1> DEFINE T == {n \in 0 .. Len(bytes) : ~Cleaned(bytes, n, clean[n])}
<1>5. T = {}
  <2> SUFFICES ASSUME T # {} PROVE FALSE
    OBVIOUS
  <2>0. T \in SUBSET Nat
    OBVIOUS
  <2>1. PICK n \in T : \A y \in T : n <= y
    <3> HIDE DEF T
    <3> QED
      BY <2>0, MinExists
  <2>2. n \in Nat /\ n <= Len(bytes) /\ ~Cleaned(bytes, n, clean[n])
    BY <2>1
  <2>3. n # 0
    BY <1>4, <2>2, CleanedNone
  <2>4. n - 1 \in 0 .. Len(bytes) /\ ~(n <= n - 1) /\ n - 1 \in Nat /\ (n - 1) + 1 = n
    BY <2>2, <2>3
  <2>5. Cleaned(bytes, n - 1, clean[n - 1])
    BY <2>1, <2>4
  <2>6. clean[n] = CleanStep(bytes, n, clean[n - 1])
    BY <1>4, <2>2, <2>3
  <2>7. Cleaned(bytes, (n - 1) + 1, CleanStep(bytes, (n - 1) + 1, clean[n - 1]))
    BY <2>2, <2>4, <2>5, CleanedStep
  <2> QED
    BY <2>2, <2>4, <2>6, <2>7
<1> QED
  BY <1>3, <1>5

-----------------------------------------------------------------------------
(* Devices and drives *)

Reg(n) == [base |-> storage[n], name |-> DeviceName(1), format |-> ""]
OneDevice == devices = <<>> \/ devices = <<TheDevice>>

LEMMA HandleFound ==
    ASSUME OneDevice, NEW base
    PROVE  MatchedHandle(base) = IF devices = <<>> THEN InvalidHandle ELSE 1
<1>1. CASE devices = <<>>
  BY <1>1 DEF MatchedHandle
<1>2. CASE devices = <<TheDevice>>
  <2>1. DOMAIN devices = {1} /\ devices # <<>>
    BY <1>2
  <2> QED
    BY <2>1 DEF MatchedHandle
<1> QED
  BY <1>1, <1>2 DEF OneDevice

LEMMA NameOfDevice ==
    ASSUME devices = <<TheDevice>>, model \in [text : Texts, pad : {"blanks"}]
    PROVE  DeviceName(1) = TheName /\ TheName \in {n \in Names : n.text # "" /\ n.pad = "none"}
<1>1. devices[1].name = TrimModel(model)
  BY DEF TheDevice
<1>2. TrimModel(model) = [text |-> model.text, pad |-> "none"] /\ model.text \in Texts
  BY DEF TrimModel
<1>3. TrimModel(model).text = model.text
  BY <1>2
<1>4. DefaultName \in {n \in Names : n.text # "" /\ n.pad = "none"}
  BY DEF DefaultName, Names
<1>5. TrimModel(model) \in Names
  BY <1>2 DEF Names
<1>6. TrimModel(model).pad = "none"
  BY <1>2
<1>7. DeviceName(1) = TheName
  BY <1>1, <1>3, Zenon DEF DeviceName, TheName
<1> HIDE DEF DefaultName
<1>8. TheName \in {n \in Names : n.text # "" /\ n.pad = "none"}
  BY <1>3, <1>4, <1>5, <1>6 DEF TheName
<1> QED
  BY <1>7, <1>8

RegistrationStep(n, list) ==
    IF MatchedHandle(storage[n]) = InvalidHandle \/ AlreadyRegistered(list, DeviceName(MatchedHandle(storage[n])))
    THEN list
    ELSE Append(list, [base |-> storage[n], name |-> DeviceName(MatchedHandle(storage[n])), format |-> ""])

\* AVFS::Init, whatever the length of the bus.
RegisteredUpTo(n) == IF devices = <<>> THEN <<>> ELSE [i \in 1 .. n |-> Reg(i)]

LEMMA RegisteredNext ==
    ASSUME OneDevice, NEW n \in Nat
    PROVE  RegisteredUpTo(n + 1) = RegistrationStep(n + 1, RegisteredUpTo(n))
<1>1. CASE devices = <<>>
  BY <1>1, HandleFound DEF RegisteredUpTo, RegistrationStep
<1>2. CASE devices # <<>>
  <2>1. MatchedHandle(storage[n + 1]) = 1 /\ 1 # InvalidHandle
    <3>1. InvalidHandle \notin Nat
      BY AvfsAssumption
    <3>2. MatchedHandle(storage[n + 1]) = IF devices = <<>> THEN InvalidHandle ELSE 1
      BY HandleFound
    <3> QED
      BY <1>2, <3>1, <3>2
  <2>2. RegistrationStep(n + 1, RegisteredUpTo(n)) = Append(RegisteredUpTo(n), Reg(n + 1))
    BY <2>1 DEF RegistrationStep, AlreadyRegistered, Reg
  <2> DEFINE S == {Reg(i) : i \in Nat}
             s == [i \in 1 .. n |-> Reg(i)]
             t == [i \in 1 .. n + 1 |-> Reg(i)]
  <2>3. s \in Seq(S) /\ Len(s) = n
    OBVIOUS
  <2>4. t \in Seq(S) /\ Len(t) = n + 1
    OBVIOUS
  <2>5. Reg(n + 1) \in S
    OBVIOUS
  <2>6. \A i \in 1 .. n : s[i] = Reg(i) /\ t[i] = Reg(i)
    OBVIOUS
  <2>7. t[n + 1] = Reg(n + 1)
    OBVIOUS
  <2>8. Append(s, Reg(n + 1)) = t
    <3> DEFINE x == Reg(n + 1)
    <3>0. x \in S /\ t[n + 1] = x /\ \A i \in 1 .. n : t[i] = s[i]
      BY <2>5, <2>6, <2>7
    <3> HIDE DEF s, t, x, S
    <3>1. Append(s, x) \in Seq(S) /\ Len(Append(s, x)) = n + 1
      BY <2>3, <3>0
    <3>2. \A i \in 1 .. n + 1 : Append(s, x)[i] = t[i]
      BY <2>3, <3>0
    <3>3. Append(s, x) = t
      BY <2>4, <3>1, <3>2
    <3> QED
      BY <3>3 DEF x
  <2> QED
    BY <1>2, <2>2, <2>8 DEF RegisteredUpTo
<1> QED
  BY <1>1, <1>2

LEMMA RegisteredAll ==
    ASSUME OneDevice, NEW N \in Nat
    PROVE  Registration[N] = RegisteredUpTo(N)
<1> DEFINE P(g) == g = [n \in Nat |->
                          IF n = 0 THEN <<>>
                          ELSE IF \/ MatchedHandle(storage[n]) = InvalidHandle
                                  \/ AlreadyRegistered(g[n - 1], DeviceName(MatchedHandle(storage[n])))
                               THEN g[n - 1]
                               ELSE Append(g[n - 1], [base |-> storage[n],
                                                      name |-> DeviceName(MatchedHandle(storage[n])),
                                                      format |-> ""])]
           r == Registration
<1>1. \E g : P(g)
  <2> DEFINE g == [n \in Nat |-> RegisteredUpTo(n)]
  <2>1. RegisteredUpTo(0) = <<>>
    BY DEF RegisteredUpTo
  <2>2. ASSUME NEW n \in Nat, n # 0 PROVE g[n] = RegistrationStep(n, g[n - 1])
    <3>1. n - 1 \in Nat /\ (n - 1) + 1 = n
      BY <2>2
    <3>2. RegisteredUpTo((n - 1) + 1) = RegistrationStep((n - 1) + 1, RegisteredUpTo(n - 1))
      BY <3>1, RegisteredNext
    <3>3. g[n] = RegisteredUpTo(n) /\ g[n - 1] = RegisteredUpTo(n - 1)
      BY <3>1
    <3> HIDE DEF g
    <3> QED
      BY <3>1, <3>2, <3>3
  <2>3. g = [n \in Nat |-> IF n = 0 THEN <<>> ELSE RegistrationStep(n, g[n - 1])]
    <3>1. g[0] = <<>>
      BY <2>1
    <3>2. g = [n \in Nat |-> g[n]]
      OBVIOUS
    <3> HIDE DEF g
    <3> QED
      BY <2>2, <3>1, <3>2
  <2>4. P(g)
    <3> HIDE DEF g
    <3> QED
      BY <2>3, Zenon DEF RegistrationStep
  <2> QED
    BY <2>4
<1>2. P(r)
  BY <1>1, Zenon DEF Registration
<1> HIDE DEF r
<1>3. \A n \in Nat : r[n] = IF n = 0 THEN <<>> ELSE RegistrationStep(n, r[n - 1])
  BY <1>2 DEF RegistrationStep
<1> HIDE DEF P
<1> DEFINE T == {n \in Nat : r[n] # RegisteredUpTo(n)}
<1>4. T = {}
  <2> SUFFICES ASSUME T # {} PROVE FALSE
    OBVIOUS
  <2>0. T \in SUBSET Nat
    OBVIOUS
  <2>1. PICK n \in T : \A y \in T : n <= y
    <3> HIDE DEF T
    <3> QED
      BY <2>0, MinExists
  <2>2. n \in Nat /\ r[n] # RegisteredUpTo(n)
    BY <2>1
  <2>3. n # 0
    BY <1>3, <2>2 DEF RegisteredUpTo
  <2>4. n - 1 \in Nat /\ ~(n <= n - 1) /\ (n - 1) + 1 = n
    BY <2>2, <2>3
  <2>5. r[n - 1] = RegisteredUpTo(n - 1)
    BY <2>1, <2>4
  <2>6. RegisteredUpTo((n - 1) + 1) = RegistrationStep((n - 1) + 1, RegisteredUpTo(n - 1))
    BY <2>4, RegisteredNext
  <2> QED
    BY <1>3, <2>2, <2>3, <2>4, <2>5, <2>6
<1> QED
  BY <1>4 DEF r

LEMMA Registered ==
    ASSUME OneDevice, Typed
    PROVE  /\ Registration[Len(storage)] \in Seq(Drives)
           /\ Len(Registration[Len(storage)]) = IF devices # <<>> THEN Len(storage) ELSE 0
           /\ \A i \in DOMAIN Registration[Len(storage)] :
                 /\ Registration[Len(storage)][i].name = TheName
                 /\ Registration[Len(storage)][i].format = ""
<1> DEFINE N == Len(storage)
<1>0. N \in Nat /\ storage \in Seq(Addresses) /\ \A i \in 1 .. N : storage[i] \in Addresses
  BY DEF Typed
<1>1. Registration[N] = RegisteredUpTo(N)
  BY <1>0, RegisteredAll
<1>2. CASE devices = <<>>
  BY <1>1, <1>2 DEF RegisteredUpTo
<1>3. CASE devices # <<>>
  <2>1. DeviceName(1) = TheName /\ TheName \in {n \in Names : n.text # "" /\ n.pad = "none"}
    BY <1>3, NameOfDevice DEF OneDevice, Typed
  <2>2. ASSUME NEW i \in 1 .. N
        PROVE  Reg(i) \in Drives /\ Reg(i).name = TheName /\ Reg(i).format = ""
    <3>1. storage[i] \in Addresses
      BY <1>0
    <3> HIDE DEF N
    <3> QED
      BY <2>1, <3>1 DEF Reg, Drives
  <2>3. RegisteredUpTo(N) = [i \in 1 .. N |-> Reg(i)]
    BY <1>3 DEF RegisteredUpTo
  <2> DEFINE s == [i \in 1 .. N |-> Reg(i)]
  <2> HIDE DEF N
  <2>4. s \in Seq(Drives) /\ Len(s) = N /\ DOMAIN s = 1 .. N /\ \A i \in 1 .. N : s[i] = Reg(i)
    <3>1. N \in Nat
      BY <1>0 DEF N
    <3>2. \A i \in 1 .. N : Reg(i) \in Drives
      BY <2>2
    <3>3. s \in [1 .. N -> Drives] /\ \A i \in 1 .. N : s[i] = Reg(i)
      BY <3>2
    <3> HIDE DEF s
    <3>4. s \in Seq(Drives) /\ Len(s) = N /\ DOMAIN s = 1 .. N
      BY <3>1, <3>3
    <3> QED
      BY <3>3, <3>4
  <2>5. Registration[N] = s
    BY <1>1, <2>3
  <2> HIDE DEF s
  <2>6. \A i \in DOMAIN s : s[i].name = TheName /\ s[i].format = ""
    BY <2>2, <2>4
  <2> QED
    BY <1>3, <2>4, <2>5, <2>6 DEF N
<1> QED
  BY <1>2, <1>3

\* All drives have one name, so that paths reach the first or none.
LEMMA Retrieved ==
    ASSUME DriveTable, NEW name
    PROVE  retrieveDrive(name) = IF drives # <<>> /\ name = TheName THEN 1 ELSE 0
<1>1. DOMAIN drives = 1 .. Len(drives) /\ Len(drives) \in Nat /\ (drives # <<>> <=> 1 \in DOMAIN drives)
  BY DEF DriveTable
<1>2. \A i \in DOMAIN drives : drives[i].name = TheName
  BY DEF DriveTable
<1>3. CASE drives # <<>> /\ name = TheName
  <2>1. \A i \in DOMAIN drives : drives[i].name = name
    BY <1>2, <1>3
  <2>2. (CHOOSE i \in DOMAIN drives :
            drives[i].name = name /\ \A j \in DOMAIN drives : drives[j].name = name => i <= j) = 1
    BY <1>1, <1>3, <2>1
  <2> QED
    BY <1>1, <1>3, <2>1, <2>2 DEF retrieveDrive
<1>4. CASE ~(drives # <<>> /\ name = TheName)
  BY <1>1, <1>2, <1>4 DEF retrieveDrive
<1> QED
  BY <1>3, <1>4

\* A path that can be followed names the device, and AVFS has drives.
Reaches(path) == HasDrive(path) /\ drives # <<>> /\ findDrive(path) = TheName

LEMMA LookedUp ==
    ASSUME DriveTable, NEW path
    PROVE  /\ Lookup(path) \in Codes /\ (Lookup(path) = "Success" <=> Reaches(path))
           /\ Reaches(path) => retrieveDrive(findDrive(path)) = 1 /\ 1 \in DOMAIN drives
<1>1. retrieveDrive(findDrive(path)) = IF drives # <<>> /\ findDrive(path) = TheName THEN 1 ELSE 0
  BY Retrieved
<1>2. drives # <<>> => 1 \in DOMAIN drives
  BY DEF DriveTable
<1> QED
  BY <1>1, <1>2 DEF Lookup, Reaches, Codes

LEMMA Resolved ==
    ASSUME DriveTable, pc = "ready", NEW path
    PROVE  Resolve(path) \in Codes /\ (Resolve(path) = "Success" <=> Reaches(path))
<1>1. Lookup(path) \in Codes /\ (Lookup(path) = "Success" <=> Reaches(path))
  BY LookedUp
<1>2. OneDevice
  BY DEF DriveTable, OneDevice
<1>3. MatchedHandle(DriveOf(path).base) = IF devices = <<>> THEN InvalidHandle ELSE 1
  BY <1>2, HandleFound
<1>4. devices = <<>> => drives = <<>>
  BY DEF DriveTable
<1>5. InvalidHandle # 1
  <2>1. InvalidHandle \notin Nat
    BY AvfsAssumption
  <2> QED
    BY <2>1
<1>6. "DeviceNotMounted" \in Codes
  BY DEF Codes, Store!Errors
<1> QED
  BY <1>1, <1>3, <1>4, <1>5, <1>6 DEF Resolve, Reaches

LEMMA ModelTrimmed ==
    ASSUME NEW m \in [text : Texts, pad : {"blanks"}]
    PROVE  TrimModel(m) = [text |-> m.text, pad |-> "none"]
BY DEF TrimModel

LEMMA SequenceFacts ==
    ASSUME NEW S, NEW s \in Seq(S)
    PROVE  /\ DOMAIN s = 1 .. Len(s) /\ Len(s) \in Nat
           /\ (s # <<>> <=> Len(s) # 0) /\ (s # <<>> <=> 1 \in DOMAIN s)
           /\ \A i \in DOMAIN s : s[i] \in S
<1>1. DOMAIN s = 1 .. Len(s) /\ Len(s) \in Nat
  OBVIOUS
<1>2. s # <<>> <=> Len(s) # 0
  OBVIOUS
<1>3. Len(s) # 0 <=> 1 \in DOMAIN s
  BY <1>1
<1>4. \A i \in DOMAIN s : s[i] \in S
  OBVIOUS
<1> QED
  BY <1>1, <1>2, <1>3, <1>4

LEMMA NamesFound == Typed /\ DriveTable => NameFindsDrive
<1> SUFFICES ASSUME Typed, DriveTable, pc = "ready", devices # <<>>, storage # <<>>,
                    NEW path \in Paths, HasDrive(path), path.drive.pad # "tabs",
                    path.drive.text = IF model.text = "" THEN DefaultName.text ELSE model.text
             PROVE  Resolve(path) = "Success"
  BY Zenon DEF NameFindsDrive
<1>1. path.drive \in Names
  BY AvfsAssumption
<1>2. findDrive(path) = [text |-> path.drive.text, pad |-> "none"]
  BY <1>1 DEF findDrive, TrimDrive, Names
<1>3. TrimModel(model) = [text |-> model.text, pad |-> "none"]
  BY ModelTrimmed, Zenon DEF Typed
<1>4. DefaultName = [text |-> DefaultName.text, pad |-> "none"]
  BY DEF DefaultName
<1>5. findDrive(path) = TheName
  <2>1. CASE model.text = ""
    BY <1>2, <1>4, <2>1, Zenon DEF TheName
  <2>2. CASE model.text # ""
    BY <1>2, <1>3, <2>2, Zenon DEF TheName
  <2> QED
    BY <2>1, <2>2
<1>6. drives # <<>>
  <2>1. Len(drives) = Len(storage)
    BY DEF DriveTable
  <2>2. Len(storage) # 0
    <3>1. storage \in Seq(Addresses)
      BY DEF Typed
    <3> QED
      BY <3>1, SequenceFacts, Zenon
  <2> QED
    BY <2>1, <2>2
<1> QED
  BY <1>5, <1>6, Resolved DEF Reaches

LEMMA SequenceUpdate ==
    ASSUME NEW S, NEW s \in Seq(S), NEW i \in DOMAIN s, NEW x \in S
    PROVE  /\ [s EXCEPT ![i] = x] \in Seq(S) /\ Len([s EXCEPT ![i] = x]) = Len(s)
           /\ DOMAIN [s EXCEPT ![i] = x] = DOMAIN s
<1>1. DOMAIN s = 1 .. Len(s) /\ Len(s) \in Nat /\ s \in [1 .. Len(s) -> S]
  OBVIOUS
<1> DEFINE t == [s EXCEPT ![i] = x]
<1>2. t \in [1 .. Len(s) -> S]
  BY <1>1
<1> HIDE DEF t
<1>3. t \in Seq(S) /\ Len(t) = Len(s) /\ DOMAIN t = 1 .. Len(s)
  BY <1>1, <1>2
<1> QED
  BY <1>1, <1>3 DEF t

\* Mount and dismount change the format of the first drive, and that alone.
FormatChanged(format) ==
    /\ drives' \in Seq(Drives) /\ Len(drives') = Len(drives) /\ DOMAIN drives' = DOMAIN drives
    /\ \A i \in DOMAIN drives : drives'[i].name = drives[i].name
    /\ 1 \in DOMAIN drives /\ drives'[1].format = format
    /\ \A i \in DOMAIN drives : i # 1 => drives'[i] = drives[i]
    /\ drives' # <<>>

LEMMA FormatSet ==
    ASSUME DriveTable, NEW path, Reaches(path), NEW format \in {"", "abtrfs"}, SetFormat(path, format)
    PROVE  FormatChanged(format)
<1>1. retrieveDrive(findDrive(path)) = 1 /\ 1 \in DOMAIN drives
  BY LookedUp
<1>2. drives' = [drives EXCEPT ![1].format = format]
  BY <1>1 DEF SetFormat
<1>3. drives \in Seq(Drives) /\ DOMAIN drives = 1 .. Len(drives) /\ Len(drives) \in Nat /\ drives[1] \in Drives
  <2>1. drives \in Seq(Drives)
    BY DEF DriveTable
  <2> QED
    BY <1>1, <2>1, SequenceFacts, Zenon
<1> DEFINE d == [drives[1] EXCEPT !.format = format]
<1>4. d \in Drives /\ d.name = drives[1].name /\ d.format = format
  BY <1>3 DEF Drives
<1>5. drives' = [drives EXCEPT ![1] = d]
  BY <1>2
<1> HIDE DEF d
<1>6. drives' \in Seq(Drives) /\ Len(drives') = Len(drives) /\ DOMAIN drives' = DOMAIN drives
  <2>1. /\ [drives EXCEPT ![1] = d] \in Seq(Drives) /\ Len([drives EXCEPT ![1] = d]) = Len(drives)
        /\ DOMAIN [drives EXCEPT ![1] = d] = DOMAIN drives
    BY <1>1, <1>3, <1>4, SequenceUpdate
  <2> QED
    BY <1>5, <2>1
<1>7. drives'[1] = d /\ \A i \in DOMAIN drives : i # 1 => drives'[i] = drives[i]
  BY <1>1, <1>3, <1>5
<1>8. drives' # <<>>
  BY <1>1, <1>6, SequenceFacts, Zenon
<1>9. \A i \in DOMAIN drives : drives'[i].name = drives[i].name
  BY <1>4, <1>7
<1> QED
  BY <1>1, <1>4, <1>6, <1>7, <1>8, <1>9 DEF FormatChanged

-----------------------------------------------------------------------------
(* Files *)

LEMMA BufferTyped == Typed => buffer \in Seq(Nat) /\ CleanData(buffer) \in Seq(Nat)
<1> SUFFICES ASSUME Typed PROVE buffer \in Seq(Nat) /\ CleanData(buffer) \in Seq(Nat)
  OBVIOUS
<1>1. buffer \in Seq(Nat)
  BY SystemXAssumption DEF Typed
<1> QED
  BY <1>1, CleanDataExact DEF Cleaned

LEMMA FilesTyped ==
    ASSUME Typed, ServesCall, busy, files' \in Store!Patches \cup Store!Enlargements
    PROVE  files' \in [Dirs -> Contents]
<1>1. files \in [Dirs -> Contents] /\ call.path \in Dirs
  BY DEF Typed, ServesCall, Questions
<1>2. CASE call.op # "write"
  BY <1>1, <1>2 DEF Store!Patches, Store!Enlargements
<1>3. CASE call.op = "write"
  <2> DEFINE data == CleanData(buffer)
             file == files[call.path]
  <2>1. data \in Seq(Nat) /\ call.data = data /\ call.off = 0
    BY <1>3, BufferTyped DEF ServesCall
  <2> HIDE DEF data
  <2>2. Store!target = Len(data) /\ Len(data) \in Nat
    BY <2>1 DEF Store!target
  <2>3. ASSUME NEW i \in Nat, Store!InRange(i) PROVE Store!Written(i) \in Nat
    BY <2>1, <2>2, <2>3 DEF Store!InRange, Store!Written
  <2>4. file \in Contents
    BY <1>1
  <2>5. CASE files' \in Store!Patches
    <3>1. CASE file = Absent
      BY <1>1, <2>5, <3>1 DEF Store!Patches
    <3>2. CASE file # Absent
      <4>1. PICK done \in SUBSET {i \in 1 .. Len(file) : Store!InRange(i)} :
                files' = [files EXCEPT ![call.path] = Store!Patched(file, done)]
        BY <1>3, <2>5, <3>2 DEF Store!Patches
      <4>2. file \in Seq(Nat) /\ Len(file) \in Nat
        BY <2>4, <3>2 DEF Contents
      <4>3. \A i \in 1 .. Len(file) : (IF i \in done THEN Store!Written(i) ELSE file[i]) \in Nat
        <5> HIDE DEF file
        <5> QED
          BY <2>3, <4>1, <4>2
      <4>4. Store!Patched(file, done) \in [1 .. Len(file) -> Nat]
        BY <4>3 DEF Store!Patched
      <4>5. Store!Patched(file, done) \in Contents
        BY <4>2, <4>4 DEF Contents
      <4> QED
        BY <1>1, <4>1, <4>5
    <3> QED
      BY <3>1, <3>2
  <2>6. CASE files' \in Store!Enlargements
    <3>1. files' = [files EXCEPT ![call.path] = Store!Enlarged(file)]
      BY <2>6 DEF Store!Enlargements
    <3>2. \A i \in 1 .. Store!target :
             (IF Store!InRange(i) THEN Store!Written(i)
              ELSE IF file # Absent /\ i <= Len(file) THEN file[i] ELSE 0) \in Nat
      <4>1. file # Absent => file \in Seq(Nat)
        BY <2>4 DEF Contents
      <4> HIDE DEF file
      <4> QED
        BY <2>2, <2>3, <4>1
    <3>3. Store!Enlarged(file) \in [1 .. Store!target -> Nat]
      BY <3>2 DEF Store!Enlarged
    <3>4. Store!Enlarged(file) \in Contents
      BY <2>2, <3>3 DEF Contents
    <3> QED
      BY <1>1, <3>1, <3>4
  <2> QED
    BY <2>5, <2>6
<1> QED
  BY <1>2, <1>3

\* A write that ends inside the last block changes bytes of the file and no more.
LEMMA CutPatches ==
    ASSUME Typed, ServesCall, CutShort
    PROVE  /\ files' \in Store!Patches /\ files'[call.path] # Absent
           /\ Len(files'[call.path]) = Len(files[call.path])
           /\ \A i \in 1 .. Len(files[call.path]) : files'[call.path][i] = Store!Written(i)
<1> DEFINE file == files[call.path]
           P == Store!Patched(file, DOMAIN file)
<1>1. /\ call.op = "write" /\ file # Absent /\ Store!target > Len(file)
      /\ files' = [files EXCEPT ![call.path] = P]
  BY DEF CutShort, Longer
<1>2. files \in [Dirs -> Contents] /\ call.path \in Dirs /\ call.off = 0
  BY DEF Typed, ServesCall, CutShort, Questions
<1>3. file \in Seq(Nat) /\ DOMAIN file = 1 .. Len(file) /\ Len(file) \in Nat
  BY <1>1, <1>2 DEF Contents
<1>4. call.data \in Seq(Nat) /\ Store!target = Len(call.data) /\ Len(call.data) \in Nat
  <2>1. call.data = CleanData(buffer)
    BY <1>1 DEF ServesCall, CutShort
  <2>2. call.data \in Seq(Nat)
    BY <2>1, BufferTyped
  <2> QED
    BY <1>2, <2>2 DEF Store!target
<1> DEFINE n == Len(file)
<1>5. n \in Nat /\ DOMAIN file = 1 .. n /\ Store!target > n
  BY <1>1, <1>3
<1> HIDE DEF n
<1>6. DOMAIN file \in SUBSET {i \in 1 .. n : Store!InRange(i)}
  BY <1>2, <1>4, <1>5 DEF Store!InRange
<1>7. files' \in Store!Patches
  BY <1>1, <1>6 DEF Store!Patches, n
<1>8. P = [i \in 1 .. n |-> Store!Written(i)]
  BY <1>5 DEF Store!Patched, n
<1>9. ASSUME NEW i \in 1 .. n PROVE Store!Written(i) \in Nat
  BY <1>2, <1>4, <1>5 DEF Store!Written
<1>10. P \in Seq(Nat) /\ Len(P) = n /\ \A i \in 1 .. n : P[i] = Store!Written(i)
  <2>1. P \in [1 .. n -> Nat]
    BY <1>8, <1>9
  <2> HIDE DEF P
  <2> QED
    BY <1>5, <1>8, <2>1
<1>11. files'[call.path] = P
  <2> HIDE DEF P
  <2> QED
    BY <1>1, <1>2
<1> QED
  BY <1>7, <1>10, <1>11, SystemXAssumption DEF n

\* A file that has the bytes of the write, as far as it is long, has what the caller
\* of write asked for.
LEMMA StoredHolds ==
    ASSUME NEW file \in Contents, NEW bytes \in Seq(Nat), NEW had,
           call.off = 0, call.data = CleanData(bytes),
           file # Absent, ~had => Len(file) = Store!target,
           \A i \in 1 .. Len(file) : Store!InRange(i) => file[i] = Store!Written(i)
    PROVE  HoldsNonzero(file, bytes, had)
<1> DEFINE data == CleanData(bytes)
           kept == {i \in DOMAIN bytes : bytes[i] # 0}
           N == Len(bytes)
<1>1. Cleaned(bytes, N, data)
  BY CleanDataExact
<1>2. kept = KeptUpTo(bytes, N)
  BY DEF KeptUpTo
<1>3. ASSUME NEW i \in kept PROVE {j \in kept : j <= i} = KeptUpTo(bytes, i)
  BY DEF KeptUpTo
<1> HIDE DEF data, N
<1>4. /\ data \in Seq(Nat) /\ Len(data) = Cardinality(kept)
      /\ \A i \in kept : /\ Cardinality(KeptUpTo(bytes, i)) \in 1 .. Len(data)
                         /\ data[Cardinality(KeptUpTo(bytes, i))] = bytes[i]
  BY <1>1, <1>2 DEF Cleaned
<1>5. call.data = data
  BY DEF data
<1>6. Store!target = Len(data) /\ file \in Seq(Nat)
  BY <1>4, <1>5 DEF Contents, Store!target
<1>7. ASSUME NEW k \in 1 .. Len(data), k <= Len(file) PROVE file[k] = data[k]
  <2>1. k \in 1 .. Len(file)
    BY <1>4, <1>6, <1>7
  <2>2. Store!InRange(k) /\ Store!Written(k) = data[k]
    BY <1>4, <1>5, <1>6 DEF Store!InRange, Store!Written
  <2> QED
    BY <2>1, <2>2
<1>8. ASSUME NEW i \in kept, Cardinality({j \in kept : j <= i}) <= Len(file)
      PROVE  file[Cardinality({j \in kept : j <= i})] = bytes[i]
  BY <1>3, <1>4, <1>7, <1>8
<1>9. ~had => Len(file) = Cardinality(kept)
  BY <1>4, <1>6
<1> QED
  BY <1>8, <1>9, Zenon DEF HoldsNonzero

-----------------------------------------------------------------------------
(* Start-up *)

LEMMA InitInv == SysInit => SysInv
<1> SUFFICES ASSUME SysInit PROVE SysInv
  OBVIOUS
<1> USE DEF SysInit, Init, Store!Init
<1>1. (CHOOSE d \in Dirs : TRUE) \in Dirs
  BY AvfsAssumption
<1>2. storage \in Seq(Addresses)
  BY AvfsAssumption
<1>3. asked \in Questions
  BY <1>1 DEF Questions
<1>4. files \in [Dirs -> Contents]
  BY DEF Contents
<1>5. Typed
  <2>1. sys \in [id : 0 .. 5, open : BOOLEAN]
    BY DEF NoCall
  <2>2. model \in [text : Texts, pad : {"blanks"}] /\ m_initialized = FALSE /\ formatted = FALSE
    OBVIOUS
  <2>3. pc = "gaossd" /\ code = "none" /\ busy = FALSE
    OBVIOUS
  <2>4. attached = FALSE /\ buffer \in Data /\ deleted = FALSE /\ rcx = Garbage
    OBVIOUS
  <2> QED
    BY <1>2, <1>3, <1>4, <2>1, <2>2, <2>3, <2>4, Zenon DEF Typed
<1>6. DriveTable
  BY DEF DriveTable
<1>7. MountedMeansFormatted
  BY DEF MountedMeansFormatted
<1>8. BootOrder /\ ServesCall /\ Dispatched /\ Answered
  BY DEF BootOrder, ServesCall, Dispatched, Answered, NoCall
<1> QED
  BY <1>5, <1>6, <1>7, <1>8 DEF SysInv

\* Before AVFS is ready nobody calls, no drive is there and no file.
LEMMA BeforeReady ==
    ASSUME SysInv, pc # "ready"
    PROVE  /\ ~attached /\ sys = NoCall /\ ~sys.open /\ sys.id = 0 /\ ~busy
           /\ drives = <<>> /\ \A d \in Dirs : files[d] = Absent
<1>1. ~attached /\ sys = NoCall
  BY DEF SysInv, BootOrder, Typed
<1>2. ~sys.open /\ sys.id = 0
  BY <1>1 DEF NoCall
<1>3. ~busy
  BY <1>2 DEF SysInv, ServesCall, Typed
<1>4. drives = <<>>
  <2>1. drives \in Seq(Drives) /\ Len(drives) = 0
    BY DEF SysInv, DriveTable
  <2> QED
    BY <2>1, SequenceFacts, Zenon
<1> QED
  BY <1>1, <1>2, <1>3, <1>4 DEF SysInv, MountedMeansFormatted

LEMMA BootInv == ASSUME SysInv, Boot PROVE SysInv'
<1>1. pc # "ready"
  BY DEF Boot, ConstructGaossd, Format, AvfsInit
<1>2. /\ ~attached /\ sys = NoCall /\ ~sys.open /\ sys.id = 0 /\ ~busy
      /\ drives = <<>> /\ \A d \in Dirs : files[d] = Absent
  BY <1>1, BeforeReady
<1>3. UNCHANGED <<storage, model, asked, code, files, busy, astray, attached, buffer, deleted, rcx, sys>>
  BY DEF Boot, ConstructGaossd, Format, AvfsInit, storeVars, sysVars, bootVars
<1>4. /\ m_initialized' \in BOOLEAN /\ formatted' \in BOOLEAN /\ (formatted' => m_initialized')
      /\ pc' \in {"format", "init", "ready"} /\ (formatted' => pc' \in {"init", "ready"})
  <2>1. CASE ConstructGaossd
    <3>1. PICK up \in BOOLEAN : m_initialized' = up
      BY <2>1 DEF ConstructGaossd
    <3>2. ~formatted
      BY <2>1 DEF ConstructGaossd, SysInv, BootOrder
    <3> QED
      BY <2>1, <3>1, <3>2 DEF ConstructGaossd, SysInv, Typed, BootOrder
  <2>2. CASE Format
    <3>1. PICK up \in BOOLEAN, written \in BOOLEAN : m_initialized' = up /\ formatted' = (up /\ written)
      BY <2>2 DEF Format
    <3> QED
      BY <2>2, <3>1, Zenon DEF Format
  <2>3. CASE AvfsInit
    BY <2>3 DEF AvfsInit, bootVars, SysInv, Typed, BootOrder
  <2> QED
    BY <2>1, <2>2, <2>3 DEF Boot
<1>5. Typed'
  BY <1>3, <1>4 DEF SysInv, Typed
<1>6. BootOrder' /\ ServesCall' /\ Dispatched' /\ Answered'
  BY <1>2, <1>3, <1>4 DEF BootOrder, ServesCall, Dispatched, Answered
<1>7. DriveTable' /\ (\A i \in DOMAIN drives' : drives'[i].format = "")
  <2>1. CASE ConstructGaossd \/ Format
    <3>1. drives' = <<>> /\ pc' # "ready"
      BY <1>2, <2>1 DEF ConstructGaossd, Format
    <3>2. OneDevice'
      <4>1. CASE ConstructGaossd
        <5>1. PICK up \in BOOLEAN :
                 devices' = IF up THEN <<[address |-> 0, name |-> TrimModel(model)]>> ELSE <<>>
          BY <4>1 DEF ConstructGaossd
        <5>2. TrimModel(model)' = TrimModel(model)
          BY <1>3 DEF TrimModel
        <5> QED
          BY <5>1, <5>2, Zenon DEF OneDevice, TheDevice
      <4>2. CASE Format
        BY <1>3, <4>2 DEF Format, OneDevice, TheDevice, SysInv, DriveTable
      <4> QED
        BY <2>1, <4>1, <4>2
    <3> QED
      BY <3>1, <3>2 DEF DriveTable, OneDevice
  <2>2. CASE AvfsInit
    <3>1. devices' = devices /\ pc' = "ready" /\ drives' = Registration[Len(storage)]
      BY <2>2 DEF AvfsInit, bootVars
    <3>2. OneDevice /\ Typed
      BY DEF SysInv, DriveTable, OneDevice
    <3>3. /\ drives' \in Seq(Drives) /\ Len(drives') = IF devices # <<>> THEN Len(storage) ELSE 0
          /\ \A i \in DOMAIN drives' : drives'[i].name = TheName /\ drives'[i].format = ""
      BY <3>1, <3>2, Registered
    <3>4. OneDevice' /\ TheName' = TheName
      BY <1>3, <3>1, <3>2 DEF OneDevice, TheDevice, TheName
    <3> QED
      BY <1>3, <3>1, <3>3, <3>4 DEF DriveTable, OneDevice
  <2> QED
    BY <2>1, <2>2 DEF Boot
<1>8. MountedMeansFormatted'
  BY <1>2, <1>3, <1>7 DEF MountedMeansFormatted
<1> QED
  BY <1>5, <1>6, <1>7, <1>8 DEF SysInv

-----------------------------------------------------------------------------
(* Calls *)

LEMMA HandlerNames ==
    /\ Handlers[1] = "write" /\ Handlers[2] = "read" /\ Handlers[3] = "exists"
    /\ Handlers[4] = "mount" /\ Handlers[5] = "dismount"
BY DEF Handlers

LEMMA HandlerNumbers ==
    ASSUME NEW id \in Int
    PROVE  /\ Handler(id) = "write" => id = 1
           /\ Handler(id) = "read" => id = 2
           /\ Handler(id) = "exists" => id = 3
           /\ Handler(id) = "mount" => id = 4
           /\ Handler(id) = "dismount" => id = 5
<1>1. DOMAIN Handlers = 1 .. 16
  BY DEF Handlers
<1>2. CASE id \in 1 .. 16
  <2>1. Handler(id) = Handlers[id]
    BY <1>1, <1>2 DEF Handler
  <2>2. id \in 6 .. 16 => Handlers[id] \notin {"write", "read", "exists", "mount", "dismount"}
    BY DEF Handlers
  <2>3. id \in {1, 2, 3, 4, 5} \cup (6 .. 16)
    BY <1>2
  <2> QED
    BY <2>1, <2>2, <2>3, HandlerNames
<1>3. CASE id \notin 1 .. 16
  BY <1>1, <1>3 DEF Handler
<1> QED
  BY <1>2, <1>3

LEMMA TableKept ==
    ASSUME DriveTable, UNCHANGED <<storage, model, devices, pc>>,
           UNCHANGED drives \/ \E format : FormatChanged(format)
    PROVE  DriveTable'
<1>1. TheName' = TheName /\ TheDevice' = TheDevice
  BY DEF TheName, TheDevice, TrimModel
<1>2. CASE UNCHANGED drives
  BY <1>1, <1>2 DEF DriveTable
<1>3. CASE \E format : FormatChanged(format)
  <2>1. PICK format : FormatChanged(format)
    BY <1>3
  <2>2. /\ drives' \in Seq(Drives) /\ Len(drives') = Len(drives) /\ DOMAIN drives' = DOMAIN drives
        /\ \A i \in DOMAIN drives : drives'[i].name = drives[i].name
    BY <2>1 DEF FormatChanged
  <2> QED
    BY <1>1, <2>2 DEF DriveTable
<1> QED
  BY <1>2, <1>3

LEMMA PathTyped ==
    ASSUME NEW path \in Paths
    PROVE  path.dir \in Dirs
BY AvfsAssumption

LEMMA AskedIs ==
    ASSUME NEW op, NEW path \in Paths
    PROVE  /\ Asked(op, path).op = op /\ Asked(op, path).dir = path.dir
           /\ Asked(op, path).had <=> files[path.dir] # Absent
           /\ op \in {"none", "write", "read", "exists", "mount", "dismount"} => Asked(op, path) \in Questions
BY PathTyped DEF Asked, Questions

\* What a program's call leaves behind when its handler has called AVFS.
LEMMA EnterInv ==
    ASSUME SysInv, NEW id \in 1 .. 5, NEW path \in Paths, attached, pc = "ready",
           sys' = [id |-> id, open |-> TRUE], UNCHANGED <<attached, buffer, deleted, rcx>>,
           asked' = Asked(Handlers[id], path),
           UNCHANGED <<bootVars, pc, files, astray>>,
           DriveTable', MountedMeansFormatted',
           busy' \in BOOLEAN, code' \in Codes \cup {"none"}, ServesCall',
           ~busy' => code' # "none" /\ (code' = "Success" => Done(id)')
    PROVE  SysInv'
<1>1. sys'.id = id /\ sys'.open /\ sys' \in [id : 0 .. 5, open : BOOLEAN] /\ sys'.id # 0
  OBVIOUS
<1>2. Handlers[id] \in {"none", "write", "read", "exists", "mount", "dismount"}
  <2>1. id \in {1, 2, 3, 4, 5}
    OBVIOUS
  <2> QED
    BY <2>1, HandlerNames
<1>3. asked' \in Questions
  BY <1>2, AskedIs
<1>4. asked'.op = Handlers[id]
  BY AskedIs
<1>5. Typed'
  BY <1>1, <1>3, Zenon DEF SysInv, Typed, bootVars
<1>6. BootOrder'
  BY Zenon DEF SysInv, BootOrder, bootVars
<1>7. Dispatched'
  BY <1>1, <1>4 DEF Dispatched
<1>8. Answered'
  BY <1>1, Zenon DEF Answered
<1> QED
  BY <1>5, <1>6, <1>7, <1>8 DEF SysInv

\* A call that changes neither drives nor files leaves what they say of the medium.
LEMMA MediumKept ==
    ASSUME MountedMeansFormatted, UNCHANGED <<bootVars, drives, files>>
    PROVE  MountedMeansFormatted'
BY DEF MountedMeansFormatted, bootVars

LEMMA MountKept ==
    ASSUME SysInv, NEW path \in Paths, Mount(path)
    PROVE  /\ pc = "ready" /\ ~busy /\ asked' = Asked("mount", path)
           /\ UNCHANGED <<bootVars, pc, storeVars>>
           /\ DriveTable' /\ MountedMeansFormatted' /\ code' \in Codes
           /\ code' = "Success" => drives' # <<>> /\ \E i \in DOMAIN drives' : drives'[i].format = "abtrfs"
<1>1. /\ pc = "ready" /\ ~busy /\ asked' = Asked("mount", path)
      /\ UNCHANGED <<bootVars, pc, storeVars>> /\ code' \in {Resolve(path), "Success", "DeviceNotMounted"}
  BY DEF Mount, Ask, Answer
<1>2. Resolve(path) \in Codes /\ (Resolve(path) = "Success" <=> Reaches(path))
  BY <1>1, Resolved DEF SysInv
<1>3. code' \in Codes
  BY <1>1, <1>2 DEF Codes, Store!Errors
<1>4. CASE UNCHANGED drives /\ code' # "Success"
  <2>1. DriveTable'
    BY <1>1, <1>4, TableKept DEF SysInv, bootVars
  <2>2. MountedMeansFormatted'
    BY <1>1, <1>4, MediumKept DEF SysInv, storeVars
  <2> QED
    BY <1>1, <1>3, <1>4, <2>1, <2>2
<1>5. CASE Reaches(path) /\ formatted /\ code' = "Success" /\ SetFormat(path, "abtrfs")
  <2>1. FormatChanged("abtrfs")
    BY <1>5, FormatSet DEF SysInv
  <2>2. DriveTable'
    BY <1>1, <2>1, TableKept DEF SysInv, bootVars
  <2>3. MountedMeansFormatted'
    BY <1>1, <1>5, <2>1 DEF SysInv, BootOrder, MountedMeansFormatted, bootVars, storeVars, FormatChanged
  <2>4. drives' # <<>> /\ \E i \in DOMAIN drives' : drives'[i].format = "abtrfs"
    BY <2>1 DEF FormatChanged
  <2> QED
    BY <1>1, <1>3, <2>2, <2>3, <2>4
<1>6. \/ UNCHANGED drives /\ code' # "Success"
      \/ Reaches(path) /\ formatted /\ code' = "Success" /\ SetFormat(path, "abtrfs")
  <2>1. PICK mounted \in MountOutcomes :
           IF Resolve(path) # "Success" THEN Answer(Resolve(path)) /\ UNCHANGED drives
           ELSE IF mounted THEN Answer("Success") /\ SetFormat(path, "abtrfs")
           ELSE Answer("DeviceNotMounted") /\ UNCHANGED drives
    BY DEF Mount
  <2>2. mounted => formatted
    BY DEF MountOutcomes
  <2> QED
    BY <1>2, <2>1, <2>2 DEF Answer
<1> QED
  BY <1>4, <1>5, <1>6

LEMMA KernelMountInv == ASSUME SysInv, NEW path \in Paths, KernelMount(path) PROVE SysInv'
<1>1. ~attached /\ Mount(path) /\ UNCHANGED sysVars
  BY DEF KernelMount
<1>2. /\ pc = "ready" /\ ~busy /\ asked' = Asked("mount", path)
      /\ UNCHANGED <<bootVars, pc, storeVars>>
      /\ DriveTable' /\ MountedMeansFormatted' /\ code' \in Codes
  BY <1>1, MountKept
<1>3. asked' \in Questions
  BY <1>2, AskedIs
<1>4. sys = NoCall /\ ~sys.open /\ sys.id = 0
  <2>1. sys = NoCall
    BY <1>1 DEF SysInv, BootOrder
  <2> QED
    BY <2>1 DEF NoCall
<1>5. Typed'
  BY <1>1, <1>2, <1>3, Zenon DEF SysInv, Typed, bootVars, storeVars, sysVars
<1>6. BootOrder'
  BY <1>1, <1>2, Zenon DEF SysInv, BootOrder, bootVars, sysVars
<1>7. ServesCall' /\ Dispatched' /\ Answered'
  BY <1>1, <1>2, <1>4 DEF ServesCall, Dispatched, Answered, storeVars, sysVars
<1> QED
  BY <1>2, <1>5, <1>6, <1>7 DEF SysInv

LEMMA AttachInv == ASSUME SysInv, attachAVFS PROVE SysInv'
<1>1. /\ pc = "ready" /\ ~attached /\ attached' = TRUE
      /\ UNCHANGED <<bootVars, drives, pc, asked, code, storeVars, buffer, deleted, rcx, sys>>
  BY DEF attachAVFS, vars
<1>2. Typed'
  BY <1>1, Zenon DEF SysInv, Typed, bootVars, storeVars
<1>3. DriveTable'
  BY <1>1, TableKept DEF SysInv, bootVars
<1>4. BootOrder'
  BY <1>1, Zenon DEF SysInv, BootOrder, bootVars
<1>5. MountedMeansFormatted'
  BY <1>1, MediumKept DEF SysInv, storeVars
<1>6. ServesCall' /\ Dispatched'
  BY <1>1, Zenon DEF SysInv, ServesCall, Dispatched, storeVars, bootVars
<1>7. Answered'
  BY <1>1, Zenon DEF SysInv, Answered, Told, Done, storeVars
<1> QED
  BY <1>2, <1>3, <1>4, <1>5, <1>6, <1>7 DEF SysInv

\* The number of a handler that calls AVFS, and what Enter sets.
LEMMA Entered ==
    ASSUME NEW id \in 0 .. 17, NEW number \in 1 .. 5, Enter(id, Handlers[number])
    PROVE  /\ id = number /\ attached
           /\ sys' = [id |-> number, open |-> TRUE] /\ UNCHANGED <<attached, buffer, deleted, rcx>>
<1>1. Handler(id) = Handlers[number]
  BY DEF Enter
<1>2. number \in {1, 2, 3, 4, 5}
  OBVIOUS
<1>3. id = number
  BY <1>1, <1>2, HandlerNumbers, HandlerNames
<1> QED
  BY <1>3 DEF Enter, Callable

LEMMA SysMountInv ==
    ASSUME SysInv, NEW id \in 0 .. 17, NEW path \in Paths, SysMount(id, path)
    PROVE  SysInv'
<1>1. /\ pc = "ready" /\ ~busy /\ asked' = Asked("mount", path)
      /\ UNCHANGED <<bootVars, pc, storeVars>>
      /\ DriveTable' /\ MountedMeansFormatted' /\ code' \in Codes
      /\ code' = "Success" => drives' # <<>> /\ \E i \in DOMAIN drives' : drives'[i].format = "abtrfs"
  BY MountKept DEF SysMount
<1>2. /\ id = 4 /\ attached
      /\ sys' = [id |-> 4, open |-> TRUE] /\ UNCHANGED <<attached, buffer, deleted, rcx>>
  BY Entered, HandlerNames DEF SysMount
<1>3. busy' = FALSE /\ files' = files /\ astray' = astray /\ ServesCall'
  BY <1>1 DEF SysInv, Typed, storeVars, ServesCall
<1>4. code' = "Success" => Done(4)'
  BY <1>1 DEF Done
<1>5. code' # "none"
  BY <1>1 DEF Codes, Store!Errors
<1>6. /\ 4 \in 1 .. 5 /\ asked' = Asked(Handlers[4], path)
      /\ UNCHANGED <<bootVars, pc, files, astray>> /\ busy' \in BOOLEAN /\ code' \in Codes \cup {"none"}
  <2>1. 4 \in 1 .. 5
    OBVIOUS
  <2> QED
    BY <1>1, <1>3, HandlerNames, <2>1, Zenon
<1> QED
  BY <1>1, <1>2, <1>3, <1>4, <1>5, <1>6, EnterInv, Zenon

LEMMA SysDismountInv ==
    ASSUME SysInv, NEW id \in 0 .. 17, NEW path \in Paths, SysDismount(id, path)
    PROVE  SysInv'
<1>1. /\ pc = "ready" /\ ~busy /\ asked' = Asked("dismount", path)
      /\ UNCHANGED <<bootVars, pc, storeVars>> /\ code' = Lookup(path)
      /\ IF Lookup(path) = "Success" THEN SetFormat(path, "") ELSE UNCHANGED drives
  BY DEF SysDismount, Dismount, Ask, Answer
<1>2. /\ id = 5 /\ attached
      /\ sys' = [id |-> 5, open |-> TRUE] /\ UNCHANGED <<attached, buffer, deleted, rcx>>
  BY Entered, HandlerNames DEF SysDismount
<1>3. busy' = FALSE /\ files' = files /\ astray' = astray /\ ServesCall'
  BY <1>1 DEF SysInv, Typed, storeVars, ServesCall
<1>4. Lookup(path) \in Codes /\ (Lookup(path) = "Success" <=> Reaches(path))
  BY LookedUp DEF SysInv
<1>5. code' \in Codes /\ code' # "none"
  BY <1>1, <1>4 DEF Codes, Store!Errors
<1>6. /\ DriveTable' /\ MountedMeansFormatted'
      /\ code' = "Success" => drives' # <<>> /\ drives'[1].format = ""
  <2>1. CASE Lookup(path) # "Success"
    BY <1>1, <1>3, <2>1, TableKept, MediumKept DEF SysInv, bootVars
  <2>2. CASE Lookup(path) = "Success"
    <3>1. FormatChanged("")
      BY <1>1, <1>4, <2>2, FormatSet DEF SysInv
    <3>2. DriveTable'
      BY <1>1, <3>1, TableKept DEF SysInv, bootVars
    <3>3. drives' # <<>> /\ drives'[1].format = ""
      BY <3>1 DEF FormatChanged
    <3>4. MountedMeansFormatted'
      BY <1>1, <1>3, <3>1 DEF SysInv, MountedMeansFormatted, bootVars, FormatChanged
    <3> QED
      BY <3>2, <3>3, <3>4
  <2> QED
    BY <2>1, <2>2
<1>7. code' = "Success" => Done(5)'
  <2>1. 5 # 1 /\ 5 # 4
    OBVIOUS
  <2> QED
    BY <1>6, <2>1, Zenon DEF Done
<1>8. /\ 5 \in 1 .. 5 /\ asked' = Asked(Handlers[5], path)
      /\ UNCHANGED <<bootVars, pc, files, astray>> /\ busy' \in BOOLEAN /\ code' \in Codes \cup {"none"}
  <2>1. 5 \in 1 .. 5
    OBVIOUS
  <2> QED
    BY <1>1, <1>3, <1>5, HandlerNames, <2>1, Zenon
<1> QED
  BY <1>1, <1>2, <1>3, <1>5, <1>6, <1>7, <1>8, EnterInv, Zenon

LEMMA SysExistsInv ==
    ASSUME SysInv, NEW id \in 0 .. 17, NEW path \in Paths, SysExists(id, path)
    PROVE  SysInv'
<1>1. /\ pc = "ready" /\ ~busy /\ asked' = Asked("exists", path)
      /\ UNCHANGED <<bootVars, pc, storeVars, drives>> /\ code' = Lookup(path)
  BY DEF SysExists, Exists, Ask, Answer
<1>2. /\ id = 3 /\ attached
      /\ sys' = [id |-> 3, open |-> TRUE] /\ UNCHANGED <<attached, buffer, deleted, rcx>>
  BY Entered, HandlerNames DEF SysExists
<1>3. busy' = FALSE /\ files' = files /\ astray' = astray /\ ServesCall'
  BY <1>1 DEF SysInv, Typed, storeVars, ServesCall
<1>4. Lookup(path) \in Codes /\ (Lookup(path) = "Success" <=> Reaches(path))
  BY LookedUp DEF SysInv
<1>5. code' \in Codes /\ code' # "none"
  BY <1>1, <1>4 DEF Codes, Store!Errors
<1>6. DriveTable' /\ MountedMeansFormatted'
  BY <1>1, <1>3, TableKept, MediumKept DEF SysInv, bootVars
<1>7. code' = "Success" => Done(3)'
  BY <1>1, <1>4 DEF Done, Reaches
<1>8. /\ 3 \in 1 .. 5 /\ asked' = Asked(Handlers[3], path)
      /\ UNCHANGED <<bootVars, pc, files, astray>> /\ busy' \in BOOLEAN /\ code' \in Codes \cup {"none"}
  <2>1. 3 \in 1 .. 5
    OBVIOUS
  <2> QED
    BY <1>1, <1>3, <1>5, HandlerNames, <2>1, Zenon
<1> QED
  BY <1>1, <1>2, <1>3, <1>5, <1>6, <1>7, <1>8, EnterInv, Zenon

LEMMA ForwardInv ==
    ASSUME SysInv, NEW number \in {1, 2}, NEW path \in Paths, attached, pc = "ready", ~busy,
           sys' = [id |-> number, open |-> TRUE], UNCHANGED <<attached, buffer, deleted, rcx>>,
           asked' = Asked(Handlers[number], path),
           NEW c, c.op = Handlers[number], c.path = path.dir, c.off = 0,
           number = 1 => c.data = CleanData(buffer),
           Forward(path, c)
    PROVE  SysInv'
<1>1. UNCHANGED <<bootVars, drives, pc>>
  BY DEF Forward
<1>2. Resolve(path) \in Codes /\ (Resolve(path) = "Success" <=> Reaches(path))
  BY Resolved DEF SysInv
<1>3. "DeviceNotMounted" \in Codes /\ "none" \notin Codes /\ "DeviceNotMounted" # "Success"
  BY DEF Codes, Store!Errors
<1>4. \/ UNCHANGED storeVars /\ code' \in Codes /\ code' # "Success"
      \/ Reaches(path) /\ formatted /\ Store!Call(c) /\ UNCHANGED code
  BY <1>2, <1>3, Zenon DEF Forward, Answer
<1>5. files' = files
  BY <1>4 DEF storeVars, Store!Call
<1>10. astray' = astray
  BY DEF Forward, Answer, storeVars
<1>6. DriveTable' /\ MountedMeansFormatted'
  BY <1>1, <1>5, TableKept, MediumKept DEF SysInv, bootVars
<1>7. /\ busy' \in BOOLEAN /\ code' \in Codes \cup {"none"}
      /\ ~busy' => code' # "none" /\ (code' = "Success" => Done(number)')
  <2>1. CASE UNCHANGED storeVars /\ code' \in Codes /\ code' # "Success"
    BY <1>3, <2>1, Zenon DEF storeVars, SysInv, Typed
  <2>2. CASE Store!Call(c) /\ UNCHANGED code
    <3>1. busy' = TRUE /\ code \in Codes \cup {"none"}
      BY <2>2 DEF Store!Call, SysInv, Typed
    <3> QED
      BY <2>2, <3>1, Zenon
  <2> QED
    BY <1>4, <2>1, <2>2
<1>8. ServesCall'
  <2>1. CASE UNCHANGED storeVars
    BY <2>1 DEF storeVars, ServesCall
  <2>2. CASE Reaches(path) /\ formatted /\ Store!Call(c)
    <3>1. call' = c
      BY <2>2 DEF Store!Call
    <3>2. formatted' /\ drives' # <<>>
      BY <1>1, <2>2 DEF Reaches, bootVars
    <3>3. sys'.open /\ asked'.op = Handlers[number] /\ asked'.dir = path.dir
      BY AskedIs
    <3>4. Handlers[number] \in {"write", "read"} /\ (Handlers[number] = "write" => number = 1)
      BY HandlerNames
    <3>5. asked'.op = "write" => call'.data = CleanData(buffer)'
      <4>1. CleanData(buffer)' = CleanData(buffer)
        BY DEF CleanData
      <4> QED
        BY <3>1, <3>3, <3>4, <4>1, Zenon
    <3>6. ~asked'.had => files'[asked'.dir] = Absent
      <4>1. asked'.had <=> files[path.dir] # Absent
        BY AskedIs
      <4> QED
        BY <1>5, <3>3, <4>1
    <3> QED
      BY <3>1, <3>2, <3>3, <3>4, <3>5, <3>6, Zenon DEF ServesCall
  <2> QED
    BY <1>4, <2>1, <2>2
<1>9. number \in 1 .. 5 /\ UNCHANGED <<bootVars, pc, files, astray>>
  <2>1. number \in 1 .. 5
    OBVIOUS
  <2> QED
    BY <1>1, <1>5, <1>10, <2>1, Zenon
<1> QED
  BY <1>6, <1>7, <1>8, <1>9, EnterInv, Zenon

LEMMA SysWriteInv ==
    ASSUME SysInv, NEW id \in 0 .. 17, NEW path \in Paths, SysWrite(id, path)
    PROVE  SysInv'
<1> DEFINE c == [op |-> "write", path |-> findPathAfterDrive(path),
                 data |-> CleanData(buffer), off |-> 0, max |-> 0]
<1>1. /\ pc = "ready" /\ ~busy /\ asked' = Asked("write", path) /\ Forward(path, c)
  BY DEF SysWrite, Write, Ask
<1>2. c.op = "write" /\ c.path = path.dir /\ c.off = 0 /\ c.data = CleanData(buffer)
  BY DEF findPathAfterDrive
<1> HIDE DEF c
<1>3. /\ attached /\ sys' = [id |-> 1, open |-> TRUE] /\ UNCHANGED <<attached, buffer, deleted, rcx>>
  <2>1. 1 \in 1 .. 5
    OBVIOUS
  <2> QED
    BY <2>1, Entered, HandlerNames, Zenon DEF SysWrite
<1> QED
  BY <1>1, <1>2, <1>3, HandlerNames, ForwardInv, Zenon

LEMMA SysReadInv ==
    ASSUME SysInv, NEW id \in 0 .. 17, NEW path \in Paths, SysRead(id, path)
    PROVE  SysInv'
<1> DEFINE c == [op |-> "read", path |-> findPathAfterDrive(path),
                 data |-> <<>>, off |-> 0, max |-> Len(buffer)]
<1>1. /\ pc = "ready" /\ ~busy /\ asked' = Asked("read", path) /\ Forward(path, c)
  BY DEF SysRead, Read, Ask
<1>2. c.op = "read" /\ c.path = path.dir /\ c.off = 0
  BY DEF findPathAfterDrive
<1> HIDE DEF c
<1>3. /\ attached /\ sys' = [id |-> 2, open |-> TRUE] /\ UNCHANGED <<attached, buffer, deleted, rcx>>
  <2>1. 2 \in 1 .. 5
    OBVIOUS
  <2> QED
    BY <2>1, Entered, HandlerNames, Zenon DEF SysRead
<1>4. 2 # 1
  OBVIOUS
<1> QED
  BY <1>1, <1>2, <1>3, <1>4, HandlerNames, ForwardInv, Zenon

\* Steps that leave AVFS alone: os_arch, os_type, the empty handlers, a return, and
\* the program itself.
LEMMA AvfsKept ==
    ASSUME SysInv, UNCHANGED <<vars, attached>>
    PROVE  /\ DriveTable' /\ MountedMeansFormatted' /\ attached' = attached /\ pc' = pc
           /\ busy' = busy /\ code' = code /\ UNCHANGED <<bootVars, drives, files, astray, asked, call>>
<1>1. UNCHANGED <<bootVars, drives, pc, asked, code, storeVars>>
  BY DEF vars
<1>2. UNCHANGED <<files, busy, call, astray>>
  BY <1>1 DEF storeVars
<1> QED
  BY <1>1, <1>2, TableKept, MediumKept DEF SysInv, bootVars

\* With no call under way nothing is known of the last one.
LEMMA ForgottenInv ==
    ASSUME SysInv, UNCHANGED <<vars, attached>>, ~sys.open, sys' = NoCall,
           buffer' \in Data, deleted' \in BOOLEAN, rcx' \in Codes \cup {Garbage, "os_arch", "os_type"}
    PROVE  SysInv'
<1>1. /\ DriveTable' /\ MountedMeansFormatted' /\ attached' = attached /\ pc' = pc
      /\ busy' = busy /\ code' = code /\ UNCHANGED <<bootVars, drives, files, astray, asked, call>>
  BY AvfsKept
<1>2. sys'.id = 0 /\ sys'.open = FALSE /\ sys' \in [id : 0 .. 5, open : BOOLEAN]
  BY DEF NoCall
<1>3. ~busy
  BY DEF SysInv, ServesCall
<1>4. Typed'
  BY <1>1, <1>2, Zenon DEF SysInv, Typed, bootVars
<1>5. BootOrder'
  <2>1. UNCHANGED <<formatted, m_initialized, pc, attached>>
    BY <1>1 DEF bootVars
  <2> QED
    BY <2>1 DEF SysInv, BootOrder
<1>6. ServesCall' /\ Dispatched' /\ Answered'
  BY <1>1, <1>2, <1>3 DEF ServesCall, Dispatched, Answered
<1> QED
  BY <1>1, <1>4, <1>5, <1>6 DEF SysInv

LEMMA SysInfoInv == ASSUME SysInv, NEW id \in 0 .. 17, SysInfo(id) PROVE SysInv'
<1>1. /\ UNCHANGED <<vars, attached>> /\ ~sys.open /\ sys' = NoCall
      /\ rcx' \in {"os_arch", "os_type"} /\ UNCHANGED <<buffer, deleted>>
  BY DEF SysInfo, Callable
<1>2. buffer' \in Data /\ deleted' \in BOOLEAN
  BY <1>1 DEF SysInv, Typed
<1> QED
  BY <1>1, <1>2, ForgottenInv

LEMMA SysNothingInv == ASSUME SysInv, NEW id \in 0 .. 17, SysNothing(id) PROVE SysInv'
<1>1. /\ UNCHANGED <<vars, attached>> /\ ~sys.open /\ sys' = NoCall
      /\ rcx' \in {rcx, Garbage, "Success"} /\ UNCHANGED <<buffer, deleted>>
  BY DEF SysNothing, Callable, Disturbed
<1>2. buffer' \in Data /\ deleted' \in BOOLEAN /\ rcx \in Codes \cup {Garbage, "os_arch", "os_type"}
  BY <1>1 DEF SysInv, Typed
<1>3. rcx' \in Codes \cup {Garbage, "os_arch", "os_type"}
  BY <1>1, <1>2 DEF Codes
<1> QED
  BY <1>1, <1>2, <1>3, ForgottenInv

LEMMA ProgramInv == ASSUME SysInv, Program PROVE SysInv'
<1>1. /\ UNCHANGED <<vars, attached>> /\ ~sys.open /\ sys' = NoCall
      /\ rcx' = Garbage /\ buffer' \in Data /\ deleted' = FALSE
  BY DEF Program
<1>2. deleted' \in BOOLEAN /\ rcx' \in Codes \cup {Garbage, "os_arch", "os_type"}
  BY <1>1 DEF SysInv, Typed
<1> QED
  BY <1>1, <1>2, ForgottenInv

-----------------------------------------------------------------------------
(* The way back *)

LEMMA ServeInv == ASSUME SysInv, Serve, UNCHANGED sysVars PROVE SysInv'
<1>1. busy /\ UNCHANGED <<bootVars, drives, pc, asked, call>>
  BY DEF Serve, Store!Patch, Store!Return, Kept, CutShort, Strays
<1>2. UNCHANGED <<attached, buffer, deleted, rcx, sys>>
  BY DEF sysVars
<1>3. \/ files' \in Store!Patches \cup Store!Enlargements
      \/ files' = [d \in Dirs |-> Absent]
  BY CutPatches DEF SysInv, Serve, Store!Patch, Store!Return, Kept, Strays
<1>4. files' \in [Dirs -> Contents]
  <2>1. CASE files' = [d \in Dirs |-> Absent]
    BY <2>1 DEF Contents
  <2>2. CASE files' \in Store!Patches \cup Store!Enlargements
    BY <1>1, <2>2, FilesTyped DEF SysInv
  <2> QED
    BY <1>3, <2>1, <2>2
<1>5. /\ sys.open /\ formatted /\ drives # <<>> /\ asked.op \in {"write", "read"}
      /\ call.op = asked.op /\ call.path = asked.dir /\ call.off = 0
      /\ asked.op = "write" => call.data = CleanData(buffer)
      /\ ~asked.had => files[asked.dir] = Absent
  BY <1>1 DEF SysInv, ServesCall
<1>6. DriveTable'
  BY <1>1, TableKept DEF SysInv, bootVars
<1>7. MountedMeansFormatted'
  BY <1>1, <1>5 DEF SysInv, BootOrder, MountedMeansFormatted, bootVars
<1>8. ServesCall' /\ Dispatched'
  <2>1. CleanData(buffer)' = CleanData(buffer)
    BY <1>2 DEF CleanData
  <2>2. UNCHANGED <<formatted, drives, asked, call, sys>>
    BY <1>1, <1>2 DEF bootVars
  <2>5. busy' /\ ~asked.had => files'[asked.dir] = Absent
    <3>1. busy' => files' \in Store!Patches
      BY DEF Serve, Store!Patch, Store!Return, Kept, CutShort, Strays
    <3>2. files[call.path] = Absent => Store!Patches = {files}
      BY DEF Store!Patches
    <3> QED
      BY <1>5, <3>1, <3>2
  <2>3. ServesCall'
    BY <1>5, <2>1, <2>2, <2>5, Zenon DEF ServesCall
  <2>4. Dispatched'
    BY <2>2 DEF SysInv, Dispatched
  <2> QED
    BY <2>3, <2>4
<1>9. BootOrder'
  BY <1>1, <1>2, Zenon DEF SysInv, BootOrder, bootVars
<1>13. sys.id \in {1, 2} /\ (sys.id = 1 => asked.op = "write")
  <2>1. sys.id \in {1, 2, 3, 4, 5} /\ asked.op = Handlers[sys.id]
    BY <1>5 DEF SysInv, Dispatched
  <2> QED
    BY <1>5, <2>1, HandlerNames
<1>14. ASSUME sys.id = 1 /\ ~astray' => HoldsNonzero(files'[asked.dir], buffer, asked.had)
       PROVE  Done(sys.id)'
  <2>1. HoldsNonzero(files[asked.dir], buffer, asked.had)' = HoldsNonzero(files'[asked.dir], buffer, asked.had)
    BY <1>1, <1>2 DEF HoldsNonzero
  <2>2. sys'.id = sys.id /\ drives' # <<>> /\ 1 # 4 /\ 1 # 5 /\ 2 # 4 /\ 2 # 5
    BY <1>1, <1>2, <1>5
  <2> QED
    BY <1>13, <1>14, <2>1, <2>2 DEF Done
<1>15. files'[asked.dir] \in Contents /\ buffer \in Seq(Nat) /\ asked.dir \in Dirs
  BY <1>4, BufferTyped DEF SysInv, Typed, Questions
<1>10. /\ busy' \in BOOLEAN /\ code' \in Codes \cup {"none"} /\ astray' \in BOOLEAN
       /\ ~busy' => code' # "none" /\ (code' = "Success" => Done(sys.id)')
  <2>1. CASE Store!Patch /\ UNCHANGED <<code, astray>>
    <3>1. busy' = TRUE
      BY <1>1, <2>1 DEF Store!Patch, SysInv, Typed
    <3> QED
      BY <2>1, <3>1, Zenon DEF SysInv, Typed
  <2>2. CASE Kept /\ code' = ret'
    <3>1. /\ busy' = FALSE /\ Store!Answer(files'[call.path], ret', result') /\ astray' = astray
          /\ files' \in Store!Patches \cup Store!Enlargements
      BY <2>2 DEF Kept, Store!Return
    <3>2. code' \in Codes
      BY <2>2, <3>1 DEF Store!Answer, Codes
    <3>3. code' # "none"
      BY <3>2 DEF Codes, Store!Errors
    <3>4. ASSUME code' = "Success", sys.id = 1 PROVE HoldsNonzero(files'[asked.dir], buffer, asked.had)
      <4>1. call.op = "write" /\ call.data = CleanData(buffer) /\ call.off = 0
        BY <1>5, <1>13, <3>4
      <4>2. Store!Stored(files'[asked.dir])
        <5>1. "Success" \notin Store!Errors /\ "Success" # "FileNotFound"
          BY DEF Store!Errors
        <5> QED
          BY <1>5, <2>2, <3>1, <3>4, <4>1, <5>1, Zenon DEF Store!Answer
      <4>3. files'[asked.dir] # Absent
        BY <4>2 DEF Store!Stored
      <4>4. ASSUME ~asked.had PROVE Len(files'[asked.dir]) = Store!target
        <5>1. files[call.path] = Absent
          BY <1>5, <4>4
        <5>2. files' \in Store!Enlargements
          BY <1>5, <3>1, <4>3, <5>1 DEF Store!Patches
        <5>3. files' = [files EXCEPT ![call.path] = Store!Enlarged(Absent)]
          BY <5>1, <5>2 DEF Store!Enlargements
        <5>4. files'[asked.dir] = Store!Enlarged(Absent)
          BY <1>5, <1>15, <5>3 DEF SysInv, Typed
        <5>5. Store!target \in Nat
          <6>1. call.data \in Seq(Nat)
            BY <4>1, BufferTyped DEF SysInv
          <6> QED
            BY <4>1, <6>1 DEF Store!target
        <5>6. Len(Store!Enlarged(Absent)) = Store!target
          BY <5>5 DEF Store!Enlarged
        <5> QED
          BY <5>4, <5>6
      <4> QED
        BY <1>15, <4>1, <4>2, <4>3, <4>4, StoredHolds DEF Store!Stored
    <3> QED
      BY <1>14, <3>1, <3>2, <3>3, <3>4 DEF SysInv, Typed
  <2>3. CASE CutShort /\ code' = ret'
    <3>1. /\ files'[call.path] # Absent /\ Len(files'[call.path]) = Len(files[call.path])
          /\ \A i \in 1 .. Len(files[call.path]) : files'[call.path][i] = Store!Written(i)
      BY <2>3, CutPatches DEF SysInv
    <3>2. busy' = FALSE /\ astray' = astray /\ code' = "Success" /\ files[call.path] # Absent
      BY <2>3 DEF CutShort, Longer
    <3>3. asked.had
      BY <1>5, <3>2
    <3>4. ASSUME sys.id = 1 PROVE HoldsNonzero(files'[asked.dir], buffer, asked.had)
      <4>1. call.data = CleanData(buffer) /\ call.off = 0 /\ call.path = asked.dir
        BY <1>5, <1>13, <3>4
      <4> QED
        BY <1>15, <3>1, <3>3, <4>1, StoredHolds
    <3>5. code' \in Codes /\ code' # "none"
      BY <3>2 DEF Codes
    <3> QED
      BY <1>14, <3>2, <3>4, <3>5 DEF SysInv, Typed
  <2>4. CASE Strays /\ code' = ret'
    <3>1. busy' = FALSE /\ astray' = TRUE
      BY <2>4 DEF Strays
    <3>2. code' \in Codes /\ code' # "none"
      BY <2>4 DEF Strays, Codes, Store!Errors
    <3>3. Done(sys.id)'
      BY <1>14, <3>1
    <3> QED
      BY <3>1, <3>2, <3>3
  <2> QED
    BY <2>1, <2>2, <2>3, <2>4 DEF Serve
<1>11. Answered'
  BY <1>2, <1>5, <1>10, Zenon DEF Answered
<1>12. Typed'
  BY <1>1, <1>2, <1>4, <1>10, ZenonT(40) DEF SysInv, Typed, bootVars
<1> QED
  BY <1>6, <1>7, <1>8, <1>9, <1>11, <1>12 DEF SysInv

LEMMA SysReturnInv == ASSUME SysInv, SysReturn PROVE SysInv'
<1>1. /\ sys.open /\ ~busy /\ rcx' \in RcxAfter /\ deleted' \in BOOLEAN
      /\ sys' = [sys EXCEPT !.open = FALSE] /\ UNCHANGED <<vars, attached>> /\ buffer' = buffer
  BY DEF SysReturn, DeletesBuffer
<1>2. /\ DriveTable' /\ MountedMeansFormatted' /\ attached' = attached /\ pc' = pc
      /\ busy' = busy /\ code' = code /\ UNCHANGED <<bootVars, drives, files, astray, asked, call>>
  BY <1>1, AvfsKept
<1>3. sys \in [id : 0 .. 5, open : BOOLEAN] /\ sys.id \in 1 .. 5
  BY <1>1 DEF SysInv, Typed, Dispatched
<1>4. sys'.id = sys.id /\ ~sys'.open /\ sys' \in [id : 0 .. 5, open : BOOLEAN]
  BY <1>1, <1>3
<1>5. code \in Codes /\ (code = "Success" => Done(sys.id))
  BY <1>1 DEF SysInv, Typed, Answered
<1>6. rcx' \in {code, Garbage, "Success"} /\ (asked.op \notin {"write", "read"} => rcx' = code)
  BY <1>1 DEF RcxAfter, Disturbed
<1>7. Typed'
  <2>1. rcx' \in Codes \cup {Garbage, "os_arch", "os_type"}
    BY <1>5, <1>6 DEF Codes
  <2>2. deleted' \in BOOLEAN
    BY <1>1
  <2> QED
    BY <1>1, <1>2, <1>4, <2>1, <2>2, Zenon DEF SysInv, Typed, bootVars
<1>8. BootOrder'
  <2>1. UNCHANGED <<formatted, m_initialized, pc, attached>>
    BY <1>2 DEF bootVars
  <2>2. attached
    BY <1>1 DEF SysInv, BootOrder, NoCall
  <2> QED
    BY <2>1, <2>2 DEF SysInv, BootOrder
<1>9. ServesCall' /\ Dispatched'
  BY <1>1, <1>2, <1>4 DEF ServesCall, Dispatched
<1>10. Answered'
  <2>1. Told' = "Success" => code = "Success"
    <3>1. sys.id \in {1, 2, 3, 4, 5} /\ asked.op = Handlers[sys.id]
      BY <1>1, <1>3 DEF SysInv, Dispatched
    <3>2. sys.id \notin {1, 2} => rcx' = code
      BY <1>6, <3>1, HandlerNames
    <3> QED
      BY <1>2, <1>4, <3>2 DEF Told
  <2>2. Done(sys.id) => Done(sys.id)'
    <3>1. UNCHANGED <<drives, files, asked, buffer, astray>>
      BY <1>1, <1>2
    <3>2. HoldsNonzero(files[asked.dir], buffer, asked.had)' = HoldsNonzero(files[asked.dir], buffer, asked.had)
      BY <3>1 DEF HoldsNonzero
    <3> QED
      BY <1>4, <3>1, <3>2, Zenon DEF Done
  <2> QED
    BY <1>4, <1>5, <2>1, <2>2, Zenon DEF Answered
<1> QED
  BY <1>2, <1>7, <1>8, <1>9, <1>10 DEF SysInv

-----------------------------------------------------------------------------
(* Theorems *)

LEMMA StutterInv == ASSUME SysInv, UNCHANGED allVars PROVE SysInv'
<1>1. UNCHANGED <<vars, attached>> /\ UNCHANGED <<buffer, deleted, rcx, sys>>
  BY DEF allVars, sysVars
<1>2. /\ DriveTable' /\ MountedMeansFormatted' /\ attached' = attached /\ pc' = pc
      /\ busy' = busy /\ code' = code /\ UNCHANGED <<bootVars, drives, files, astray, asked, call>>
  BY <1>1, AvfsKept
<1>3. /\ UNCHANGED <<storage, model, m_initialized, formatted, pc, asked, code, files, astray, busy, call, drives>>
      /\ UNCHANGED <<attached, buffer, deleted, rcx, sys>>
  BY <1>1, <1>2 DEF bootVars
<1>4. Typed' /\ BootOrder' /\ ServesCall' /\ Dispatched'
  <2>1. CleanData(buffer)' = CleanData(buffer)
    BY <1>1 DEF CleanData
  <2>2. Typed'
    BY <1>3 DEF SysInv, Typed
  <2>3. BootOrder' /\ Dispatched'
    BY <1>3 DEF SysInv, BootOrder, Dispatched
  <2>4. ServesCall'
    BY <1>3, <2>1, Zenon DEF SysInv, ServesCall
  <2> QED
    BY <2>2, <2>3, <2>4
<1>5. Answered'
  BY <1>1, <1>2 DEF SysInv, Answered, Told, Done, HoldsNonzero
<1> QED
  BY <1>2, <1>4, <1>5 DEF SysInv

LEMMA NextInv == SysInv /\ [SysNext]_allVars => SysInv'
<1> SUFFICES ASSUME SysInv, [SysNext]_allVars PROVE SysInv'
  OBVIOUS
<1>1. ASSUME NEW id \in 0 .. 17, syscall(id) PROVE SysInv'
  BY <1>1, SysWriteInv, SysReadInv, SysExistsInv, SysMountInv, SysDismountInv, SysInfoInv, SysNothingInv
     DEF syscall
<1>2. CASE SysNext
  BY <1>1, <1>2, BootInv, AttachInv, KernelMountInv, ServeInv, SysReturnInv, ProgramInv DEF SysNext
<1> QED
  BY <1>2, StutterInv

\* The invariant itself, along every sequence of start-up, calls and answers.
LEMMA AlwaysInv == SysSpec => []SysInv
BY InitInv, NextInv, PTL DEF SysSpec

\* Drives and devices stay within the tables that AVFS::Init and gaossd build, a
\* file system call is under way only inside a system call, and rcx holds a code
\* of AVFS, a text or what the compiler left there.
THEOREM TypeCorrect == SysSpec => []AllTypeOK
<1>1. SysInv => AllTypeOK
  <2> SUFFICES ASSUME SysInv PROVE AllTypeOK
    OBVIOUS
  <2>1. /\ m_initialized \in BOOLEAN /\ formatted \in BOOLEAN /\ busy \in BOOLEAN
        /\ pc \in {"gaossd", "format", "init", "ready"} /\ asked.dir \in Dirs /\ astray \in BOOLEAN
        /\ buffer \in Data /\ deleted \in BOOLEAN /\ sys.id \in 0 .. 5
    BY DEF SysInv, Typed, Questions
  <2>2. code \in {"none", "Success", "Generic_Error", "NotFound", "FileNotFound"} \cup Store!Errors
    BY DEF SysInv, Typed, Codes
  <2>3. rcx \in {"Success", "Generic_Error", "NotFound", "FileNotFound"} \cup Store!Errors
                 \cup {Garbage, "os_arch", "os_type"}
    BY DEF SysInv, Typed, Codes
  <2>4. Len(devices) <= 1
    <3>1. devices = <<>> \/ devices = <<TheDevice>>
      BY DEF SysInv, DriveTable
    <3>2. \A d : Len(<<d>>) = 1
      OBVIOUS
    <3>3. Len(<<>>) = 0
      OBVIOUS
    <3>4. Len(devices) = 0 \/ Len(devices) = 1
      BY <3>1, <3>2, <3>3, Zenon
    <3> DEFINE n == Len(devices)
    <3> HIDE DEF n
    <3>5. n \in {0, 1}
      BY <3>4, Zenon DEF n
    <3>6. n <= 1
      BY <3>5
    <3> QED
      BY <3>6, Zenon DEF n
  <2>5. Len(drives) <= Len(storage) /\ \A i \in DOMAIN drives : drives[i] \in Drives
    <3>1. drives \in Seq(Drives) /\ storage \in Seq(Addresses) /\ (Len(drives) = Len(storage) \/ Len(drives) = 0)
      BY DEF SysInv, Typed, DriveTable
    <3>2. Len(storage) \in Nat /\ \A i \in DOMAIN drives : drives[i] \in Drives
      <4>1. Len(storage) \in Nat
        BY <3>1
      <4>2. \A i \in DOMAIN drives : drives[i] \in Drives
        BY <3>1, SequenceFacts
      <4> QED
        BY <4>1, <4>2
    <3> QED
      BY <3>1, <3>2
  <2>6. TypeOK
    BY <2>1, <2>2, <2>4, <2>5, Zenon DEF TypeOK
  <2>7. busy => sys.open
    BY DEF SysInv, ServesCall
  <2> QED
    BY <2>1, <2>3, <2>6, <2>7, Zenon DEF AllTypeOK
<1> QED
  BY <1>1, AlwaysInv, PTL

\* Every path that carries the controller's model number, or the default name in
\* its place, reaches a drive and its device (retrieveDrive after AVFS::Init), for
\* every number of storage devices and every model number.
THEOREM NamesFindDrives == SysSpec => []NameFindsDrive
<1>1. SysInv => NameFindsDrive
  BY NamesFound DEF SysInv
<1> QED
  BY <1>1, AlwaysInv, PTL

\* mount marks a drive only over a formatted medium, and files only come to be on
\* one, for every sequence of calls.
THEOREM MountsAreFormatted == SysSpec => []MountedMeansFormatted
<1>1. SysInv => MountedMeansFormatted
  BY DEF SysInv
<1> QED
  BY <1>1, AlwaysInv, PTL

\* A call that says Success has done what it was asked for: mount and dismount in
\* rcx, and write as AVFS answers, with every byte of the buffer that is not zero up
\* to the length that the file was created with, for every buffer and every block
\* size.  For write that ends with the first call for which AbtrFS takes more blocks
\* for an old file or ignores a refused block.
THEOREM SuccessIsReal == SysSpec => []SuccessMeansDone
<1>1. SysInv => SuccessMeansDone
  <2> SUFFICES ASSUME SysInv PROVE SuccessMeansDone
    OBVIOUS
  <2>1. ASSUME NEW id \in 1 .. 5, Returned(id) PROVE Done(id)
    <3>1. sys.id = id /\ ~sys.open /\ Told = "Success" /\ sys.id # 0
      BY <2>1 DEF Returned, Told
    <3> QED
      BY <3>1 DEF SysInv, Answered
  <2>2. 1 \in 1 .. 5 /\ 4 \in 1 .. 5 /\ 5 \in 1 .. 5
    OBVIOUS
  <2> QED
    BY <2>1, <2>2, Zenon DEF SuccessMeansDone, Done
<1> QED
  BY <1>1, AlwaysInv, PTL

=============================================================================

------------------------------- MODULE MCIBus -------------------------------
(***************************************************************************)
(* Two buses with one slot of two functions, and a second segment with one *)
(* function.  Every choice of functions, of the first base address, and of *)
(* what firmware says in the MCFG table; fewer classes on the second bus.  *)
(***************************************************************************)
EXTENDS IBus, TLC

Classes == {<<1, 8, 2>>, <<1, 8, 1>>, <<1, 6, 1>>, <<12, 3, 48>>}

\* The base address is told apart by location; high is that of a 64-bit register.
Function(class, multi, l, bar) ==
    [o \in {0, 8, 12, 16, 20} |->
        CASE o = 0 -> "id" [] o = 8 -> class [] o = 12 -> multi
          [] o = 16 -> [address |-> Rank(l) + 1, wide |-> bar = "wide"]
          [] o = 20 -> 1]

Choices(l, bar) ==
    {Absent} \cup {Function(c, m, l, bar) :
        c \in IF l.bus = 0 THEN Classes ELSE {<<1, 8, 2>>, <<12, 3, 48>>},
        m \in IF l.func = 0 THEN BOOLEAN ELSE {FALSE}}

L(b, f) == [bus |-> b, slot |-> 0, func |-> f]
OtherKey == <<1, 0, 0, 0>>

Window(segment, start, end, base) ==
    [segment |-> segment, start |-> start, end |-> end, base |-> base * 2^20]
Other == Window(1, 0, 0, 1)
Table(sig, entries) == [sig |-> sig, entries |-> entries]

RSDTs == {
    <<>>,
    <<Absent, Table("FACP", <<>>), Table("MCFG", <<Window(0, 0, 1, 16)>>)>>,
    <<Table("MCFG", <<Other, Window(0, 1, 1, 17)>>)>>,
    <<Table("MCFG", <<Other, Window(2, 0, 1, 32), Window(0, 0, 1, 16)>>)>>}

\* With and without an NVMe function in segment 1.
MCHardware ==
    {[hw |-> Key(0, L(0, 0)) :> a @@ Key(0, L(0, 1)) :> b @@ Key(0, L(1, 0)) :> c
               @@ Key(0, L(1, 1)) :> d @@ OtherKey :> e,
      rsdt |-> t] :
        a \in Choices(L(0, 0), "wide"), b \in Choices(L(0, 1), "narrow"),
        c \in Choices(L(1, 0), "narrow"), d \in Choices(L(1, 1), "wide"),
        e \in {Absent, Function(<<1, 8, 2>>, FALSE, L(0, 0), "narrow")},
        t \in RSDTs}

=============================================================================

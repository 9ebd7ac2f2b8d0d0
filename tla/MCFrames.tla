------------------------------ MODULE MCFrames ------------------------------
(* Instances of Frames for TLC: families of programs. *)
EXTENDS Frames

One == <<"int", 1>>
Two == <<"int", 2>>
Zero == <<"int", 0>>
Nothing == <<"to", Two, One>>
EveryWrite(e) == <<"every", <<"write", e>>, Empty>>
Main(e) == [main |-> EveryWrite(e), proc |-> Empty]

-----------------------------------------------------------------------------
(* Control structures in each other's operands. *)
Ops == {"alt", "conj", "slist", "plus"}
Combined(A, B) ==
  {<<op, a, b>> : op \in Ops, a \in A, b \in B}
    \cup {<<"if", a, b, Empty>> : a \in A, b \in B}
    \cup {<<"every", a, b>> : a \in A, b \in B}
    \cup {<<"limit", a, b>> : a \in A, b \in {Zero, One, Two}}
    \cup {<<"not", a>> : a \in A}
Leaves0 == {<<"to", One, Two>>, <<"write", <<"int", 3>>>>, Nothing}
Leaves1 == Combined(Leaves0, Leaves0)
ControlPrograms ==
  {Main(e) : e \in Combined(Leaves1, Leaves0) \cup Combined(Leaves0, Leaves1)}

-----------------------------------------------------------------------------
(* Procedures that suspend, return or fail, and their callers. *)
Arg1 == <<"arg">>
OneTwo == <<"to", One, Two>>
Five == <<"int", 5>>
WriteArg == <<"write", Arg1>>
Call(e) == <<"call", e>>

Results ==
  { Arg1, OneTwo, Nothing, <<"alt", Arg1, Five>>, <<"plus", Arg1, OneTwo>>,
    <<"limit", <<"alt", WriteArg, Five>>, One>>,
    <<"conj", OneTwo, WriteArg>> }
Bodies ==
  {<<"suspend", r, Empty>> : r \in Results}
    \cup {<<"suspend", r, WriteArg>> : r \in Results}
    \cup {<<"return", r>> : r \in Results}
    \cup {<<"slist", <<"suspend", r, Empty>>, <<"return", Five>>>> : r \in Results}
    \cup {<<"every", r, <<"suspend", Five, Empty>>>> : r \in Results}
    \cup {<<"slist", <<"if", <<"numlt", Arg1, Two>>,
             <<"suspend", <<"alt", r, Call(<<"plus", Arg1, One>>)>>, Empty>>, Empty>>,
             <<"fail">>>> : r \in Results}
    \cup {<<"plus", Arg1, Arg1>>}
Callers ==
  { Call(One), Call(OneTwo), <<"alt", Call(One), Call(Two)>>,
    <<"plus", Call(One), Call(OneTwo)>>, <<"limit", Call(OneTwo), Two>>,
    <<"limit", <<"plus", Call(One), OneTwo>>, <<"int", 3>>>>,
    <<"conj", OneTwo, Call(Two)>>, <<"not", Call(One)>>, <<"to", One, Call(One)>>,
    <<"if", Call(One), Call(Two), Five>>, <<"every", Call(One), Call(Two)>>,
    <<"slist", Call(One), Call(Two)>>, Call(<<"alt", Call(One), Two>>),
    <<"case", Call(One), Call(OneTwo), Two, Five>> }
ProcedurePrograms ==
  {[main |-> EveryWrite(m), proc |-> b] : m \in Callers, b \in Bodies}

-----------------------------------------------------------------------------
(* String scanning, with procedures that suspend from within it. *)
Subj == <<"subject">>
Pos == <<"pos">>
MoveBy(e) == <<"move", e>>
Scan(n, e) == <<"scan", <<"int", n>>, e>>

ScanBodies0 == {MoveBy(One), MoveBy(OneTwo), Pos, Subj, Call(One)}
ScanBodies ==
  ScanBodies0
    \cup {<<op, a, b>> : op \in {"conj", "alt", "plus", "every"}, a \in ScanBodies0, b \in ScanBodies0}
    \cup {<<"limit", a, One>> : a \in ScanBodies0}
    \cup {<<"if", a, Pos, Subj>> : a \in ScanBodies0}
    \cup {Scan(1, a) : a \in ScanBodies0}
ScanProcs ==
  { <<"suspend", <<"alt", MoveBy(One), Pos>>, Empty>>,
    <<"suspend", Scan(2, <<"alt", MoveBy(One), Subj>>), Empty>>,
    Scan(2, <<"suspend", <<"alt", MoveBy(OneTwo), Subj>>, <<"write", Pos>>>>),
    Scan(2, <<"conj", MoveBy(One), <<"return", Pos>>>>),
    <<"scan", OneTwo, Scan(1, <<"suspend", MoveBy(One), Empty>>)>> }
Scanners(b) ==
  { <<"conj", Scan(3, b), <<"alt", Pos, Subj>>>>,
    Scan(3, Scan(2, b)),
    <<"limit", <<"scan", <<"to", One, <<"int", 3>>>>, b>>, Two>>,
    <<"slist", Scan(3, b), Pos>> }
ScanPrograms ==
  {[main |-> EveryWrite(m), proc |-> p] :
     m \in UNION {Scanners(b) : b \in ScanBodies}, p \in ScanProcs}

-----------------------------------------------------------------------------
(* Loops, left by break and next. *)
Exits == { <<"break", Empty>>, <<"break", <<"alt", One, Five>>>>, <<"break", Nothing>>,
           <<"next">>, One, Nothing, <<"fail">>, <<"return", OneTwo>> }
AtTwo(e) == <<"if", <<"numlt", One, Pos>>, e, Empty>>
LoopBodies ==
  UNION { {AtTwo(e), <<"slist", <<"write", Pos>>, AtTwo(e)>>,
           <<"plus", OneTwo, AtTwo(e)>>, <<"limit", AtTwo(e), One>>,
           <<"conj", <<"alt", One, Two>>, <<"not", AtTwo(e)>>>>,
           <<"case", Pos, Two, e, <<"write", Five>>>>,
           <<"case", Pos, <<"alt", One, e>>, Subj, <<"nodefault">>>>} : e \in Exits }
Loops(b) ==
  { <<"while", MoveBy(One), b>>, <<"while", <<"conj", MoveBy(One), b>>, Empty>>,
    <<"every", MoveBy(OneTwo), b>>,
    <<"every", OneTwo, <<"while", MoveBy(One), b>>>>,
    <<"while", MoveBy(One), <<"every", OneTwo, b>>>>,
    <<"until", <<"not", MoveBy(One)>>, b>>,
    <<"until", <<"alt", <<"not", MoveBy(One)>>, b>>, Empty>>,
    <<"repeat", <<"alt", <<"conj", MoveBy(One), b>>, <<"break", Empty>>>>>> }
LoopPrograms ==
  {[main |-> EveryWrite(m), proc |-> Scan(3, l)] :
     m \in {Call(One), <<"limit", <<"alt", Call(One), Five>>, Two>>},
     l \in UNION {Loops(b) : b \in LoopBodies}}
    \cup {Main(<<"alt", Scan(3, l), Five>>) : l \in UNION {Loops(b) : b \in LoopBodies}}
    \cup {Main(<<"limit", <<"bar", e>>, <<"int", 4>>>>) :
            e \in {OneTwo, <<"alt", Five, Nothing>>, Nothing,
                   <<"limit", OneTwo, One>>, <<"not", Nothing>>}}

AllPrograms == ControlPrograms \cup ProcedurePrograms \cup ScanPrograms \cup LoopPrograms
=============================================================================

------------------------------- MODULE Frames -------------------------------
(***************************************************************************)
(* The interpreter's stack and the control regime of interp.r: expression, *)
(* generator and procedure frames, suspension by copying a region of the   *)
(* stack, resumption, and C functions that suspend by calling interp anew; *)
(* with invoke.r, and limit, bscan and escan of imisc.r.                   *)
(*                                                                         *)
(* The program runs code that icont generates (Icode), and is to do what   *)
(* the evaluation of the source expressions does (Goal).  A cell of the    *)
(* stack is a descriptor or a frame marker; a pointer is the index of a    *)
(* cell.  A subject is represented by its length, and procedures, tracing, *)
(* dereferencing and interpretation of operands by their values only.      *)
(***************************************************************************)
EXTENDS Icode, FiniteSets

CONSTANTS
  Programs,  \* the programs that are run
  Fuel,      \* bound on the depth of the search that defines their meaning
  MaxOut     \* bound on what a program writes

ASSUME BoundsAssumption == Fuel \in Nat /\ MaxOut \in Nat

G == INSTANCE Goal

VARIABLES
  code,       \* the icode
  stack,      \* the interpreter stack up to rsp
  ipc,        \* index of the next instruction
  efp, gfp,   \* expression and generator frame pointers, 0 for null
  pfp,        \* procedure frame pointer
  glbl_argp,  \* the cell of the running procedure's Arg0
  csusp,      \* suspended C functions, each called from the interp before it
  failing,    \* control is at efail
  k_subject, k_pos,
  out,        \* what write has written
  halted,     \* Op_Quit
  meaning     \* for the properties only: what Goal makes of the program

registers == <<ipc, efp, gfp, pfp, glbl_argp>>
vars == <<code, stack, registers, csusp, failing, k_subject, k_pos, out, halted,
          meaning>>

\* A C function that suspends calls interp, which adds 1 to ilevel.
ilevel == Len(csusp) + 1

Val(v) == [c |-> "val", v |-> v]
IsVal(cell) == cell.c = "val"
Push(s, v) == Append(s, Val(v))
Upto(n) == SubSeq(stack, 1, n)
Top == Last(stack)
Ef == stack[efp]
Gf == stack[gfp]
Pf == stack[pfp]

EfMarker(failure) ==
  [c |-> "ef", failure |-> failure, efp |-> efp, gfp |-> gfp, ilevel |-> ilevel]
GfMarker(type, ef, gf, next) ==
  [c |-> "gf", type |-> type, efp |-> ef, gfp |-> gf, ipc |-> next,
   argp |-> glbl_argp, pfp |-> pfp]

Init ==
  \E prog \in Programs :
    LET m == G!Run(prog, Fuel) IN
    /\ m.sig # G!OutOfFuel
    /\ Len(m.world.out) <= MaxOut
    /\ meaning = [out |-> m.world.out, subject |-> m.world.subject, pos |-> m.world.pos]
    /\ code = CodeOf(prog)
    /\ stack = << [c |-> "ef", failure |-> 2, efp |-> 0, gfp |-> 0, ilevel |-> 1],
                  Val(0), Val(0) >>
    /\ ipc = 1 /\ efp = 1 /\ gfp = 0 /\ pfp = 0 /\ glbl_argp = 3
    /\ csusp = <<>>
    /\ failing = FALSE /\ halted = FALSE
    /\ k_subject = 0 /\ k_pos = 1
    /\ out = <<>>

-----------------------------------------------------------------------------
(* Suspension.                                                             *)

\* First cell after the marker of the enclosing generator or expression.
After(ef, gf) == (IF gf # 0 THEN gf ELSE ef) + 1

\* interp(G_Csusp, cargp), called by a C function whose stack is s.
SuspendC(s, arg, ef, gf, next) ==
  /\ stack' = Append(s, GfMarker("C", ef, gf, next)) \o SubSeq(s, After(ef, gf), arg)
  /\ gfp' = Len(s) + 1
  /\ efp' = ef
  /\ ipc' = next
  /\ failing' = FALSE

\* The scanning environment of w, a record with the stack in it, is exchanged
\* with the one that is saved at n.
Swapped(w, n) ==
  [w EXCEPT !.subject = w.stack[n].v, !.pos = w.stack[n + 1].v,
            !.stack[n].v = w.subject, !.stack[n + 1].v = w.pos]
World(s) == [stack |-> s, subject |-> k_subject, pos |-> k_pos]
Here == World(stack)

(* What bscan and escan do after interp has returned, unless it returned   *)
(* while another procedure was running.                                    *)
LeaveBscan_Always(f, w) ==
  [w EXCEPT !.subject = w.stack[f.arg + 1].v, !.pos = w.stack[f.arg + 2].v,
            !.stack[pfp].scan = IF @ = f.arg + 1 THEN 0 ELSE @]

LeaveBscan(f, w) ==
  IF pfp # f.pfp THEN w
  ELSE [w EXCEPT !.subject = w.stack[f.arg + 1].v, !.pos = w.stack[f.arg + 2].v,
                 !.stack[pfp].scan = IF @ = f.arg + 1 THEN 0 ELSE @]
LeaveEscan(f, w) ==
  IF pfp # f.pfp THEN w
  ELSE [Swapped(w, f.slot) EXCEPT !.stack[pfp].scan = IF @ = 0 THEN f.slot ELSE @]
LeaveC(f, w) ==
  CASE f.fn = "bscan" -> LeaveBscan(f, w)
    [] f.fn = "escan" -> LeaveEscan(f, w)
    [] OTHER -> w

\* Return from interp after interp, until the level is that of a frame.
Unwound(w, level) ==
  LET after[n \in level..ilevel] ==
        IF n = ilevel THEN w ELSE LeaveC(csusp[n], after[n + 1])
  IN after[level]

Unwind(w, level, n) ==
  LET u == Unwound(w, level) IN
  /\ stack' = SubSeq(u.stack, 1, n)
  /\ k_subject' = u.subject
  /\ k_pos' = u.pos
  /\ csusp' = SubSeq(csusp, 1, level - 1)

-----------------------------------------------------------------------------
At(op) == ~failing /\ ~halted /\ code[ipc].op = op
Opnd == code[ipc].opnd
Label == Target(code, code[ipc].lab)

Advance == ipc' = ipc + 1
Fail == failing' = TRUE /\ Advance
SameFrames == UNCHANGED <<efp, gfp, pfp, glbl_argp, csusp>>
SameScan == UNCHANGED <<k_subject, k_pos>>
Same == UNCHANGED <<code, meaning>>
SameOut == UNCHANGED <<out, halted>>

\* The instruction leaves s on the stack.
Leaves(s) ==
  stack' = s /\ Advance /\ SameFrames /\ SameScan /\ SameOut /\ Same
    /\ UNCHANGED failing

Lab == At("lab") /\ Leaves(stack)
IntLit == At("int") /\ Leaves(Push(stack, Opnd))
Var == At("var") /\ Leaves(Push(stack, 0))
Pnull == At("pnull") /\ Leaves(Push(stack, 0))
Pop == At("pop") /\ Leaves(Front(stack))
Arg == At("arg") /\ Leaves(Append(stack, stack[glbl_argp + 1]))
Keywd ==
  \/ At("subject") /\ Leaves(Push(stack, k_subject))
  \/ At("pos") /\ Leaves(Push(stack, k_pos))

\* A conditional operation with n operands above the cell of its result.
Outcome(ok, v, n) ==
  IF ok THEN Leaves(Push(Upto(Len(stack) - n - 1), v))
  ELSE Fail /\ SameFrames /\ SameScan /\ SameOut /\ Same /\ UNCHANGED stack

Plus == At("plus") /\ Outcome(TRUE, stack[Len(stack) - 1].v + Top.v, 2)
Numlt == At("numlt") /\ Outcome(stack[Len(stack) - 1].v < Top.v, Top.v, 2)
Eqv == At("eqv") /\ Outcome(stack[Len(stack) - 1].v = Top.v, Top.v, 2)

Mark ==
  /\ At("mark") \/ At("mark0")
  /\ stack' = Append(stack, EfMarker(IF At("mark0") THEN 0 ELSE Label))
  /\ efp' = Len(stack) + 1
  /\ gfp' = 0
  /\ Advance
  /\ SameScan /\ SameOut /\ Same /\ UNCHANGED <<pfp, glbl_argp, csusp, failing>>

Unmark_NoUnwind ==
  /\ At("unmark")
  /\ stack' = Upto(efp - 1)
  /\ gfp' = Ef.gfp
  /\ efp' = Ef.efp
  /\ Advance
  /\ SameScan /\ SameOut /\ Same /\ UNCHANGED <<pfp, glbl_argp, csusp, failing>>

Unmark ==
  /\ At("unmark")
  /\ Unwind(Here, Ef.ilevel, efp - 1)
  /\ gfp' = Ef.gfp
  /\ efp' = Ef.efp
  /\ Advance
  /\ SameOut /\ Same /\ UNCHANGED <<pfp, glbl_argp, failing>>

Esusp ==
  /\ At("esusp")
  /\ stack' = Append(stack, GfMarker("E", efp, gfp, ipc + 1))
                \o SubSeq(stack, After(Ef.efp, Ef.gfp), efp - 1) \o <<Top>>
  /\ gfp' = Len(stack) + 1
  /\ efp' = Ef.efp
  /\ Advance
  /\ SameScan /\ SameOut /\ Same /\ UNCHANGED <<pfp, glbl_argp, csusp, failing>>

Chfail ==
  /\ At("chfail")
  /\ stack' = [stack EXCEPT ![efp].failure = Label]
  /\ Advance
  /\ SameFrames /\ SameScan /\ SameOut /\ Same /\ UNCHANGED failing

\* A limit of 0 fails; any other is left below a new expression frame.
Limit ==
  /\ At("limit")
  /\ IF Top.v = 0
       THEN Fail /\ UNCHANGED <<stack, efp, gfp>>
       ELSE /\ stack' = Append(stack, EfMarker(0))
            /\ efp' = Len(stack) + 1
            /\ gfp' = 0
            /\ Advance /\ UNCHANGED failing
  /\ SameScan /\ SameOut /\ Same /\ UNCHANGED <<pfp, glbl_argp, csusp>>

\* The limit is in the cell below the expression frame.  The marker of a frame
\* without generators stays on the stack, although it is removed.
Lsusp ==
  /\ At("lsusp")
  /\ LET left == stack[efp - 1].v - 1
         s == [stack EXCEPT ![efp - 1].v = left]
     IN IF left > 0
          THEN /\ stack' = Front(s) \o SubSeq(s, After(Ef.efp, Ef.gfp), efp - 2) \o <<Top>>
               /\ gfp' = IF gfp = 0 THEN Ef.gfp ELSE gfp
               /\ UNCHANGED <<csusp, k_subject, k_pos>>
          ELSE /\ Unwind(World([stack EXCEPT ![efp - 1] = Top]), Ef.ilevel, efp - 1)
               /\ gfp' = Ef.gfp
  /\ efp' = Ef.efp
  /\ Advance
  /\ SameOut /\ Same /\ UNCHANGED <<pfp, glbl_argp, failing>>

Eret ==
  /\ At("eret")
  /\ LET u == Unwound(Here, Ef.ilevel) IN
       /\ stack' = Append(SubSeq(u.stack, 1, efp - 1), Top)
       /\ k_subject' = u.subject
       /\ k_pos' = u.pos
  /\ csusp' = SubSeq(csusp, 1, Ef.ilevel - 1)
  /\ gfp' = Ef.gfp
  /\ efp' = Ef.efp
  /\ Advance
  /\ SameOut /\ Same /\ UNCHANGED <<pfp, glbl_argp, failing>>

\* The control expression's value is below the frame of the clause.
Ccase == At("ccase") /\ Leaves(Append(Push(stack, 0), stack[efp - 1]))

Goto ==
  /\ At("goto")
  /\ ipc' = Label
  /\ SameFrames /\ SameScan /\ SameOut /\ Same /\ UNCHANGED <<stack, failing>>

-----------------------------------------------------------------------------
(* Procedures.                                                             *)

Invoke ==
  /\ At("invoke")
  /\ stack' = Append(stack, [c |-> "pf", nargs |-> 1, argp |-> glbl_argp, pfp |-> pfp,
                             ilevel |-> ilevel, scan |-> 0, ipc |-> ipc + 1,
                             gfp |-> gfp, efp |-> efp])
  /\ glbl_argp' = Len(stack) - 1
  /\ pfp' = Len(stack) + 1
  /\ ipc' = Label
  /\ efp' = 0
  /\ gfp' = 0
  /\ SameScan /\ SameOut /\ Same /\ UNCHANGED <<csusp, failing>>

\* Back to the caller of the running procedure.
ToCaller ==
  /\ efp' = Pf.efp
  /\ ipc' = Pf.ipc
  /\ glbl_argp' = Pf.argp
  /\ pfp' = Pf.pfp

Psusp ==
  /\ At("psusp")
  /\ LET s == Append(stack, GfMarker("P", efp, gfp, ipc + 1))
                \o SubSeq(stack, After(Pf.efp, Pf.gfp), glbl_argp - 1) \o <<Top>>
         w == IF Pf.scan = 0 THEN World(s) ELSE Swapped(World(s), Pf.scan)
     IN stack' = w.stack /\ k_subject' = w.subject /\ k_pos' = w.pos
  /\ gfp' = Len(stack) + 1
  /\ ToCaller
  /\ SameOut /\ Same /\ UNCHANGED <<csusp, failing>>

Pret ==
  /\ At("pret")
  /\ Unwind(World([stack EXCEPT ![glbl_argp] = Top]), Pf.ilevel, glbl_argp)
  /\ gfp' = Pf.gfp
  /\ ToCaller
  /\ SameOut /\ Same /\ UNCHANGED failing

Pfail ==
  /\ At("pfail")
  /\ Unwind(Here, Pf.ilevel, Len(stack))
  /\ gfp' = Pf.gfp
  /\ ToCaller
  /\ failing' = TRUE
  /\ SameOut /\ Same

-----------------------------------------------------------------------------
(* Operations in C.  Of those that suspend, f.arg is the cell of Arg0.     *)

Write ==
  /\ At("write")
  /\ Len(out) < MaxOut
  /\ out' = Append(out, Top.v)
  /\ stack' = Append(Upto(Len(stack) - 2), Top)
  /\ Advance
  /\ SameFrames /\ SameScan /\ Same /\ UNCHANGED <<failing, halted>>

Toby ==
  /\ At("toby")
  /\ LET arg == Len(stack) - 3
         from == stack[arg + 1].v
     IN IF from <= stack[arg + 2].v
          THEN /\ SuspendC([stack EXCEPT ![arg].v = from], arg, efp, gfp, ipc + 1)
               /\ csusp' = Append(csusp, [fn |-> "toby", arg |-> arg, from |-> from, pfp |-> pfp])
          ELSE Fail /\ UNCHANGED <<stack, efp, gfp, csusp>>
  /\ SameScan /\ SameOut /\ Same /\ UNCHANGED <<pfp, glbl_argp>>

Move ==
  /\ At("move")
  /\ LET arg == Len(stack) - 1
         i == Top.v
     IN IF k_pos + i \in 1..(k_subject + 1)
          THEN /\ k_pos' = k_pos + i
               /\ SuspendC([stack EXCEPT ![arg].v = i], arg, efp, gfp, ipc + 1)
               /\ csusp' = Append(csusp, [fn |-> "move", arg |-> arg, oldpos |-> k_pos, pfp |-> pfp])
          ELSE Fail /\ UNCHANGED <<k_pos, stack, efp, gfp, csusp>>
  /\ SameOut /\ Same /\ UNCHANGED <<k_subject, pfp, glbl_argp>>

Bscan ==
  /\ At("bscan")
  /\ LET arg == Len(stack)
         s == Push(Push(stack, k_subject), k_pos)
         t == [s EXCEPT ![pfp].scan = IF @ = 0 THEN arg + 1 ELSE @, ![arg].v = arg + 1]
     IN /\ SuspendC(t, arg, efp, gfp, ipc + 1)
        /\ csusp' = Append(csusp, [fn |-> "bscan", arg |-> arg, pfp |-> pfp])
  /\ k_subject' = Top.v
  /\ k_pos' = 1
  /\ SameOut /\ Same /\ UNCHANGED <<pfp, glbl_argp>>

Escan ==
  /\ At("escan")
  /\ LET arg == Len(stack) - 1
         slot == stack[arg].v
         w == Swapped(World([stack EXCEPT ![arg] = Top, ![arg + 1] = stack[arg]]), slot)
         t == [w.stack EXCEPT ![pfp].scan = IF @ = slot THEN 0 ELSE @]
     IN /\ SuspendC(t, arg, efp, gfp, ipc + 1)
        /\ k_subject' = w.subject
        /\ k_pos' = w.pos
        /\ csusp' = Append(csusp, [fn |-> "escan", arg |-> arg, slot |-> slot, pfp |-> pfp])
  /\ SameOut /\ Same /\ UNCHANGED <<pfp, glbl_argp>>

-----------------------------------------------------------------------------
(* Failure.                                                                *)

Efail ==
  /\ At("efail")
  /\ Fail
  /\ SameFrames /\ SameScan /\ SameOut /\ Same /\ UNCHANGED stack

\* No generator is left in the expression frame: it is removed.
FailFrame ==
  /\ failing /\ gfp = 0
  /\ ipc' = Ef.failure
  /\ gfp' = Ef.gfp
  /\ efp' = Ef.efp
  /\ stack' = Upto(efp - 1)
  /\ failing' = (Ef.failure = 0)
  /\ SameScan /\ SameOut /\ Same /\ UNCHANGED <<pfp, glbl_argp, csusp>>

ResumeE ==
  /\ failing /\ gfp # 0 /\ Gf.type = "E"
  /\ ipc' = Gf.ipc
  /\ efp' = Gf.efp
  /\ gfp' = Gf.gfp
  /\ stack' = Upto(gfp - 1)
  /\ SameScan /\ SameOut /\ Same /\ UNCHANGED <<pfp, glbl_argp, csusp, failing>>

ResumeP ==
  /\ failing /\ gfp # 0 /\ Gf.type = "P"
  /\ LET scan == stack[Gf.pfp].scan
         w == IF scan = 0 THEN World(Upto(gfp - 1)) ELSE Swapped(World(Upto(gfp - 1)), scan)
     IN stack' = w.stack /\ k_subject' = w.subject /\ k_pos' = w.pos
  /\ ipc' = Gf.ipc
  /\ efp' = Gf.efp
  /\ gfp' = Gf.gfp
  /\ glbl_argp' = Gf.argp
  /\ pfp' = Gf.pfp
  /\ failing' = FALSE
  /\ SameOut /\ Same /\ UNCHANGED csusp

\* The C function goes on after its call of interp: it suspends again, or
\* undoes what it has done and fails.
ResumeC ==
  /\ failing /\ gfp # 0 /\ Gf.type = "C"
  /\ LET f == Last(csusp)
         s == Upto(gfp - 1)
         w == LeaveC(f, World(s))
     IN IF f.fn = "toby" /\ f.from < s[f.arg + 2].v
          THEN /\ SuspendC([s EXCEPT ![f.arg].v = f.from + 1], f.arg,
                           Gf.efp, Gf.gfp, Gf.ipc)
               /\ csusp' = Append(Front(csusp), [f EXCEPT !.from = @ + 1])
               /\ SameScan
          ELSE /\ stack' = w.stack
               /\ efp' = Gf.efp
               /\ gfp' = Gf.gfp
               /\ ipc' = Gf.ipc
               /\ csusp' = Front(csusp)
               /\ k_subject' = w.subject
               /\ k_pos' = IF f.fn = "move" THEN f.oldpos ELSE w.pos
               /\ UNCHANGED failing
  /\ SameOut /\ Same /\ UNCHANGED <<pfp, glbl_argp>>

Quit ==
  /\ At("quit")
  /\ halted' = TRUE
  /\ UNCHANGED <<code, stack, registers, csusp, failing, k_subject, k_pos, out, meaning>>

Halted == halted /\ UNCHANGED vars

Next ==
  \/ Lab \/ IntLit \/ Var \/ Pnull \/ Pop \/ Arg \/ Keywd
  \/ Plus \/ Numlt \/ Eqv
  \/ Mark \/ Unmark \/ Esusp \/ Chfail \/ Limit \/ Lsusp \/ Eret \/ Ccase \/ Goto
  \/ Invoke \/ Psusp \/ Pret \/ Pfail
  \/ Write \/ Toby \/ Move \/ Bscan \/ Escan
  \/ Efail \/ FailFrame \/ ResumeE \/ ResumeP \/ ResumeC
  \/ Quit \/ Halted

Spec == Init /\ [][Next]_vars

\* The interpreter loop never waits.
FairSpec == Spec /\ WF_vars(Next)

-----------------------------------------------------------------------------
(* What the garbage collector sees of the stack: sweep_stk goes down from  *)
(* rsp and takes a cell for a marker if one of the pointers that it has    *)
(* followed leads there, and for a descriptor otherwise.                   *)

\* w: the cell, the three pointers, arguments to come, descriptors so far.
SweepStep(w) ==
  CASE w.s = w.fp ->
         LET m == stack[w.s] IN
         [w EXCEPT !.efp = m.efp, !.gfp = m.gfp, !.nargs = m.nargs, !.fp = m.pfp]
    [] w.s # w.fp /\ w.s = w.gfp ->
         LET m == stack[w.s] IN
         [w EXCEPT !.fp = IF m.type = "P" THEN m.pfp ELSE @,
                   !.efp = m.efp, !.gfp = m.gfp, !.nargs = 1]
    [] w.s \notin {w.fp, w.gfp} /\ w.s = w.efp ->
         [w EXCEPT !.gfp = stack[w.s].gfp, !.efp = stack[w.s].efp]
    [] OTHER ->
         [w EXCEPT !.found = @ \cup {w.s}, !.nargs = IF @ = 0 THEN 0 ELSE @ - 1]

Sweep ==
  LET at[n \in 0..Len(stack)] ==
        IF n = Len(stack)
          THEN [s |-> n, fp |-> pfp, gfp |-> gfp, efp |-> efp, nargs |-> 0, found |-> {}]
          ELSE LET w == at[n + 1] IN
               IF w.fp = 0 /\ w.nargs = 0 THEN w
               ELSE [SweepStep(w) EXCEPT !.s = n]
  IN at[0]

Descriptors == Sweep.found

\* What a limited expression may leave: it passes for a null string.
Dead(i) == stack[i].c = "ef" /\ stack[i].failure = 0

-----------------------------------------------------------------------------
(* Every variable keeps its type; &pos is a position of &subject, also after a *)
(* move that was resumed has restored it.                                      *)
TypeOK ==
  /\ \A i \in 1..Len(stack) : stack[i].c \in {"val", "ef", "gf", "pf"}
  /\ ipc \in 0..Len(code)
  /\ efp # 0 => stack[efp].c = "ef"
  /\ gfp # 0 => stack[gfp].c = "gf"
  /\ pfp # 0 => stack[pfp].c = "pf"
  /\ pfp # 0 => glbl_argp \in 1..(pfp - 2)
  /\ failing \in BOOLEAN /\ halted \in BOOLEAN
  /\ k_pos \in 1..(k_subject + 1)
  /\ \A i \in 1..Len(csusp) : csusp[i].arg \in 1..Len(stack) /\ csusp[i].pfp \in 1..Len(stack)

(* However the code generated for an expression marks, suspends, copies,   *)
(* resumes and unwinds, the program writes what the evaluation of the      *)
(* source writes, and leaves &subject and &pos as it does.                 *)
Agrees ==
  /\ IsPrefix(out, meaning.out)
  /\ halted => /\ out = meaning.out
               /\ k_subject = meaning.subject
               /\ k_pos = meaning.pos

(* A frame that is removed takes the C functions above it with it: whenever *)
(* an instruction starts, a live marker has the level of interp that its    *)
(* place in the stack calls for, and every suspended C function has its     *)
(* generator frame.                                                         *)
LevelsAgree ==
  LET found == Descriptors
      markers == {i \in 1..Len(stack) : ~IsVal(stack[i]) /\ i \notin found}
      cs == {i \in markers : stack[i].c = "gf" /\ stack[i].type = "C"}
  IN ~failing =>
       /\ Cardinality(cs) = Len(csusp)
       /\ \A i \in markers :
            stack[i].c \in {"ef", "pf"} =>
              stack[i].ilevel = 1 + Cardinality({j \in cs : j < i})

(* "The sp starts at the first frame, and then is moved down through the    *)
(* stack ... if it can't be identified it's a descriptor": whenever an      *)
(* instruction starts, which may collect garbage, sweep_stk sees every      *)
(* descriptor above main's own, and takes nothing else for one.             *)
SweepExact ==
  LET found == Descriptors IN
  ~failing =>
    /\ \A i \in found : IsVal(stack[i]) \/ Dead(i)
    /\ pfp # 0 => {i \in 3..Len(stack) : IsVal(stack[i])} \subseteq found

(* "interp: termination with inactive generators" never happens. *)
QuitClean == halted => csusp = <<>>

(* The frames as the instructions that remove them, and the collector that  *)
(* looks for descriptors between them, suppose them.                        *)
FramesSound == TypeOK /\ LevelsAgree /\ QuitClean /\ SweepExact

(* A program whose evaluation ends reaches Op_Quit. *)
Ends == <>halted
=============================================================================

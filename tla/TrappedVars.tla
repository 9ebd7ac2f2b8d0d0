---------------------------- MODULE TrappedVars ----------------------------
(***************************************************************************)
(* Assignment and exchange, and their reversible forms (oasgn.r), of       *)
(* variables of every kind: plain ones, &subject and &pos, elements of a   *)
(* table, and substrings of these (sect of oref.r, deref and cvpos of      *)
(* cnv.r).                                                                 *)
(*                                                                         *)
(* A substring is a trapped variable: a block with a variable, a position  *)
(* and a length, which assignments to it change.  A table element is one   *)
(* too; its block is made by each subscript anew.  A program evaluates     *)
(* operands, applies operators to them, and resumes the reversible ones    *)
(* that it has left suspended, last one first.  Characters are digits, so  *)
(* that strings convert to integers and back.  A run-time error ends the   *)
(* program.                                                                *)
(***************************************************************************)
EXTENDS Integers, SequencesExt

CONSTANTS
    Name,       \* plain variables
    Scene,      \* the sets of places that a program may use
    Start,      \* the strings that it begins with
    Literal,    \* the values that it assigns
    Block,      \* the trapped variables that there may be at a time
    MaxLen,     \* bound: the length of a string
    MaxDepth,   \* bound: operations that are suspended
    MaxOps      \* bound: operations that are performed, but for resuming

Digits == 0 .. 9

VARIABLES
    places,     \* what the program assigns to
    w,          \* the values of variables, and the trapped variables
    held,       \* a variable that has been evaluated as a left operand
    suspended,  \* the reversible operations that may be resumed
    did,        \* the last operation, for the properties only
    ops
vars == <<places, w, held, suspended, did, ops>>

Free == [type |-> "free"]
Nothing == [kind |-> "nothing"]
Absent == [type |-> "absent"]

String(s) == [type |-> "string", s |-> s]
Integer(n) == [type |-> "integer", n |-> n]
IsString(v) == v.type = "string"
Default == String(<<>>)

Plain(n) == [kind |-> "plain", name |-> n]
Subject == [kind |-> "kywdsubj"]
Pos == [kind |-> "kywdpos"]
Tvtbl(b) == [kind |-> "tvtbl", block |-> b]
Tvsubs(b) == [kind |-> "tvsubs", block |-> b]

(* Conversions.  A single digit is enough for every position.              *)
CnvString(v) == IF IsString(v) THEN v.s ELSE <<v.n>>
CanInteger(v) == IsString(v) => v.s # <<>>
CnvInteger(v) == IF IsString(v) THEN FoldLeft(LAMBDA n, c : 10 * n + c, 0, v.s) ELSE v.n

CvtFail == -1
cvpos(p, len) ==
    CASE p < -len \/ p > len + 1 -> CvtFail
      [] p > 0 /\ p <= len + 1 -> p
      [] OTHER -> len + p + 1
-----------------------------------------------------------------------------
(* Values of variables.                                                    *)

ValueOf(x, r) ==
    CASE r.kind = "plain" -> x.var[r.name]
      [] r.kind = "kywdsubj" -> String(x.subject)
      [] r.kind = "kywdpos" -> Integer(x.pos)
      [] r.kind = "tvtbl" -> IF x.elem = Absent THEN Default ELSE x.elem

(* A substring may no longer be there: errors 103 and 205.                 *)
CanDeref(x, r) ==
    r.kind = "tvsubs" =>
        LET bp == x.block[r.block]
            v == ValueOf(x, bp.ssvar)
        IN  IsString(v) /\ bp.sspos + bp.sslen - 1 <= Len(v.s)

deref(x, r) ==
    IF r.kind # "tvsubs" THEN ValueOf(x, r)
    ELSE LET bp == x.block[r.block]
         IN  String(SubSeq(ValueOf(x, bp.ssvar).s, bp.sspos, bp.sspos + bp.sslen - 1))

(* Results: the world, and what becomes of the operation.  An operation is *)
(* wild if it goes on, or leaves its result, outside of a string.          *)
Ok(x) == [w |-> x, signal |-> "ok"]
Fail(x) == [w |-> x, signal |-> "fail"]
Error(x) == [w |-> x, signal |-> "error"]
Wild(x) == [w |-> x, signal |-> "wild"]

Assign(x, r, v) ==
    CASE r.kind = "plain" -> Ok([x EXCEPT !.var[r.name] = v])
      [] r.kind = "tvtbl" -> Ok([x EXCEPT !.elem = v])
      [] r.kind = "kywdsubj" -> Ok([x EXCEPT !.subject = CnvString(v), !.pos = 1])
      [] r.kind = "kywdpos" ->
             IF ~CanInteger(v) THEN Error(x)
             ELSE LET i == cvpos(CnvInteger(v), Len(x.subject))
                  IN  IF i = CvtFail THEN Fail(x) ELSE Ok([x EXCEPT !.pos = i])

(* Slip: the trapped variable keeps its old length.                        *)
subs_asgn_OldLength(x, r, v) ==
    LET bp == x.block[r.block]
        src == CnvString(v)
        dest == ValueOf(x, bp.ssvar).s
        rslt == SubSeq(dest, 1, bp.sspos - 1) \o src
                    \o SubSeq(dest, bp.sspos + bp.sslen, Len(dest))
    IN  IF ~CanDeref(x, r) THEN Error(x) ELSE Assign(x, bp.ssvar, String(rslt))

(* The string is made anew, and the trapped variable takes the new length. *)
subs_asgn(x, r, v) ==
    LET bp == x.block[r.block]
        src == CnvString(v)
        dest == ValueOf(x, bp.ssvar).s
        rslt == SubSeq(dest, 1, bp.sspos - 1) \o src
                    \o SubSeq(dest, bp.sspos + bp.sslen, Len(dest))
    IN  IF ~CanDeref(x, r) THEN Error(x)
        ELSE Ok([Assign(x, bp.ssvar, String(rslt)).w EXCEPT !.block[r.block].sslen = Len(src)])

GeneralAsgn(x, r, v) == IF r.kind = "tvsubs" THEN subs_asgn(x, r, v) ELSE Assign(x, r, v)

Moved(x, r, n) == IF n = 0 THEN x ELSE [x EXCEPT !.block[r.block].sspos = @ + n]
Inside(x, r) == r.kind = "tvsubs" => x.block[r.block].sspos >= 1

(* How much two substrings of one variable shift each other.  Of a table   *)
(* element, each substring has another variable.                           *)
Shift(x, a, b) ==
    LET bx == x.block[a.block]
        by == x.block[b.block]
    IN  IF /\ a.kind = "tvsubs" /\ b.kind = "tvsubs"
           /\ bx.ssvar = by.ssvar /\ bx.sspos > by.sspos
        THEN bx.sslen - by.sslen ELSE 0

(* a := va and then b := vb, each of which may move the other.             *)
Both(x, a, va, b, vb, shiftB, shiftA) ==
    LET first == GeneralAsgn(x, a, va)
        between == Moved(first.w, b, shiftB)
        second == GeneralAsgn(between, b, vb)
        end == Moved(second.w, a, shiftA)
    IN  CASE first.signal # "ok" -> first
          [] first.signal = "ok" /\ ~Inside(between, b) -> Wild(between)
          [] first.signal = "ok" /\ Inside(between, b) /\ second.signal # "ok" -> second
          [] OTHER -> IF Inside(end, a) THEN Ok(end) ELSE Wild(end)
-----------------------------------------------------------------------------
(* Operands.                                                               *)

(* Blocks that nothing refers to are free again.                           *)
BlocksOf(x, r) ==
    IF r = Nothing \/ r.kind \notin {"tvsubs", "tvtbl"} THEN {}
    ELSE {r.block} \cup (IF r.kind = "tvsubs" /\ x.block[r.block].ssvar.kind = "tvtbl"
                         THEN {x.block[r.block].ssvar.block} ELSE {})
Collected(x, refs) ==
    LET live == UNION {BlocksOf(x, r) : r \in refs}
    IN  [x EXCEPT !.block = [b \in Block |-> IF b \in live THEN x.block[b] ELSE Free]]
InUse(h, s) == {h} \cup UNION {{s[i].x, s[i].y} : i \in DOMAIN s}

NewBlock(x) == CHOOSE b \in Block : x.block[b] = Free
Made(x, r) == [w |-> x, ref |-> r]

(* A variable is named; a table is subscripted.                            *)
Simple(x, p) ==
    CASE p = "subject" -> Made(x, Subject)
      [] p = "pos" -> Made(x, Pos)
      [] p = "elem" -> LET b == NewBlock(x)
                       IN  Made([x EXCEPT !.block[b] = [type |-> "tvtbl"]], Tvtbl(b))
      [] OTHER -> Made(x, Plain(p))

(* r[i +: n], of a variable that has a string for its value.               *)
sect(x, r, i, n) ==
    LET b == NewBlock(x)
        of == IF r.kind = "tvsubs"
              THEN [type |-> "tvsubs", ssvar |-> x.block[r.block].ssvar,
                    sspos |-> i + x.block[r.block].sspos - 1, sslen |-> n]
              ELSE [type |-> "tvsubs", ssvar |-> r, sspos |-> i, sslen |-> n]
    IN  Made([x EXCEPT !.block[b] = of], Tvsubs(b))

Sections(m) ==
    IF ~CanDeref(m.w, m.ref) \/ ~IsString(deref(m.w, m.ref)) THEN {}
    ELSE LET len == Len(deref(m.w, m.ref).s)
         IN  {sect(m.w, m.ref, i, n) : <<i, n>> \in
                  {p \in (1 .. len + 1) \X (0 .. len) : p[1] + p[2] <= len + 1}}

Named(x) == {Simple(x, p) : p \in places}
Operands(x) == Named(x) \cup UNION {Sections(m) : m \in Named(x)}

(* The left operand may have been evaluated before, or be the result of    *)
(* an operation.                                                           *)
Lefts == IF held = Nothing THEN Operands(w)
         ELSE {Made(w, held)} \cup Sections(Made(w, held))
-----------------------------------------------------------------------------
(* What a reference is to, without the trapped variables.                  *)
Values(x) == [var |-> x.var, subject |-> x.subject, pos |-> x.pos, elem |-> x.elem]
BaseOf(r) == CASE r.kind = "plain" -> r.name
               [] r.kind = "kywdsubj" -> "subject"
               [] r.kind = "kywdpos" -> "pos"
               [] r.kind = "tvtbl" -> "elem"
Denotes(x, r) ==
    IF r.kind = "tvsubs"
    THEN LET bp == x.block[r.block]
         IN  [base |-> BaseOf(bp.ssvar), part |-> TRUE, from |-> bp.sspos, len |-> bp.sslen]
    ELSE [base |-> BaseOf(r), part |-> FALSE, from |-> 1, len |-> 0]
Did(op, x, l, r, dx, dy, signal) ==
    IF signal \in {"error", "wild"} THEN [op |-> op, signal |-> signal]
    ELSE [op |-> op, signal |-> signal, before |-> Values(x),
          left |-> Denotes(x, l), right |-> Denotes(x, r), dx |-> dx, dy |-> dy]

Short(x) == /\ \A n \in Name : Len(CnvString(x.var[n])) <= MaxLen
            /\ Len(x.subject) <= MaxLen
            /\ x.elem # Absent => Len(CnvString(x.elem)) <= MaxLen

Working == did.signal \in {"ok", "fail"}
Running == Working /\ ops < MaxOps

(* The operation ends: with its left operand for its result, if it does    *)
(* not fail, and suspended if it is reversible.  The variable may be an    *)
(* operand of the next operation, if there is to be one.                   *)
Ends(res, l, s, d) ==
    LET h == IF res.signal = "ok" THEN l ELSE Nothing
        ss == IF res.signal = "ok" THEN s ELSE suspended
    IN  /\ Short(res.w)
        /\ \E keep \in IF ops + 1 < MaxOps THEN {h, Nothing} ELSE {Nothing} :
               /\ held' = keep
               /\ w' = Collected(res.w, InUse(keep, ss))
        /\ suspended' = ss
        /\ did' = d
        /\ ops' = ops + 1
        /\ UNCHANGED places

Found(x, l, r) ==
    [values |-> Values(x), left |-> Denotes(x, l), right |-> Denotes(x, IF r = Nothing THEN l ELSE r)]
Push(x, l, r, dx, dy, adj1, adj2, after) ==
    Append(suspended, [x |-> l, y |-> r, dx |-> dx, dy |-> dy, adj1 |-> adj1, adj2 |-> adj2,
                       before |-> Found(x, l, r), after |-> Found(after, l, r)])

-----------------------------------------------------------------------------
Init ==
    /\ places \in Scene
    /\ \E s \in Start :
           w = [var |-> [n \in Name |-> String(s)], subject |-> s, pos |-> 2,
                elem |-> Absent, block |-> [b \in Block |-> Free]]
    /\ held = Nothing
    /\ suspended = <<>>
    /\ did = [op |-> "operand", signal |-> "ok"]
    /\ ops = 0

(* The left operand is evaluated, and then the right one, which may have   *)
(* effects, before the operator is applied.                                *)
EvaluateLeft ==
    /\ Running
    /\ held = Nothing
    /\ \E m \in Operands(w) : held' = m.ref /\ w' = m.w
    /\ did' = [op |-> "operand", signal |-> "ok"]
    /\ UNCHANGED <<places, suspended, ops>>

Asgn ==
    /\ Running
    /\ \E m \in Lefts, y \in Literal :
           LET res == GeneralAsgn(m.w, m.ref, y)
           IN  Ends(res, m.ref, suspended,
                    Did(":=", m.w, m.ref, m.ref, y, y, res.signal))

Rasgn ==
    /\ Running
    /\ Len(suspended) < MaxDepth
    /\ \E m \in Lefts, y \in Literal :
           LET saved_x == deref(m.w, m.ref)
               res == IF CanDeref(m.w, m.ref) THEN GeneralAsgn(m.w, m.ref, y) ELSE Error(m.w)
           IN  Ends(res, m.ref, Push(m.w, m.ref, Nothing, saved_x, y, 0, 0, res.w),
                    Did("<-", m.w, m.ref, m.ref, y, y, res.signal))

Exchanged(op, m, r, reversible) ==
    LET x == m.ref
        y == r.ref
        dx == deref(r.w, x)
        dy == deref(r.w, y)
        adj1 == Shift(r.w, x, y)
        adj2 == Shift(r.w, y, x)
        res == IF CanDeref(r.w, x) /\ CanDeref(r.w, y)
               THEN Both(r.w, x, dy, y, dx, adj2, adj1) ELSE Error(r.w)
    IN  Ends(res, x,
             IF reversible THEN Push(r.w, x, y, dx, dy, adj1, adj2, res.w) ELSE suspended,
             Did(op, r.w, x, y, dx, dy, res.signal))

Swap ==
    /\ Running
    /\ \E m \in Lefts : \E r \in Operands(m.w) : Exchanged(":=:", m, r, FALSE)

Rswap ==
    /\ Running
    /\ Len(suspended) < MaxDepth
    /\ \E m \in Lefts : \E r \in Operands(m.w) : Exchanged("<->", m, r, TRUE)

(* The last operation that is suspended is resumed: it is undone, and      *)
(* fails.                                                                  *)
Resume ==
    /\ Working
    /\ suspended # <<>>
    /\ LET s == Last(suspended)
           res == IF s.y = Nothing THEN GeneralAsgn(w, s.x, s.dx)
                  ELSE Both(w, s.x, s.dx, s.y, s.dy, -s.adj2, -s.adj1)
       IN  /\ w' = Collected(res.w, InUse(Nothing, Front(suspended)))
           /\ did' = [op |-> "resume", signal |-> res.signal,
                      before |-> Found(w, s.x, s.y), undone |-> s]
    /\ held' = Nothing
    /\ suspended' = Front(suspended)
    /\ UNCHANGED <<places, ops>>

Next == EvaluateLeft \/ Asgn \/ Rasgn \/ Swap \/ Rswap \/ Resume

Spec == Init /\ [][Next]_vars
-----------------------------------------------------------------------------
(* Properties.                                                             *)

(* What assignment to a place is, v being a string if the place is part of *)
(* a string or &subject, and an integer if it is &pos.                     *)
Old(x, b) ==
    CASE b = "subject" -> String(x.subject)
      [] b = "pos" -> Integer(x.pos)
      [] b = "elem" -> IF x.elem = Absent THEN Default ELSE x.elem
      [] OTHER -> x.var[b]
Put(x, b, v) ==
    CASE b = "subject" -> [x EXCEPT !.subject = CnvString(v), !.pos = 1]
      [] b = "pos" -> [x EXCEPT !.pos = cvpos(CnvInteger(v), Len(x.subject))]
      [] b = "elem" -> [x EXCEPT !.elem = v]
      [] OTHER -> [x EXCEPT !.var[b] = v]
Before(s, p) == SubSeq(s, 1, p.from - 1)
Beyond(s, p) == SubSeq(s, p.from + p.len, Len(s))
Stored(x, p, v) ==
    LET s == Old(x, p.base).s
    IN  Put(x, p.base, IF p.part THEN String(Before(s, p) \o CnvString(v) \o Beyond(s, p)) ELSE v)

(* Two places that do not overlap, and of which one may change without the *)
(* other.                                                                  *)
Apart(p, q) == p.base = q.base /\ p.part /\ q.part /\ p.from + p.len <= q.from
Independent(p, q) == p.base # q.base /\ {p.base, q.base} # {"subject", "pos"}

(* Both at once.                                                           *)
StoredApart(x, p, v, q, u) ==
    LET s == Old(x, p.base).s
        between == SubSeq(s, p.from + p.len, q.from - 1)
    IN  Put(x, p.base, String(Before(s, p) \o CnvString(v) \o between
                                  \o CnvString(u) \o Beyond(s, q)))

Succeeded(names) == did.op \in names /\ did.signal = "ok"

(* An assignment changes what its left operand denotes, and nothing else;  *)
(* an exchange is two assignments at once, of each value to the place of   *)
(* the other, also if both are parts of one string, of different lengths.  *)
(* Parts of a table element are left out: see ExchangesElements.           *)
StoresAtOnce ==
    LET p == did.left
        q == did.right
    IN  /\ Succeeded({":=", "<-"}) => Values(w) = Stored(did.before, p, did.dx)
        /\ Succeeded({":=:", "<->"}) =>
               /\ Independent(p, q) =>
                      Values(w) = Stored(Stored(did.before, p, did.dy), q, did.dx)
               /\ Apart(p, q) /\ p.base # "elem" =>
                      Values(w) = StoredApart(did.before, p, did.dy, q, did.dx)
               /\ Apart(q, p) /\ p.base # "elem" =>
                      Values(w) = StoredApart(did.before, q, did.dx, p, did.dy)

(* The description of <- and <->: "Reverses assignment if resumed".  If    *)
(* neither the values nor the operands have changed since it, everything is as *)
(* it was before, but for &pos if &subject was assigned to, and but for an *)
(* element, which stays in the table with the default value.  Left out is  *)
(* the exchange of operands that overlap or are parts of one element.      *)
Reset(x) == [x EXCEPT !.pos = 0, !.elem = IF @ = Absent THEN Default ELSE @]
Separate(p, q) == \/ Independent(p, q)
                  \/ p.base # "elem" /\ (Apart(p, q) \/ Apart(q, p))
Reverses ==
    did.op = "resume" =>
        LET s == did.undone
            was == s.before
            SubjectAssigned == "subject" \in {was.left.base, was.right.base}
            ElementAssigned == "elem" \in {was.left.base, was.right.base}
        IN  /\ s.after = did.before
            /\ s.y = Nothing \/ Separate(was.left, was.right)
            => /\ did.signal = "ok"
               /\ Values(w) = was.values
                  \/ /\ SubjectAssigned \/ ElementAssigned
                     /\ Reset(Values(w)) = Reset(was.values)
                     /\ ~SubjectAssigned => w.pos = was.values.pos

(* What assignments do, and undo.                                          *)
AssignsRightly == StoresAtOnce /\ Reverses

(* The same without exceptions, which does not hold.                       *)
ReversesAll ==
    did.op = "resume" =>
        (did.undone.after = did.before => Values(w) = did.undone.before.values)

(* oasgn.r finds out whether "x and y are both substrings of the same      *)
(* string", and shifts one if they are; of an element it does not.         *)
ExchangesElements ==
    LET p == did.left
        q == did.right
    IN  Succeeded({":=:", "<->"}) /\ Apart(p, q) =>
            Values(w) = StoredApart(did.before, p, did.dy, q, did.dx)

(* "swap values of x and y": an exchange that fails has not done half of   *)
(* it.                                                                     *)
AllOrNothing ==
    did.op \in {":=:", "<->"} /\ did.signal = "fail" => Values(w) = did.before

(* oasgn.r takes it that one operand "is to the right of" the other: a     *)
(* position does not leave the string.                                     *)
NeverWild == did.signal # "wild"
=============================================================================

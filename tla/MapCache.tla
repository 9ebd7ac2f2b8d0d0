------------------------------ MODULE MapCache ------------------------------
(***************************************************************************)
(* What the function map keeps from one call to the next (fstr.r): its     *)
(* second and third arguments, and the table made from them.  A call with  *)
(* the same two descriptors uses the table again.  Descriptors are         *)
(* compared, not strings, so it matters that the collector relocates the   *)
(* kept ones with all the others (rmemmgt.r).                              *)
(***************************************************************************)
EXTENDS Integers, Sequences, FiniteSets

CONSTANTS
  Var,      \* the program's variables
  MaxSpace  \* bound on the number of strings of the string region

\* What is assumed of them.
MapAssumption == MaxSpace \in Nat

\* A string is a sequence of characters.  Of the strings outside the region,
\* &ucase and &lcase stand at locations of their own.
Letter == {"A", "a"}
MaxText == 2
Text == UNION {[1..n -> Letter] : n \in 0..MaxText}

D_Null == -1
D_List == -2
Desc(d, v) == [dword |-> d, vword |-> v]
nulldesc == Desc(D_Null, 0)
list == Desc(D_List, 0)
ucase == Desc(1, -1)
lcase == Desc(1, -2)

VARIABLES
  space,        \* the strings of the region, in the order of their locations
  value,        \* value[v]: the descriptor that the variable v holds
  maps2, maps3, \* the arguments of the last call that did not find its own
  maptab,
  outcome,      \* "result" or "error" of the last call, "" before it and after
                \* any other step
  args,         \* history: the arguments of the last call
  refused       \* history: the call that stored maps2 and maps3 was an error

mapVars == <<space, value, maps2, maps3, maptab, outcome, args, refused>>

TextOf(d) == IF d = ucase THEN <<"A">> ELSE IF d = lcase THEN <<"a">>
             ELSE space[d.vword]

MapInit ==
  /\ space = <<>>
  /\ value = [v \in Var |-> nulldesc]
  /\ maps2 = nulldesc /\ maps3 = nulldesc
  /\ maptab = [c \in Letter |-> ""]
  /\ outcome = "" /\ args = <<nulldesc, nulldesc>> /\ refused = FALSE

-----------------------------------------------------------------------------
(* The program and the collector.                                          *)
(* A definition named X_Slip is X as a plausible mistake in the code would *)
(* make it.  MapNext does not use it: it shows which property would     *)
(* notice.                                                                 *)

Quiet == outcome' = "" /\ args' = <<nulldesc, nulldesc>>

New(v, t) ==
  /\ Len(space) < MaxSpace
  /\ space' = Append(space, t)
  /\ value' = [value EXCEPT ![v] = Desc(Len(t), Len(space) + 1)]
  /\ Quiet
  /\ UNCHANGED <<maps2, maps3, maptab, refused>>

Assign(v, d) ==
  /\ value' = [value EXCEPT ![v] = d]
  /\ Quiet
  /\ UNCHANGED <<space, maps2, maps3, maptab, refused>>

Kept_Variables == {value[v] : v \in Var}
Kept == {value[v] : v \in Var} \cup {maps2, maps3}

\* The strings that somebody still refers to move down, and every descriptor
\* of one is relocated.
Collect ==
  LET live == {i \in DOMAIN space : \E d \in Kept : d.dword >= 0 /\ d.vword = i}
      moved(d) == IF d.dword >= 0 /\ d.vword \in live
                    THEN Desc(d.dword, Cardinality({i \in live : i <= d.vword}))
                    ELSE d
      at(i) == CHOOSE j \in live : Cardinality({k \in live : k <= j}) = i
  IN /\ space' = [i \in 1..Cardinality(live) |-> space[at(i)]]
     /\ value' = [v \in Var |-> IF value[v] \in Kept THEN moved(value[v]) ELSE value[v]]
     /\ maps2' = IF maps2 \in Kept THEN moved(maps2) ELSE maps2
     /\ maps3' = IF maps3 \in Kept THEN moved(maps3) ELSE maps3
     /\ Quiet
     /\ UNCHANGED <<maptab, refused>>

-----------------------------------------------------------------------------
(* map.                                                                    *)

Defaulted(d, default) == IF d = nulldesc THEN default ELSE d

\* Strings of one length: no error 103 and no error 208.
Maps(d2, d3) == d2.dword >= 0 /\ d3.dword >= 0 /\ d2.dword = d3.dword

\* The last of the characters of t2 that are c decides.
Table(t2, t3) ==
  [c \in Letter |->
     LET at == {i \in DOMAIN t2 : t2[i] = c}
     IN IF at = {} THEN c ELSE t3[CHOOSE i \in at : \A j \in at : j <= i]]

EqlDesc(d, e) == d.dword = e.dword /\ d.vword = e.vword

map(v2, v3) ==
  LET s2 == Defaulted(value[v2], ucase)
      s3 == Defaulted(value[v3], lcase)
  IN /\ args' = <<s2, s3>>
     /\ IF EqlDesc(maps2, s2) /\ EqlDesc(maps3, s3)
          THEN /\ outcome' = "result"
               /\ UNCHANGED <<maps2, maps3, maptab, refused>>
          ELSE /\ maps2' = s2 /\ maps3' = s3
               /\ refused' = ~Maps(s2, s3)
               /\ outcome' = IF Maps(s2, s3) THEN "result" ELSE "error"
               /\ maptab' = IF Maps(s2, s3) THEN Table(TextOf(s2), TextOf(s3)) ELSE maptab
     /\ UNCHANGED <<space, value>>

MapNext ==
  \/ \E v \in Var, t \in Text : New(v, t)
  \/ \E v \in Var, d \in {nulldesc, list} \cup {value[w] : w \in Var} : Assign(v, d)
  \/ Collect
  \/ \E v2, v3 \in Var : map(v2, v3)

MapSpec == MapInit /\ [][MapNext]_mapVars
-----------------------------------------------------------------------------
(* Properties.                                                             *)

Descriptors ==
  {d \in [dword : D_List..MaxText, vword : -2..Len(space)] :
     \/ d \in {nulldesc, list, ucase, lcase}
     \/ d.dword >= 0 /\ d.vword \in DOMAIN space}

MapTypeOK ==
  /\ space \in Seq(Text) /\ Len(space) <= MaxSpace
  /\ \A d \in {value[v] : v \in Var} \cup {maps2, maps3} :
       d \in Descriptors /\ (d.dword >= 0 => Len(TextOf(d)) = d.dword)
  /\ maptab \in [Letter -> Letter \cup {""}]
  /\ outcome \in {"", "result", "error"} /\ refused \in BOOLEAN

\* "If s2 and s3 are the same as for the last call of map, the current values
\* in maptab can be used."  A call that gives a result maps by its own
\* arguments.
MapsByArguments ==
  outcome = "result" =>
    /\ Maps(args[1], args[2])
    /\ maptab = Table(TextOf(args[1]), TextOf(args[2]))

\* It does so in particular whenever the arguments that are kept were accepted:
\* whatever strings have come, gone and moved since then, a table that is used
\* again was made from the strings of this call.
KeptTableRight == refused \/ MapsByArguments
=============================================================================

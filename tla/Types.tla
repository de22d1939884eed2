-------------------------------- MODULE Types --------------------------------
(***************************************************************************)
(* Types and the constraint table of type inference (compiler/type.cpp).   *)
(*                                                                         *)
(* A type is [k, id, args]: its kind, what tells types of that kind apart  *)
(* (the number of an Unknown, whether a Function takes varargs, which      *)
(* struct or generic an Instance names) and its components (the fields of  *)
(* a Tuple, the element of an Array or Pointer, the parameters and then    *)
(* the result of a Function, the arguments of an Instance).  Every         *)
(* traversal in type.cpp treats the components of all kinds alike.         *)
(*                                                                         *)
(* TypeConstraints::data is a function from the numbers of Unknowns.       *)
(***************************************************************************)
EXTENDS Naturals, Sequences, TLC

Ty(kind, id, args) == [k |-> kind, id |-> id, args |-> args]

Unknown(i)  == Ty("unknown", i, <<>>)
Void        == Ty("void", 0, <<>>)
Bool        == Ty("bool", 0, <<>>)
Integer     == Ty("integer", 0, <<>>)
Tuple(ts)   == Ty("tuple", 0, ts)
Array(t)    == Ty("array", 0, <<t>>)
Pointer(t)  == Ty("pointer", 0, <<t>>)
Function(ps, ret) == Ty("function", 0, Append(ps, ret))
VarargFunction(ps, ret) == Ty("function", 1, Append(ps, ret))
Struct(def, ts) == Ty("struct", def, ts)     \* Instance with a def
Generic(g)  == Ty("generic", g, <<>>)        \* Instance with a generic

Params(fnty) == SubSeq(fnty.args, 1, Len(fnty.args) - 1)
Result(fnty) == fnty.args[Len(fnty.args)]
IsUnknown(t) == t.k = "unknown"

RECURSIVE typeOccurs(_, _)
typeOccurs(t, u) == t = u \/ \E i \in DOMAIN t.args : typeOccurs(t.args[i], u)

RECURSIVE typeKnown(_)
typeKnown(t) == ~IsUnknown(t) /\ \A i \in DOMAIN t.args : typeKnown(t.args[i])

\* typeUnify without constraints: two different Unknowns count as equal.
RECURSIVE typeEquals(_, _)
typeEquals(l, r) ==
    /\ l.k = r.k
    /\ IsUnknown(l) \/ ( /\ l.id = r.id
                         /\ Len(l.args) = Len(r.args)
                         /\ \A i \in DOMAIN l.args : typeEquals(l.args[i], r.args[i]))

-----------------------------------------------------------------------------
(* TypeConstraints.  Adding returns whether it succeeded and the table. *)

Outcome(ok, con) == [ok |-> ok, con |-> con]
Bind(con, u, t) == Outcome(TRUE, u.id :> t @@ con)

tryAdd(con, l, r) ==
    IF IsUnknown(l) /\ IsUnknown(r)
    THEN LET hasL == l.id \in DOMAIN con
             hasR == r.id \in DOMAIN con
         IN  CASE ~hasL /\ ~hasR                   -> Bind(con, l, r)
               [] ~hasL /\ hasR /\ con[r.id] # l   -> Bind(con, l, con[r.id])
               [] hasL /\ ~hasR /\ con[l.id] # r   -> Bind(con, r, con[l.id])
               [] OTHER                            -> Outcome(FALSE, con)
    ELSE LET u == IF IsUnknown(l) THEN l ELSE r
             t == IF IsUnknown(l) THEN r ELSE l
         IN  CASE u.id \in DOMAIN con -> Outcome(typeEquals(con[u.id], t), con)
               [] u.id \notin DOMAIN con /\ ~typeOccurs(t, u) -> Bind(con, u, t)
               [] OTHER -> Outcome(FALSE, con)

\* Components are unified in order up to the first that fails; what was added
\* before stays.
RECURSIVE typeUnify(_, _, _), UnifyFrom(_, _, _, _)
typeUnify(con, l, r) ==
    IF l = r THEN Outcome(TRUE, con)
    ELSE IF IsUnknown(l) \/ IsUnknown(r) THEN tryAdd(con, l, r)
    ELSE IF l.k # r.k \/ l.id # r.id \/ Len(l.args) # Len(r.args) THEN Outcome(FALSE, con)
    ELSE UnifyFrom(con, l.args, r.args, 1)
UnifyFrom(con, ls, rs, i) ==
    IF i > Len(ls) THEN Outcome(TRUE, con)
    ELSE LET o == typeUnify(con, ls[i], rs[i])
         IN  IF o.ok THEN UnifyFrom(o.con, ls, rs, i + 1) ELSE o

\* rewrite replaces an Unknown once and then goes into the components of what
\* it got; an Unknown that replaced another is not looked up again.
RECURSIVE rewrite(_, _)
rewrite(con, t) ==
    LET s == IF IsUnknown(t) /\ t.id \in DOMAIN con THEN con[t.id] ELSE t
    IN  [s EXCEPT !.args = [i \in DOMAIN s.args |-> rewrite(con, s.args[i])]]

\* Whether rewrite counts a replacement in t.
RECURSIVE Rewrites(_, _)
Rewrites(con, t) == \/ IsUnknown(t) /\ t.id \in DOMAIN con
                    \/ \E i \in DOMAIN t.args : Rewrites(con, t.args[i])

\* Whether rewrite of t never returns: it meets an Unknown inside what that
\* Unknown was replaced by.
RECURSIVE Diverges(_, _, _)
Diverges(con, t, seen) ==
    IF IsUnknown(t)
    THEN /\ t.id \in DOMAIN con
         /\ \/ t.id \in seen
            \/ \E i \in DOMAIN con[t.id].args :
                  Diverges(con, con[t.id].args[i], seen \cup {t.id})
    ELSE \E i \in DOMAIN t.args : Diverges(con, t.args[i], seen)

-----------------------------------------------------------------------------
(* Generics and members.  defs[d] is [generics, fields]; a field is        *)
(* [name, type, init], init saying whether it has a default.               *)

\* generics[i] is replaced by args[i]; other types stay.
RECURSIVE typeInstantiate(_, _, _)
typeInstantiate(t, generics, args) ==
    IF t.k = "generic"
    THEN IF \E i \in DOMAIN generics : generics[i] = t.id
         THEN args[CHOOSE i \in DOMAIN generics : generics[i] = t.id]
         ELSE t
    ELSE [t EXCEPT !.args = [i \in DOMAIN t.args |-> typeInstantiate(t.args[i], generics, args)]]

typeMember(defs, t, index) ==
    IF t.k = "tuple" THEN t.args[index + 1]
    ELSE typeInstantiate(defs[t.id].fields[index + 1].type, defs[t.id].generics, t.args)

\* The tuple field names are _0, _1, ...; strtoll takes the bare "_" for 0.
TupleField == ("_" :> 0) @@ ("_0" :> 0) @@ ("_1" :> 1) @@ ("_2" :> 2)

\* findMember: the first field of the name, or -1 (here 99).
NoMember == 99
findMember(defs, t, name) ==
    LET named == IF t.k = "struct" THEN {i \in DOMAIN defs[t.id].fields :
                                              defs[t.id].fields[i].name = name}
                 ELSE {}
    IN  IF named # {} THEN (CHOOSE i \in named : \A j \in named : i <= j) - 1
        ELSE IF t.k = "tuple" /\ name \in DOMAIN TupleField /\ TupleField[name] < Len(t.args)
        THEN TupleField[name]
        ELSE NoMember
=============================================================================

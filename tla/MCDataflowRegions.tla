--------------------------- MODULE MCDataflowRegions ---------------------------
(* Plans for DataflowRegions *)
EXTENDS DataflowRegions

Ins(kind, ret, args, column) == [kind |-> kind, ret |-> ret, args |-> args, column |-> column]
Op(kind, ret, args) == Ins(kind, ret, args, 0)

\* Instruction k assigns variable k or one of those before it.  Variable 1 comes from
\* outside of all regions but the first.
Top == Op("effects", 1, <<>>)
Bottom == Op("end", 6, <<>>)

\* Results made from one or two variables, and updates of one, with another or without,
\* whose result has the updated one's name or a new one.
Computes(k) == {Op("plain", r, <<v>>) : r \in 1 .. k, v \in 1 .. k - 1}
               \cup {Op("plain", r, <<v, w>>) : r \in 1 .. k, v \in 1 .. k - 1, w \in 1 .. k - 1}
Updates(k) ==
    UNION {{Op("update", r, <<v>>), Op("update", r, <<v, w>>)}
           : <<v, w, r>> \in {t \in (1 .. k - 1) \X (1 .. k - 1) \X (1 .. k) :
                                t[1] # t[2] /\ t[3] \in {t[1], k}}}
Flat(k) == Computes(k) \cup Updates(k)

\* The other kinds, with the first variable or the latest one.
Mixed(k) == {Op(kind, k, <<v>>) : kind \in {"plain", "calc", "multiplex", "effects"}, v \in {1, k - 1}}
            \cup {Ins("column", k, <<1>>, c) : c \in {1, 2}}
            \cup {Op("barrier", k, <<>>), Op("exit", k, <<>>)}

\* Two arguments in one order only, nothing used before it is assigned, and every
\* barrier block closed.
Given(p, k, v) == \E h \in 1 .. k - 1 : p[h].ret = v
Valid(p) ==
    /\ \A k \in 2 .. 5 : /\ \A v \in Range(p[k].args) : Given(p, k, v)
                         /\ p[k].kind = "plain" /\ Len(p[k].args) = 2
                               => p[k].args[1] <= p[k].args[2]
    /\ \A k \in 2 .. 5 : Open(p, k) >= 0
    /\ Open(p, 5) = 0

Plan(Q(_)) == {p \in {Top} \X Q(2) \X Q(3) \X Q(4) \X Q(5) \X {Bottom} : Valid(p)}
MCPlans == {p \in Plan(Flat) \cup Plan(Mixed) : OwnResults(p) /\ UpdatesApart(p)}
MCVars == 1 .. 6
================================================================================

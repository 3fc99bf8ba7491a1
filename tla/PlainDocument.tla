---------------------------- MODULE PlainDocument ---------------------------
(***************************************************************************)
(* What a document promises to be: a dict of values, dicts and lists of    *)
(* dicts, edited by the calls Python's dict and list have, whatever its    *)
(* text looks like.  Sections, inline tables and dotted keys are all       *)
(* dicts here; lines, headers and placeholders do not exist.               *)
(***************************************************************************)
EXTENDS PlainNodes

CONSTANTS Key, Values, Bodies   \* as in SectionLayout

VARIABLES
  data,          \* key |-> node, for the keys present
  call           \* the last call, with its arguments

plainVars == <<data, call>>

-----------------------------------------------------------------------------
(* A route, a sequence of steps, leads to a dict.                          *)

RECURSIVE Look(_, _)
Look(map, route) ==
  IF route = <<>> THEN map
  ELSE LET n == map[route[1].key]
       IN  Look(IF n.form = "dict" THEN n.map ELSE n.seq[route[1].at], Tail(route))

RECURSIVE Replace(_, _, _)
Replace(map, route, new) ==
  IF route = <<>> THEN new
  ELSE LET k == route[1].key
           i == route[1].at
       IN  [map EXCEPT ![k] =
              IF i = 0 THEN Dict(Replace(map[k].map, Tail(route), new))
                       ELSE List([@.seq EXCEPT ![i] = Replace(@, Tail(route), new)])]

RECURSIVE Routes(_)
Routes(map) ==
  {<<>>} \cup UNION
    {LET n == map[k]
     IN  IF n.form = "dict" THEN {<<Step(k, 0)>> \o r : r \in Routes(n.map)}
         ELSE IF n.form = "list"
           THEN UNION {{<<Step(k, i)>> \o r : r \in Routes(n.seq[i])} : i \in DOMAIN n.seq}
         ELSE {} : k \in DOMAIN map}

-----------------------------------------------------------------------------
(* The calls.  `name`, the route of the container called and the arguments *)
(* are recorded, so that an implementation must have the effect of the     *)
(* call it received and not of some other.                                 *)

Called(name, route, args) == call' = [name |-> name, route |-> route, args |-> args]

(* A call on the dict at a route leaves everything else as it was. *)
Becomes(route, map) == data' = Replace(data, route, map)

SetItem ==
  \E r \in Routes(data), k \in Key, x \in Values :
    /\ Called("set", r, <<k, x>>)
    /\ Becomes(r, Put(Look(data, r), k, NodeOf(x)))

DelItem ==
  \E r \in Routes(data) : \E k \in DOMAIN Look(data, r) :
    Called("delete", r, <<k>>) /\ Becomes(r, Without(Look(data, r), {k}))

Clear ==
  \E r \in Routes(data) : Called("clear", r, <<>>) /\ Becomes(r, EmptyMap)

(* ensure_table((j, k)): make whatever is missing. *)
EnsureTable ==
  \E r \in Routes(data), j, k \in Key :
    LET map == Look(data, r)
        sub == IF j \in DOMAIN map THEN map[j].map ELSE EmptyMap
    IN  /\ j \in DOMAIN map => map[j].form = "dict"
        /\ k \notin DOMAIN sub
        /\ Called("ensure", r, <<j, k>>)
        /\ Becomes(r, Put(map, j, Dict(Put(sub, k, Dict(EmptyMap)))))

Install ==
  \E r \in Routes(data), j, k \in Key, x \in Values :
    /\ j \notin DOMAIN Look(data, r)
    /\ Called("install", r, <<j, k, x>>)
    /\ Becomes(r, Put(Look(data, r), j, Dict(Put(EmptyMap, k, NodeOf(x)))))

(* Dict order carries no data. *)
Sort == \E r \in Routes(data) : Called("sort", r, <<>>) /\ UNCHANGED data

Lists(map) == {k \in DOMAIN map : map[k].form = "list"}

InsertEntry ==
  \E r \in Routes(data), body \in Bodies : \E k \in Lists(Look(data, r)) :
    LET map == Look(data, r)
    IN  \E i \in 0..Len(map[k].seq) :
          /\ Called("insert", r, <<k, i, body>>)
          /\ Becomes(r, Put(map, k, List(InsertAt(map[k].seq, i + 1, MapOf(body)))))

RemoveEntry ==
  \E r \in Routes(data) : \E k \in Lists(Look(data, r)) :
    LET map == Look(data, r)
        seq == map[k].seq
    IN  \E I \in SUBSET DOMAIN seq :
          LET rest == SelectSeq([i \in DOMAIN seq |-> i], LAMBDA i : i \notin I)
          IN  /\ Called("remove", r, <<k, I>>)
              /\ Becomes(r, Put(map, k, List([i \in DOMAIN rest |-> seq[rest[i]]])))

AssignEntry ==
  \E r \in Routes(data) : \E k \in Lists(Look(data, r)) :
    LET map == Look(data, r)
        seq == map[k].seq
    IN  \E i \in 0..Len(seq) : \E n \in 0..(Len(seq) - i), m \in 0..2 :
        \E bodies \in [1..m -> Bodies] :
          /\ Called("assign", r, <<k, i, n, bodies>>)
          /\ Becomes(r, Put(map, k, List(SubSeq(seq, 1, i)
                                           \o [j \in 1..m |-> MapOf(bodies[j])]
                                           \o SubSeq(seq, i + n + 1, Len(seq)))))

ReorderEntries ==
  \E r \in Routes(data) : \E k \in Lists(Look(data, r)) :
    LET map == Look(data, r)
        I   == DOMAIN map[k].seq
    IN  \E order \in {p \in [I -> I] : IsInjective(p)} :
          /\ Called("reorder", r, <<k, order>>)
          /\ Becomes(r, Put(map, k, List([i \in I |-> map[k].seq[order[i]]])))

Init == call = [name |-> "parse", route |-> <<>>, args |-> <<>>]

Next ==
  \/ SetItem \/ DelItem \/ Clear \/ EnsureTable \/ Install \/ Sort
  \/ InsertEntry \/ RemoveEntry \/ AssignEntry \/ ReorderEntries

Spec == Init /\ [][Next]_plainVars
=============================================================================

-------------------------------- MODULE Map ----------------------------------
(***************************************************************************)
(* What the hash table promises: a map from keys to values that answers    *)
(* one request at a time.                                                  *)
(***************************************************************************)
EXTENDS FiniteSets

CONSTANTS Keys, Values, Null

VARIABLES
  map,   \* the value of each key, Null for none
  req,   \* the request in progress, or Null
  ret    \* the last answer

mapVars == <<map, req, ret>>

Requests == [op : {"put"}, key : Keys, val : Values]
       \cup [op : {"get", "remove"}, key : Keys]
       \cup [op : {"iterate", "clear", "destroy"}]

Present == {k \in Keys : map[k] # Null}

Call == req = Null /\ req' \in Requests /\ UNCHANGED <<map, ret>>

Update(m) == map' = m /\ req' = Null

Put ==
  /\ req.op = "put"
  /\ Update([map EXCEPT ![req.key] = req.val])
  /\ ret' = map[req.key]

Get == req.op = "get" /\ Update(map) /\ ret' = map[req.key]

Remove ==
  /\ req.op = "remove"
  /\ Update([map EXCEPT ![req.key] = Null])
  /\ ret' = map[req.key]

\* Every key once.
Iterate ==
  /\ req.op = "iterate"
  /\ Update(map)
  /\ ret' = [steps |-> Cardinality(Present), keys |-> Present]

Clear ==
  /\ req.op \in {"clear", "destroy"}
  /\ Update([k \in Keys |-> Null])
  /\ UNCHANGED ret

MapInit == map = [k \in Keys |-> Null] /\ req = Null /\ ret = Null

MapNext == Call \/ (req # Null /\ (Put \/ Get \/ Remove \/ Iterate \/ Clear))

MapSpec == MapInit /\ [][MapNext]_mapVars

==============================================================================

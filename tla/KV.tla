--------------------------------- MODULE KV ---------------------------------
(***************************************************************************)
(* The key-value state machine: internal/statemachine/kv.go.               *)
(*                                                                         *)
(* Strings are numbers, ordered as Go orders strings.  Json maps a string  *)
(* to the one that comes back from a JSON document: itself, unless it is   *)
(* not valid UTF-8.                                                        *)
(***************************************************************************)
EXTENDS Naturals

CONSTANT Json(_)

NewKV == [data |-> <<>>, applied |-> 0]

\* Parsed commands.  What has too few words or another verb is a bad command:
\* Apply returns an error and leaves the machine alone, LastApplied included.
Set(k, v)  == [verb |-> "set", key |-> k, value |-> v]
Delete(k)  == [verb |-> "delete", key |-> k]
BadCommand == [verb |-> "bad"]

Apply(kv, index, c) ==
    CASE c.verb = "set" ->
            [data    |-> [k \in DOMAIN kv.data \cup {c.key} |->
                            IF k = c.key THEN c.value ELSE kv.data[k]],
             applied |-> index]
      [] c.verb = "delete" ->
            [data    |-> [k \in DOMAIN kv.data \ {c.key} |-> kv.data[k]],
             applied |-> index]
      [] OTHER -> kv

\* json.Marshal writes the keys in order; of keys that read back as the same
\* string the last one wins.
Written(kv, j) == {k \in DOMAIN kv.data : Json(k) = j}

Snapshot(kv) ==
    [j \in {Json(k) : k \in DOMAIN kv.data} |->
        Json(kv.data[CHOOSE k \in Written(kv, j) : \A i \in Written(kv, j) : i <= k])]

\* Mutant: the snapshot is unmarshalled into the map that is there.
RestoreInto(kv, data) ==
    [kv EXCEPT !.data = [k \in DOMAIN @ \cup DOMAIN data |->
                            IF k \in DOMAIN data THEN data[k] ELSE @[k]]]

\* Restore replaces the map and does not touch applied.
Restore(kv, data) == [kv EXCEPT !.data = data]

\* Mutant: only the map is emptied.
ClearKeepsApplied(kv) == [kv EXCEPT !.data = <<>>]

Clear(kv) == [kv EXCEPT !.data = <<>>, !.applied = 0]

\* Get, Keys and Len depend on the map alone.
Queries(kv) == kv.data

LastApplied(kv) == kv.applied

=============================================================================

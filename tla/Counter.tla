------------------------------ MODULE Counter ------------------------------
(***************************************************************************)
(* The counter state machine: internal/statemachine/counter.go.            *)
(***************************************************************************)
EXTENDS Integers

CONSTANT Half       \* int64 runs from -Half to Half - 1; Half is 2^63

\* Two's complement addition wraps around.
Int64(x) == ((x + Half) % (2 * Half)) - Half

NewCounter == [value |-> 0, applied |-> 0]

\* Parsed commands.  A bare "incr" is an increment by 1.  An empty or unknown
\* command, or a number that is not an int64, is an error and changes nothing.
Incr(n)    == [verb |-> "incr", delta |-> n]
ResetTo0   == [verb |-> "reset"]
BadCommand == [verb |-> "bad"]

Apply(c, index, cmd) ==
    CASE cmd.verb = "incr"  -> [value |-> Int64(c.value + cmd.delta), applied |-> index]
      [] cmd.verb = "reset" -> [value |-> 0, applied |-> index]
      [] OTHER              -> c

\* The value as a uint64.
Snapshot(c) == c.value % (2 * Half)

\* Mutant: the value of the snapshot is added.
RestoreAdds(c, data) == [c EXCEPT !.value = Int64(@ + data)]

\* Restore converts back to an int64 and does not touch applied.
Restore(c, data) == [c EXCEPT !.value = Int64(data)]

Value(c) == c.value

LastApplied(c) == c.applied

=============================================================================

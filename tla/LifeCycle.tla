----------------------------- MODULE LifeCycle -----------------------------
(***************************************************************************)
(* What a caller of cedar::da may rely on from construction to clear: the  *)
(* phase its object is in, the kind of the last call and how it ended.     *)
(*   ready    every call works                                             *)
(*   loaded   open read a file: lookups, enumeration and save work and     *)
(*            leave it so, an update makes it ready, an erase of a key     *)
(*            faults                                                       *)
(*   bare     clear(False) left no arrays                                  *)
(*   unsound  an allocation was refused half way, or a read fell short     *)
(* The kinds are update, erase (of a key that is there), find (and the     *)
(* erase of a key that is not), begin, save (dumps), open (load, loads)    *)
(* and clear.                                                              *)
(***************************************************************************)
VARIABLES phase, result, call

Init == phase = "ready" /\ result = "ok" /\ call = "clear"

Ordinary == {"update", "erase", "find", "begin", "save"}

Ends(kinds, r, phases) == call' \in kinds /\ result' = r /\ phase' \in phases

Works ==
    /\ phase = "ready"
    /\ \/ Ends(Ordinary, "ok", {"ready"})
       \/ Ends({"update", "save"}, "MemoryError", {"ready", "unsound"})

Wakes ==
    /\ phase = "loaded"
    /\ \/ Ends({"find", "begin", "save"}, "ok", {"loaded"})
       \/ Ends({"update"}, "ok", {"ready"})
       \/ Ends({"update", "begin", "save"}, "MemoryError", {"loaded", "ready", "unsound"})
       \/ Ends({"erase"}, "fault", {"fault"})

Gropes ==
    /\ phase \in {"bare", "unsound"}
    /\ \/ Ends(Ordinary, "ok", {"bare", "unsound", "ready", "loaded"})
       \/ Ends(Ordinary, "MemoryError", {"bare", "unsound", "ready", "loaded"})
       \/ Ends(Ordinary, "fault", {"fault"})

\* open and loads: what is not an image is refused before anything changes.
\* Out of memory they may end in any phase, and not in an empty trie that is
\* ready, as README.md:470 has it: TrieImage!FailedLoadEmpties is violated.
Loads ==
    /\ phase # "fault"
    /\ \/ Ends({"open"}, "ok", {"loaded", "ready"})
       \/ Ends({"open"}, "refused", {phase, "unsound"})
       \/ Ends({"open"}, "MemoryError", {"ready", "loaded", "bare", "unsound"})

Clears ==
    /\ phase # "fault"
    /\ \/ Ends({"clear"}, "ok", {"ready", "bare"})
       \/ Ends({"clear"}, "MemoryError", {"bare", "unsound"})

Next == Works \/ Wakes \/ Gropes \/ Loads \/ Clears

Spec == Init /\ [][Next]_<<phase, result, call>>
=============================================================================

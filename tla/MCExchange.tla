------------------------------ MODULE MCExchange ------------------------------
(***************************************************************************)
(* An instance of Exchange for TLC.                                        *)
(***************************************************************************)
EXTENDS Exchange, TLC

AllValid == { [k \in Key |-> "valid"] }

AllButOne(type) == { [k \in Key |-> IF k = l THEN type ELSE "valid"] : l \in Key }

Pairs(schemes, offsets, eventTypes) ==
    [scheme : schemes, offset : offsets, eventType : eventTypes]

\* Two ticks to the second.  The sender's clock is right, a tick ahead, or
\* further ahead than a time.Duration can tell; GitHub signs no timestamp.
MCPairing ==
    UNION { Pairs({"standard"}, {0}, AllButOne("invalid")),
            Pairs({"standard"}, {40}, AllValid),
            Pairs({"stripe"}, {1, 40}, AllValid),
            Pairs({"github"}, {0}, AllValid \cup AllButOne("none")) }

Symmetry == Permutations(Request) \cup Permutations(Key)
=============================================================================

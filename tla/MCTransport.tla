------------------------------ MODULE MCTransport -----------------------------
(***************************************************************************)
(* An instance of Transport for TLC.                                       *)
(***************************************************************************)
EXTENDS Transport, TLC

CONSTANTS name, public, private

MCURL ==
    [scheme : {"https"}, host : {name}, port : {NoPort, 0, 8443}]
      \cup [scheme : {"http"}, host : {name}, port : {NoPort}]
      \cup [scheme : {"https"}, host : {private}, port : {NoPort}]

\* The default policy, the development policy, one with a port of its own.
MCPolicies ==
    { [plainHTTP |-> FALSE, anyPort |-> FALSE, ports |-> {}, cidrs |-> {}],
      [plainHTTP |-> TRUE, anyPort |-> TRUE, ports |-> {}, cidrs |-> {private}],
      [plainHTTP |-> FALSE, anyPort |-> FALSE, ports |-> {8443}, cidrs |-> {}] }

Symmetry == Permutations(Sends)
=============================================================================

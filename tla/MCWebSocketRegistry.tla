------------------------ MODULE MCWebSocketRegistry ------------------------
(***************************************************************************)
(* A model-checking instance of WebSocketRegistry.  A behaviour looks at   *)
(* the life of two connections that carry no frames, or at the buffer of a *)
(* single connection that does.                                            *)
(***************************************************************************)
EXTENDS WebSocketRegistry, TLC

VARIABLE focus

Text(n)   == [kind |-> "text", len |-> n]
Binary(n) == [kind |-> "binary", len |-> n]

\* A small buffer holds one of these as text and none as binary data.
SmallFrames == {Text(1), Binary(1)}

Symmetry == Permutations(Conns) \union Permutations(Rpcs)

Quiet  == /\ \A t \in Rpcs : rpc'[t].pc # "writing"
          /\ \A c \in Conns : reader'[c] # "holding"
Single == Cardinality({c \in Conns : socket'[c] # "none"}) <= 1

MCInit == Init /\ focus \in {"life", "buffer"}
MCNext == Next /\ UNCHANGED focus /\ (focus = "life" => Quiet) /\ (focus = "buffer" => Single)
MCSpec == MCInit /\ [][MCNext]_<<vars, focus>>
=============================================================================

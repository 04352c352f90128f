--------------------------- MODULE MCProviderCall ---------------------------
(* Small instances of ProviderCall for TLC. *)
EXTENDS ProviderCall

Chunk(n)  == [kind |-> "chunk", bytes |-> n]
End       == [kind |-> "terminal", bytes |-> 0]
Junk      == [kind |-> "junk", bytes |-> 0]

One(e)    == [batch |-> FALSE, events |-> <<e>>]
Batch(ev) == [batch |-> TRUE, events |-> ev]

(* Every single event, with chunk sizes below, at and above the chunk      *)
(* limit of 2, and batches: none, two chunks, output with a terminal       *)
(* before or after it, a terminal twice, junk in it, and one beyond the    *)
(* buffer limit.                                                           *)
MCItems ==
    {One(e) : e \in {Chunk(0), Chunk(2), Chunk(3), End, Junk}}
      \cup {Batch(<<>>), Batch(<<Chunk(2), Chunk(2)>>), Batch(<<Chunk(2), End>>),
            Batch(<<End, Chunk(0)>>), Batch(<<End, End>>), Batch(<<Chunk(0), Junk>>),
            Batch(<<Chunk(0), Chunk(0), End>>)}

(* A few that matter to scheduling. *)
MCFewItems == {One(Chunk(2)), One(End), Batch(<<Chunk(2), End>>)}

AnyEnd   == {"ok", "error", "cancelled", "contract"}
=============================================================================

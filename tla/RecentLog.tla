------------------------------ MODULE RecentLog ------------------------------
(***************************************************************************)
(* What logger/ringbuffer.go promises: a log that keeps the latest Size    *)
(* entries in the order they were added.                                   *)
(***************************************************************************)
EXTENDS Naturals, Sequences

CONSTANTS Entries, Size

VARIABLE recent  \* the entries kept, the oldest first

Latest(n, s) == IF Len(s) <= n THEN s ELSE SubSeq(s, Len(s) - n + 1, Len(s))

RecentInit == recent = <<>>

RecentAdd(e) == recent' = Latest(Size, Append(recent, e))

RecentSpec == RecentInit /\ [][\E e \in Entries : RecentAdd(e)]_recent

=============================================================================

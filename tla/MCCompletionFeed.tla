-------------------------- MODULE MCCompletionFeed --------------------------
(* Small instances of CompletionFeed for TLC. *)
EXTENDS CompletionFeed

CONSTANTS j1, j2, r1, r2

Is(mode, jobs) == [mode |-> mode, jobs |-> jobs]
Two(a, b)      == [r \in Readers |-> IF r = r1 THEN a ELSE b]

\* Two clients that turn pages, or a drain beside a group.
Pairs ==
  {Two(Is("pages", <<j1, j2>>), Is("pages", <<j1>>)),
   Two(Is("drain", <<j2, j1>>), Is("group", <<j1, j2>>))}

Waits == {[r \in Readers |-> Is(mode, <<j2, j1>>)] : mode \in {"drain", "group"}}
=============================================================================

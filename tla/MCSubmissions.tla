--------------------------- MODULE MCSubmissions ---------------------------
(***************************************************************************)
(* Two clients retry run a, which goes to the queue of the default host,   *)
(* and one of them uses its key again for b, which names that queue. A     *)
(* third submits a group: a build without a queue, then one job for a      *)
(* device, whose queue is the same.                                        *)
(***************************************************************************)
EXTENDS Submissions, TLC

CONSTANTS j1, j2, j3, q, c1, c2, g, a, b, build, device, k, h

PlacesOfJobs == (j1 :> q @@ j2 :> q @@ j3 :> NoQueue)
Keys         == (a :> k @@ b :> k @@ build :> NoKey @@ device :> NoKey)
Programs     == (c1 :> <<a>> @@ c2 :> <<a, b>> @@ g :> <<build, device>>)
TwoSlots     == [x \in Queues |-> 2]

Asks(tool, backend, queue, forDevice, rest) ==
  [tool |-> tool, backend |-> backend, host |-> NoHost, queue |-> queue,
   device |-> forDevice, resource |-> NoQueue, rest |-> rest]

Requested ==
  (a      :> Asks("run", "unset", NoQueue, NoQueue, 1) @@
   b      :> Asks("submit", "local", q, NoQueue, 1) @@
   build  :> Asks("group", "unset", NoQueue, NoQueue, 2) @@
   device :> Asks("group", "unset", NoQueue, q, 1))

\* Without a backend a request goes to the default host.
Configured ==
  [host |-> h, backend |-> "local", queue |-> NoQueue,
   backendOf |-> (h :> "ssh"), queueOf |-> (h :> q)]
=============================================================================

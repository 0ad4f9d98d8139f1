---------------------------- MODULE Submissions ----------------------------
(***************************************************************************)
(* Submitting jobs (Service.submit, Service.submit_group).  A submission   *)
(* checks or creates its queue, reserves its client_request_id together    *)
(* with a fingerprint of the request and inserts the row in one            *)
(* transaction, makes the files, and hands the job to the backend.  Its    *)
(* client may die, or lose the answer, at any of these steps and submit    *)
(* the same request again, while others submit the same or another request *)
(* under the same key.                                                     *)
(*                                                                         *)
(* A group is the submission of one job for each device, after a build     *)
(* that is waited for, by one client; the file that names its jobs is      *)
(* written at the end.                                                     *)
(***************************************************************************)
EXTENDS JobStore, SequencesExt

CONSTANTS
  Clients,
  Requests,
  NoRequest, NoJob, NoKey, NoPrint, NoHost,
  KeyOf,       \* the client_request_id of each request, or NoKey
  Asked,       \* its parameters, see Parameters
  Settings,    \* the configuration, see Configuration
  Calls,       \* the requests each client makes, in order
  Groups,      \* clients whose calls are a group
  Builds,      \* those of them whose first call is the build
  MaxTries,    \* how often a client submits one request (bound)
  MaxFaults    \* how many clients die and files or launches fail (bound)

ASSUME SubmissionAssumption ==
  /\ NoRequest \notin Requests /\ NoJob \notin Jobs
  /\ NoHost \notin DOMAIN Settings.backendOf
  /\ Calls \in [Clients -> Seq(Requests)]
  /\ Builds \subseteq Groups /\ Groups \subseteq Clients
  /\ MaxTries \in Nat /\ MaxFaults \in Nat

Backends == {"local", "ssh", "slurm"}
Names    == Queues \cup {NoQueue}

\* What a request gives: run, which takes a configured queue, submit or group;
\* a queue, and those that follow from a device or a resource; the rest.
Parameters ==
  [tool : {"run", "submit", "group"}, backend : Backends \cup {"unset"},
   host : DOMAIN Settings.backendOf \cup {NoHost},
   queue : Names, device : Names, resource : Names, rest : Nat]

\* Defaults, and backend and queue of each host.
Configuration ==
  [host : DOMAIN Settings.backendOf \cup {NoHost}, backend : Backends, queue : Names,
   backendOf : [DOMAIN Settings.backendOf -> Backends],
   queueOf : [DOMAIN Settings.backendOf -> Names]]

\* submit_group has a device at least, and no client_request_id to pass on.
ASSUME GroupAssumption ==
  /\ \A c \in Builds : Len(Calls[c]) > 1
  /\ \A c \in Groups : \A i \in DOMAIN Calls[c] : KeyOf[Calls[c][i]] = NoKey

ASSUME RequestAssumption == Asked \in [Requests -> Parameters] /\ Settings \in Configuration

-----------------------------------------------------------------------------
(* Where a request leads (the command line and the server agree). *)

\* Only the local backend named in a request keeps it from the default host,
\* and not even that for a group.
HostOf == [r \in Requests |->
  CASE Asked[r].host # NoHost                                -> Asked[r].host
    [] Asked[r].backend = "local" /\ Asked[r].tool # "group" -> NoHost
    [] OTHER                                                 -> Settings.host]

BackendOf == [r \in Requests |->
  CASE Asked[r].backend # "unset" -> Asked[r].backend
    [] HostOf[r] # NoHost         -> Settings.backendOf[HostOf[r]]
    [] OTHER                      -> Settings.backend]

\* adaptive_queue: the queue of the host, else the default one.
AdaptiveQueue == [r \in Requests |->
  CASE Asked[r].queue # NoQueue \/ BackendOf[r] = "slurm" -> Asked[r].queue
    [] HostOf[r] # NoHost /\ Settings.queueOf[HostOf[r]] # NoQueue
         -> Settings.queueOf[HostOf[r]]
    [] OTHER -> Settings.queue]

NamedQueue == [r \in Requests |->
  IF Asked[r].tool = "run" THEN AdaptiveQueue[r] ELSE Asked[r].queue]

\* Without a name the queue follows from the resources, then from the device.
ByResource == {r \in Requests : Asked[r].resource # NoQueue /\ BackendOf[r] # "slurm"}
PlaceOf == [r \in Requests |->
  CASE NamedQueue[r] # NoQueue -> NamedQueue[r]
    [] r \in ByResource        -> Asked[r].resource
    [] OTHER                   -> Asked[r].device]
Implied == {r \in Requests : NamedQueue[r] = NoQueue /\ PlaceOf[r] # NoQueue}

\* A backend that needs a host or must not have one; or one without queues.
WrongHost == {r \in Requests : BackendOf[r] = "local" <=> HostOf[r] # NoHost}
Misfits == WrongHost \cup {r \in Requests : BackendOf[r] = "slurm" /\ PlaceOf[r] # NoQueue}

\* _submission_fingerprint: where the request leads, and the rest of it.
PrintOf == [r \in Requests |->
  <<BackendOf[r], HostOf[r], PlaceOf[r], Asked[r].device, Asked[r].resource, Asked[r].rest>>]

ASSUME PrintAssumption == \A r \in Requests : PrintOf[r] # NoPrint

VARIABLES
  key,       \* client_request_id of each row
  print,     \* submission_fingerprint of each row
  slots,     \* concurrency of each queue, 0 for no such row
  pc,        \* where each client is in its submission
  mine,      \* the job id it has drawn, and inserted unless it met a replay
  jobs,      \* the jobs of its requests so far
  tries,     \* submissions begun for the current request
  launched,  \* how often each job was handed to its backend
  refused,   \* requests that were rejected
  groups,    \* the group file of each client, <<>> for none
  faults

rows    == <<store, key, print>>
caller  == <<pc, mine, jobs, tries>>
outside == <<launched, refused, groups>>
vars    == <<rows, slots, caller, outside, faults>>

SubmissionTypeOK ==
  /\ StoreTypeOK
  /\ key \in [Jobs -> {KeyOf[r] : r \in Requests} \cup {NoKey}]
  /\ print \in [Jobs -> {PrintOf[r] : r \in Requests} \cup {NoPrint}]
  /\ \A j \in Jobs : key[j] = NoKey <=> print[j] = NoPrint
  /\ slots \in [Queues -> Nat]
  /\ \A q \in Queues : slots[q] \in {0, 1, Concurrency[q]}
  /\ pc \in [Clients -> {"idle", "queue", "insert", "files", "launch", "failing",
                         "answer", "build", "group", "stopped"}]
  /\ mine \in [Clients -> Jobs \cup {NoJob}]
  /\ jobs \in [Clients -> Seq(Jobs)]
  /\ \A c \in Clients : Len(jobs[c]) <= Len(Calls[c])
  /\ tries \in [Clients -> 0..MaxTries]
  /\ launched \in [Jobs -> Nat]
  /\ refused \subseteq Requests
  /\ groups \in [Clients -> Seq(Jobs)]
  /\ \A c \in Clients : groups[c] \in {<<>>, jobs[c]}
  /\ faults \in 0..MaxFaults

Init ==
  /\ StoreInit
  /\ key = [j \in Jobs |-> NoKey]
  /\ print = [j \in Jobs |-> NoPrint]
  /\ slots = [q \in Queues |-> 0]
  /\ pc = [c \in Clients |-> "idle"]
  /\ mine = [c \in Clients |-> NoJob]
  /\ jobs = [c \in Clients |-> <<>>]
  /\ tries = [c \in Clients |-> 0]
  /\ launched = [j \in Jobs |-> 0]
  /\ refused = {}
  /\ groups = [c \in Clients |-> <<>>]
  /\ faults = 0

\* The request a client is at, the next one of its calls.
Request(c) == IF Len(jobs[c]) < Len(Calls[c]) THEN Calls[c][Len(jobs[c]) + 1] ELSE NoRequest

Goes(c, from, to) ==
  /\ pc[c] = from
  /\ pc' = [pc EXCEPT ![c] = to]

Fault ==
  /\ faults < MaxFaults
  /\ faults' = faults + 1

-----------------------------------------------------------------------------
(* Queues. *)

\* Store.create_queue: a queue keeps the concurrency it was created with.
CreatesQueue(q, n) ==
  slots' = [slots EXCEPT ![q] = IF @ = 0 THEN n ELSE @]

\* Somebody creates the queue by hand.
QueueCreated(q) ==
  /\ slots[q] = 0
  /\ CreatesQueue(q, Concurrency[q])
  /\ UNCHANGED <<rows, caller, outside, faults>>

-----------------------------------------------------------------------------
(* A submission. *)

Begin(c) ==
  /\ Request(c) # NoRequest
  /\ tries[c] < MaxTries
  /\ Goes(c, "idle", "queue")
  /\ tries' = [tries EXCEPT ![c] = @ + 1]
  /\ UNCHANGED <<rows, slots, mine, jobs, outside, faults>>

Refuses(c) ==
  /\ refused' = refused \cup {Request(c)}
  /\ pc' = [pc EXCEPT ![c] = "stopped"]

\* A request that does not fit its backend is refused. An implied queue is
\* created with one slot, which fails if it has another number; a named one
\* has to be there.
CheckQueue(c) ==
  LET r == Request(c)
      place == PlaceOf[r]
  IN
  /\ pc[c] = "queue"
  /\ IF r \in Implied /\ (r \in WrongHost => r \in ByResource)
       THEN CreatesQueue(place, 1) ELSE UNCHANGED slots
  /\ IF /\ r \notin Misfits
        /\ \/ place = NoQueue
           \/ r \in Implied /\ slots'[place] = 1
           \/ r \notin Implied /\ slots[place] # 0
       THEN Goes(c, "queue", "insert") /\ UNCHANGED refused
       ELSE Refuses(c)
  /\ UNCHANGED <<rows, mine, jobs, tries, launched, groups, faults>>

\* Mutant of Reserved: an ended job no longer holds its key.
ReservedActive(r) ==
  {j \in Jobs : KeyOf[r] # NoKey /\ key[j] = KeyOf[r] /\ state[j] \in Active}

\* The row that holds the key of r.
Reserved(r) == {j \in Jobs : KeyOf[r] # NoKey /\ key[j] = KeyOf[r]}

\* What the row records of the request it was made for.
Fingerprint(r) == IF KeyOf[r] = NoKey THEN NoPrint ELSE PrintOf[r]

\* Mutants of SameRequest: the fingerprint is not compared, or covers
\* something that is new in each submission.
SameKey(r, j) == key[j] = KeyOf[r]
NeverSame(r, j) == FALSE

SameRequest(r, j) == print[j] = PrintOf[r]

\* A replay is answered at once.
AfterReplay == "answer"

\* A job id that nobody has drawn yet.
Fresh(q) == {j \in Jobs : state[j] = "absent" /\ QueueOf[j] = q}

\* Store.reserve_submission, or create without a key: the row of an earlier
\* submission is returned or refused, else a new one is inserted.
Insert(c) ==
  LET r == Request(c) IN
  /\ pc[c] = "insert"
  /\ \/ /\ Reserved(r) = {}
        /\ Fresh(PlaceOf[r]) # {}
        /\ LET j == CHOOSE j \in Fresh(PlaceOf[r]) : TRUE IN
             /\ Create(j)
             /\ key' = [key EXCEPT ![j] = KeyOf[r]]
             /\ print' = [print EXCEPT ![j] = Fingerprint(r)]
             /\ mine' = [mine EXCEPT ![c] = j]
        /\ Goes(c, "insert", "files")
        /\ UNCHANGED <<jobs, refused>>
     \/ \E j \in Reserved(r) :
          /\ SameRequest(r, j)
          /\ Goes(c, "insert", AfterReplay)
          /\ mine' = [mine EXCEPT ![c] = j]
          /\ UNCHANGED <<store, key, print, jobs, refused>>
     \/ \E j \in Reserved(r) :
          /\ ~SameRequest(r, j)
          /\ Refuses(c)
          /\ UNCHANGED <<store, key, print, mine, jobs>>
  /\ UNCHANGED <<slots, tries, launched, groups, faults>>

\* The directory, metadata.json and run-spec.json.
Files(c) ==
  /\ \/ Goes(c, "files", "launch") /\ UNCHANGED faults
     \/ Goes(c, "files", "failing") /\ Fault
  /\ UNCHANGED <<rows, slots, mine, jobs, tries, outside>>

\* Backend.submit: it may raise with or without having started something.
Launch(c) ==
  /\ pc[c] = "launch"
  /\ \/ /\ launched' = [launched EXCEPT ![mine[c]] = @ + 1]
        /\ \/ Goes(c, "launch", "answer") /\ UNCHANGED faults
           \/ Goes(c, "launch", "failing") /\ Fault
     \/ Goes(c, "launch", "failing") /\ Fault /\ UNCHANGED launched
  /\ UNCHANGED <<rows, slots, mine, jobs, tries, refused, groups>>

\* Any exception after the row is committed ends the job; the client is told.
FailSubmission(c) ==
  /\ Goes(c, "failing", IF c \in Groups THEN "stopped" ELSE "idle")
  /\ SetState(mine[c], "failed")
  /\ mine' = [mine EXCEPT ![c] = NoJob]
  /\ UNCHANGED <<key, print, slots, jobs, tries, outside, faults>>

\* The answer reaches the client, which turns to what is next.
Answer(c) ==
  /\ pc[c] = "answer"
  /\ jobs' = [jobs EXCEPT ![c] = Append(@, mine[c])]
  /\ pc' = [pc EXCEPT ![c] =
       CASE c \in Builds /\ jobs[c] = <<>>                       -> "build"
         [] c \in Groups /\ Len(jobs[c]) + 1 = Len(Calls[c])     -> "group"
         [] OTHER                                                -> "idle"]
  /\ mine' = [mine EXCEPT ![c] = NoJob]
  /\ tries' = [tries EXCEPT ![c] = 0]
  /\ UNCHANGED <<rows, slots, outside, faults>>

\* The client dies, or its answer is lost, and it begins again; the process
\* that submits a group does not.
Dies(c) ==
  /\ pc[c] \notin {"idle", "stopped"}
  /\ Fault
  /\ pc' = [pc EXCEPT ![c] = IF c \in Groups THEN "stopped" ELSE "idle"]
  /\ mine' = [mine EXCEPT ![c] = NoJob]
  /\ UNCHANGED <<rows, slots, jobs, tries, outside>>

-----------------------------------------------------------------------------
(* The rest of a group. *)

\* Mutant of BuildEnds: the outcome of the build is not looked at.
BuildEndsAnyhow(c) ==
  /\ pc[c] = "build"
  /\ state[jobs[c][1]] \in Terminal
  /\ Goes(c, "build", "idle")
  /\ UNCHANGED <<rows, slots, mine, jobs, tries, outside, faults>>

BuildEnds(c) ==
  /\ pc[c] = "build"
  /\ state[jobs[c][1]] \in Terminal
  /\ Goes(c, "build", IF state[jobs[c][1]] = "succeeded" THEN "idle" ELSE "stopped")
  /\ UNCHANGED <<rows, slots, mine, jobs, tries, outside, faults>>

WriteGroup(c) ==
  /\ Goes(c, "group", "stopped")
  /\ groups' = [groups EXCEPT ![c] = jobs[c]]
  /\ UNCHANGED <<rows, slots, mine, jobs, tries, launched, refused, faults>>

\* A job that was handed to its backend runs and ends.
Proceeds(j) ==
  /\ launched[j] > 0
  /\ \E s \in {"succeeded", "failed"} : SetState(j, s)
  /\ UNCHANGED <<key, print, slots, caller, outside, faults>>

-----------------------------------------------------------------------------
ClientStep(c) ==
  \/ Begin(c) \/ CheckQueue(c) \/ Insert(c) \/ Files(c) \/ Launch(c)
  \/ FailSubmission(c) \/ Answer(c) \/ BuildEnds(c) \/ WriteGroup(c)

Next ==
  \/ \E c \in Clients : ClientStep(c) \/ Dies(c)
  \/ \E q \in Queues : QueueCreated(q)
  \/ \E j \in Jobs : Proceeds(j)

Spec == Init /\ [][Next]_vars

\* The clients that repeat their requests go on; nobody else needs to.
FairSpec == Spec /\ \A c \in Clients \ Groups : WF_vars(ClientStep(c))

-----------------------------------------------------------------------------
\* The state is well typed, and one client_request_id means one job for ever,
\* after the job has ended too (reserve_submission, and the unique index behind
\* it), which is handed to its backend once at most: a retry after a lost
\* answer, a crash or an error starts nothing.
OneJobPerKey ==
  /\ SubmissionTypeOK
  /\ \A j, k \in Jobs : key[j] # NoKey /\ key[j] = key[k] => j = k
  /\ \A j \in Jobs : launched[j] <= 1

\* However often a request is repeated, by whomever, all get the same job,
\* and nobody gets the job of a request with other parameters.
RepliesAgree ==
  \A c, d \in Clients : \A i \in DOMAIN jobs[c], k \in DOMAIN jobs[d] :
    LET r == Calls[c][i]
        s == Calls[d][k]
    IN KeyOf[r] = KeyOf[s] /\ KeyOf[r] # NoKey =>
         jobs[c][i] = jobs[d][k] /\ PrintOf[r] = PrintOf[s]

\* The jobs of a group start after its build has succeeded, and a group that
\* can be waited for names one launched job of its own for each device.
GroupIsWhole ==
  \A c \in Groups :
    /\ c \in Builds /\ Len(jobs[c]) > 1 => state[jobs[c][1]] = "succeeded"
    /\ groups[c] # <<>> => /\ Len(groups[c]) = Len(Calls[c])
                           /\ \A i \in DOMAIN groups[c] : launched[groups[c][i]] = 1

\* A request that cannot be served: its key belongs to other parameters, its
\* backend does not fit its host or queue, or that queue is missing or has
\* another number of slots than it needs.
Conflicts(r) ==
  \/ \E j \in Reserved(r) : print[j] # PrintOf[r]
  \/ r \in Misfits
  \/ r \in Implied /\ slots[PlaceOf[r]] > 1
  \/ r \notin Implied /\ PlaceOf[r] # NoQueue /\ slots[PlaceOf[r]] = 0

\* A client that repeats its request until it is answered gets a job, unless
\* the request is refused for a conflict.
EventuallyAnswered ==
  \A c \in Clients \ Groups :
    <>(Request(c) = NoRequest \/ (Request(c) \in refused /\ Conflicts(Request(c))))
=============================================================================

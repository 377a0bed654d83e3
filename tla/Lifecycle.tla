------------------------------ MODULE Lifecycle ------------------------------
(***************************************************************************)
(* The time-to-live kill switch of lifecycle.py: one JSON file, read and   *)
(* rewritten without a lock by the request threads of the chat service,    *)
(* its timer daemon, and the command line that the installer runs.  A save *)
(* opens "<name>.tmp" for every writer alike, writes it and renames it     *)
(* over the file, so writers that overlap share one temporary file.        *)
(*                                                                         *)
(* One step is one system call that others can see: reading the file,      *)
(* opening (and truncating) the temporary file, writing it, renaming it.   *)
(* A record keeps the two fields that decide anything.                     *)
(***************************************************************************)
EXTENDS Naturals

CONSTANTS
    Threads,     \* callers of the module, in whatever process
    Ops,         \* the calls they make
    Extensions,  \* lengths of time an operator asks for
    MaxNow,      \* bound on the clock
    MaxExpiry    \* bound on expires_at

Calls == {"status", "extend", "reset", "kill", "reinstall", "init"}

ASSUME OpsAssumption == Ops \subseteq Calls
ASSUME TimesAssumption ==
    MaxNow \in Nat \ {0} /\ MaxExpiry \in Nat \ {0} /\ Extensions \subseteq Nat \ {0}

VARIABLES
    file,     \* what lifecycle.json holds
    tmp,      \* what lifecycle.json.tmp holds, or that it does not exist
    thread,   \* the calls in progress
    now       \* time.time()

lifecycleVars == <<file, tmp, thread, now>>

-------------------------------------------------------------------------------
NoExpiry == 0  \* expires_at is absent; the clock starts at 1

Records == [expires : 0..MaxExpiry, dead : BOOLEAN]

\* A file may also be absent, empty, or hold two texts run together.
Contents == [text : {"json"}, data : Records]
               \cup [text : {"absent", "empty", "torn"}]

Absent == [text |-> "absent"]
Empty  == [text |-> "empty"]
Torn   == [text |-> "torn"]
Json(r) == [text |-> "json", data |-> r]

\* _load_raw: what cannot be parsed is an empty record, which is not dead.
Parsed(c) ==
    IF c.text = "json" THEN c.data ELSE [expires |-> NoExpiry, dead |-> FALSE]

ReadsDead(c) == Parsed(c).dead

\* write() from offset 0 of a file that another writer has filled meanwhile:
\* a longer text of the other's shows behind the new one.
Overwrite(c, r) == IF c.text = "empty" THEN {Json(r)} ELSE {Json(r), Torn}

Pcs == {"idle", "look", "load", "open", "write", "rename"}

\* fd: what the thread's open temporary file is called by now; a rename by
\* another thread turns it into the file itself, a second one unlinks it.
\* raced is an observation no step depends on: another save has gone a step
\* since this thread last read the file.
ThreadRecord == [pc : Pcs, op : Calls, data : Records,
                 fd : {"closed", "tmp", "file", "gone"}, raced : BOOLEAN,
                 answer : {"none", "alive", "dead", "error"}]

IdleThread == [pc |-> "idle", op |-> "status",
               data |-> [expires |-> NoExpiry, dead |-> FALSE],
               fd |-> "closed", raced |-> FALSE, answer |-> "none"]

Answered(a) == [IdleThread EXCEPT !.answer = a]

LifecycleTypeOK ==
    /\ file \in Contents
    /\ tmp \in Contents
    /\ thread \in [Threads -> ThreadRecord]
    /\ now \in 1..MaxNow

\* The installer has initialised a countdown.
LifecycleInit ==
    /\ \E e \in Extensions :
          /\ 1 + e <= MaxExpiry
          /\ file = Json([expires |-> 1 + e, dead |-> FALSE])
    /\ tmp = Absent
    /\ thread = [t \in Threads |-> IdleThread]
    /\ now = 1

-------------------------------------------------------------------------------
Expired(r) == ~r.dead /\ r.expires # NoExpiry /\ now >= r.expires

Configured_counting(r) ==   \* mutant: a reinstall keeps only what still counts
    ~r.dead /\ r.expires # NoExpiry

Configured(r) == r.dead \/ r.expires # NoExpiry

\* _mark_dead keeps the other fields.
Marked(r) == [r EXCEPT !.dead = TRUE]

\* Thread t goes on to save r, as part of the call op.
Saves(t, op, r) ==
    thread' = [thread EXCEPT ![t] =
                 [IdleThread EXCEPT !.pc = "open", !.op = op, !.data = r]]

Saving(t) == thread[t].pc \in {"open", "write", "rename"}

\* kill() reads the file itself; other calls but initialize ask status() first.
Call(t, op) ==
    /\ thread[t].pc = "idle"
    /\ op # "init"
    /\ thread' = [thread EXCEPT ![t] =
                    [IdleThread EXCEPT !.pc = IF op = "kill" THEN "load" ELSE "look",
                                       !.op = op]]
    /\ UNCHANGED <<file, tmp, now>>

\* initialize(), by hand, reads nothing: a fresh countdown, tombstone or not.
Initialize(t) ==
    /\ thread[t].pc = "idle"
    /\ "init" \in Ops
    /\ \E d \in Extensions :
          /\ now + d <= MaxExpiry
          /\ Saves(t, "init", [expires |-> now + d, dead |-> FALSE])
    /\ UNCHANGED <<file, tmp, now>>

\* status(): a countdown that has run out is marked before the answer, which
\* ends an extend, reset or reinstall as well.
LookExpired(t) ==
    /\ thread[t].pc = "look"
    /\ Expired(Parsed(file))
    /\ Saves(t, "status", Marked(Parsed(file)))
    /\ UNCHANGED <<file, tmp, now>>

\* status() of any other record, and what its caller does with the answer.
Look(t) ==
    LET r == Parsed(file) IN
    /\ thread[t].pc = "look"
    /\ ~Expired(r)
    /\ \/ /\ \/ thread[t].op = "status"
             \/ thread[t].op \in {"extend", "reset"} /\ r.dead
             \/ thread[t].op = "reinstall" /\ Configured(r)
          /\ thread' = [thread EXCEPT ![t] = Answered(IF r.dead THEN "dead" ELSE "alive")]
       \/ /\ thread[t].op \in {"extend", "reset"} /\ ~r.dead
          /\ thread' = [thread EXCEPT ![t].pc = "load"]
       \/ \* no valid state: initialize
          /\ thread[t].op = "reinstall" /\ ~Configured(r)
          /\ \E d \in Extensions :
                /\ now + d <= MaxExpiry
                /\ Saves(t, "reinstall", [expires |-> now + d, dead |-> FALSE])
    /\ UNCHANGED <<file, tmp, now>>

Later(a, b) == IF a < b THEN b ELSE a

\* The record an extension or reset of length d writes back: all else is kept.
Renewed(op, r, d) ==
    [r EXCEPT !.expires = (IF op = "extend" THEN Later(r.expires, now) ELSE now) + d]

\* set_ttl_seconds and reset_ttl_seconds read the file a second time.
LoadRenew(t) ==
    /\ thread[t].pc = "load"
    /\ thread[t].op \in {"extend", "reset"}
    /\ \E d \in Extensions :
          /\ Renewed(thread[t].op, Parsed(file), d).expires <= MaxExpiry
          /\ Saves(t, thread[t].op, Renewed(thread[t].op, Parsed(file), d))
    /\ UNCHANGED <<file, tmp, now>>

\* kill() writes nothing if the zombie is dead already.
LoadKill(t) ==
    /\ thread[t].pc = "load"
    /\ thread[t].op = "kill"
    /\ \/ /\ ReadsDead(file)
          /\ thread' = [thread EXCEPT ![t].pc = "look", ![t].op = "status"]
       \/ /\ ~ReadsDead(file)
          /\ Saves(t, "kill", Marked(Parsed(file)))
    /\ UNCHANGED <<file, tmp, now>>

\* Thread t's save goes a step and leaves it in state r; other saves under way
\* have raced with it.
SaveGoes(t, r) ==
    [u \in Threads |-> IF u = t THEN r
                       ELSE [thread[u] EXCEPT !.raced = @ \/ Saving(u)]]

OpenTmp_direct(t) ==        \* mutant: the file itself is opened and emptied
    /\ thread[t].pc = "open"
    /\ file' = Empty
    /\ tmp' = Empty
    /\ thread' = SaveGoes(t, [thread[t] EXCEPT !.pc = "write", !.fd = "tmp"])
    /\ UNCHANGED now

\* _save_raw opens the temporary file, new or not, and empties it,
OpenTmp(t) ==
    /\ thread[t].pc = "open"
    /\ tmp' = Empty
    /\ thread' = SaveGoes(t, [thread[t] EXCEPT !.pc = "write", !.fd = "tmp"])
    /\ UNCHANGED <<file, now>>

\* ... writes the whole record to the file it opened, whatever its name now,
WriteTmp(t) ==
    /\ thread[t].pc = "write"
    /\ \/ /\ thread[t].fd = "tmp"
          /\ tmp' \in Overwrite(tmp, thread[t].data)
          /\ UNCHANGED file
       \/ /\ thread[t].fd = "file"
          /\ file' \in Overwrite(file, thread[t].data)
          /\ UNCHANGED tmp
       \/ /\ thread[t].fd = "gone"
          /\ UNCHANGED <<file, tmp>>
    /\ thread' = SaveGoes(t, [thread[t] EXCEPT !.pc = "rename", !.fd = "closed"])
    /\ UNCHANGED now

RenamedFd(fd) ==
    IF fd = "tmp" THEN "file" ELSE IF fd = "file" THEN "gone" ELSE fd

\* ... and renames the temporary file, whoever wrote it last, over the file.
\* status() then answers; the other calls ask status() once more.
AfterSave(t) ==
    IF thread[t].op = "status" THEN Answered("dead") ELSE [IdleThread EXCEPT !.pc = "look"]

Rename(t) ==
    /\ thread[t].pc = "rename"
    /\ tmp # Absent
    /\ file' = tmp
    /\ tmp' = Absent
    /\ thread' = [u \in Threads |->
                    [SaveGoes(t, AfterSave(t))[u] EXCEPT !.fd = RenamedFd(@)]]
    /\ UNCHANGED now

\* A system call fails, or the thread's process is killed, at any step.  The
\* rename is one that must fail when another thread has taken the file
\* (FileNotFoundError): Rename is not possible then.
Fails(t) ==
    /\ thread[t].pc # "idle"
    /\ thread' = [thread EXCEPT ![t] = Answered("error")]
    /\ UNCHANGED <<file, tmp, now>>

Tick ==
    /\ now < MaxNow
    /\ now' = now + 1
    /\ UNCHANGED <<file, tmp, thread>>

Step(t) ==
    \/ LookExpired(t) \/ Look(t) \/ LoadRenew(t) \/ LoadKill(t)
    \/ OpenTmp(t) \/ WriteTmp(t) \/ Rename(t)

LifecycleNext ==
    \/ \E t \in Threads :
          Step(t) \/ Fails(t) \/ Initialize(t) \/ \E op \in Ops : Call(t, op)
    \/ Tick

LifecycleSpec == LifecycleInit /\ [][LifecycleNext]_lifecycleVars

-------------------------------------------------------------------------------
(* Writing and renaming are the steps of a save that can touch the file.    *)

Saved(t) == thread[t].pc \in {"write", "rename"} /\ thread'[t].pc # thread[t].pc

\* What the code says of itself: the tombstone is "never cleared at runtime",
\* and initialize() is "the only path that clears a tombstone" (lifecycle.py).
\* Not so: a live record takes its place when an extension overlaps a kill.
DeathIsFinal ==
    [][ReadsDead(file) /\ file'.text = "json" /\ ~file'.data.dead
       => \E t \in Threads : Saved(t) /\ thread[t].op = "init"]_lifecycleVars

(* What it guarantees however many threads call, and whatever fails between *)
(* two of their steps: harm is done only by a save that another one raced   *)
(* with after it had read the file.                                         *)

\* A tombstone is lost to an explicit initialize() or in a race, never to an
\* extension, a reset or a reinstall by itself, nor to a save cut short.
OnlyRacesRevive ==
    [][ReadsDead(file) /\ ~ReadsDead(file')
       => \E t \in Threads : Saved(t) /\ (thread[t].raced \/ thread[t].op = "init")]_lifecycleVars

\* ... and so is a file that can be read: what cannot be read counts as alive,
\* for ever.
OnlyRacesTear ==
    [][file.text = "json" /\ file'.text # "json"
       => \E t \in Threads : Saved(t) /\ thread[t].raced]_lifecycleVars

\* status() "writes the tombstone before returning so the dead decision is
\* durable": whoever is told "dead", unless raced, can find it in the file.
AnswerIsDurable ==
    [][\A t \in Threads :
          thread[t].pc # "idle" /\ thread'[t].answer = "dead" /\ ~thread[t].raced
          => ReadsDead(file')]_lifecycleVars

\* An extension that is not raced "never shortens an existing countdown"
\* (set_ttl).
ExtensionNeverShortens ==
    [][\A t \in Threads :
          /\ thread[t].pc = "rename" /\ thread'[t].pc # "rename"
          /\ thread[t].op = "extend" /\ ~thread[t].raced
          => Parsed(file').expires >= Parsed(file).expires]_lifecycleVars

(* What holds among any number of callers that only look or kill.          *)

\* Whatever they write into the file is a tombstone, or cannot be read.
OnlyTombstones == [][file' # file /\ file'.text = "json" => file'.data.dead]_lifecycleVars

(* Why: an inductive invariant for each case.                              *)

\* A save that has not been raced has the temporary file for itself, and what
\* it holds is no step back from the file.
SafeSave(t) ==
    /\ thread[t].fd = IF thread[t].pc = "write" THEN "tmp" ELSE "closed"
    /\ thread[t].pc = "write" => tmp = Empty
    /\ thread[t].pc = "rename" => tmp = Json(thread[t].data)
    /\ thread[t].op # "init" /\ ReadsDead(file) => thread[t].data.dead
    /\ thread[t].op = "status" => thread[t].data.dead
    /\ thread[t].op = "extend" => thread[t].data.expires >= Parsed(file).expires

SavesInv ==
    /\ LifecycleTypeOK
    /\ \A t \in Threads :
          /\ Saving(t) /\ ~thread[t].raced => SafeSave(t)
          /\ thread[t].pc # "idle" => thread[t].answer = "none"

\* Nobody who only looks or kills ever holds a live record to save.
TombstoneInv ==
    /\ LifecycleTypeOK
    /\ tmp.text = "json" => tmp.data.dead
    /\ \A t \in Threads :
          /\ thread[t].op \in {"status", "kill"}
          /\ Saving(t) => thread[t].data.dead
==============================================================================

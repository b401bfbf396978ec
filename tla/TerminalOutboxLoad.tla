-------------------------- MODULE TerminalOutboxLoad --------------------------
(***************************************************************************)
(* Loading the terminal outbox at start (TerminalOutbox::load and          *)
(* convert_legacy_outbox in session_manager/masking/gate.rs): the file of  *)
(* an older version, whose verified events carry a chat_id and which may   *)
(* hold events of the abolished code CHAT_IDENTITY_REQUIRED, is converted  *)
(* and written back before the events are used.  The process may die and   *)
(* the write may fail on the way; write_json_atomic leaves the old file or *)
(* the new one.                                                            *)
(*                                                                         *)
(* An event is what load tells apart of it: its call, whether its scope    *)
(* has a chat_id (only verified scopes ever had one), whether there is     *)
(* another unknown field, and its code ("chat" for CHAT_IDENTITY_REQUIRED, *)
(* "wrong" for everything else that valid_terminal refuses).               *)
(***************************************************************************)
EXTENDS Naturals, Sequences, FiniteSets, Places

CONSTANTS
    OutboxFiles,    \* files an earlier run may have left
    OutboxLimit     \* MAX_TERMINAL_OUTBOX_EVENTS

OutboxEvent ==
    [ call : Nat, chat : BOOLEAN, extra : BOOLEAN, code : {"allowed", "chat", "wrong"} ]

\* top says that the object has its two fields and schema_version 1.
OutboxFile == [top : BOOLEAN, events : Seq(OutboxEvent)]

ASSUME OutboxFilesAssumption == OutboxFiles \subseteq OutboxFile
ASSUME OutboxLimitAssumption == OutboxLimit \in Nat

VARIABLES
    obFile,         \* the file
    obOriginal,     \* the file the first start found
    obPc,           \* where the process is
    obEvents        \* TerminalOutbox.events

obVars == <<obFile, obOriginal, obPc, obEvents>>

ObTypeOK ==
    /\ obOriginal \in OutboxFiles
    /\ obFile \in OutboxFile
    /\ obPc \in {"down", "persisting", "running", "refused", "failed"}
    /\ obEvents \in Seq(OutboxEvent)

ObInit ==
    /\ obOriginal \in OutboxFiles
    /\ obFile = obOriginal
    /\ obPc = "down"
    /\ obEvents = <<>>

-----------------------------------------------------------------------------
EventsOf(events) == {events[i] : i \in DOMAIN events}

UniqueCalls(events) ==
    \A i, j \in DOMAIN events : events[i].call = events[j].call => i = j

\* serde with deny_unknown_fields
ParsesEvent(e) == ~e.chat /\ ~e.extra
ParsesFile(f) == f.top /\ \A e \in EventsOf(f.events) : ParsesEvent(e)

valid_terminal(e) == e.code = "allowed"

Acceptable(events) ==
    /\ Len(events) <= OutboxLimit
    /\ \A e \in EventsOf(events) : valid_terminal(e)
    /\ UniqueCalls(events)

\* The chat_id of the scope is taken away, any other field stays.
Stripped(events) == [i \in DOMAIN events |-> [events[i] EXCEPT !.chat = FALSE]]

NotChat(e) == e.code # "chat"

Kept(events) == Picked(Stripped(events), {i \in DOMAIN events : NotChat(events[i])})

\* Variant: what has been converted is not validated.
ConvertibleUnchecked(f) ==
    f.top /\ \A e \in EventsOf(Stripped(f.events)) : ParsesEvent(e)

\* convert_legacy_outbox succeeds.
Convertible(f) ==
    /\ f.top
    /\ \A e \in EventsOf(Stripped(f.events)) : ParsesEvent(e)
    /\ Acceptable(Kept(f.events))

-----------------------------------------------------------------------------
(* TerminalOutbox::load; the process does not start when it fails *)

LoadCurrent ==
    /\ obPc = "down"
    /\ ParsesFile(obFile)
    /\ Acceptable(obFile.events)
    /\ obPc' = "running"
    /\ obEvents' = obFile.events
    /\ UNCHANGED <<obFile, obOriginal>>

LoadLegacy ==
    /\ obPc = "down"
    /\ ~ParsesFile(obFile)
    /\ Convertible(obFile)
    /\ obPc' = "persisting"
    /\ obEvents' = Kept(obFile.events)
    /\ UNCHANGED <<obFile, obOriginal>>

LoadRefused ==
    /\ obPc = "down"
    /\ IF ParsesFile(obFile) THEN ~Acceptable(obFile.events) ELSE ~Convertible(obFile)
    /\ obPc' = "refused"
    /\ UNCHANGED <<obFile, obOriginal, obEvents>>

\* persist, and the checks of load on what has just been converted.
PersistConverted ==
    /\ obPc = "persisting"
    /\ obPc' = "running"
    /\ obFile' = [top |-> TRUE, events |-> obEvents]
    /\ UNCHANGED <<obOriginal, obEvents>>

PersistFails ==
    /\ obPc = "persisting"
    /\ obPc' = "failed"
    /\ UNCHANGED <<obFile, obOriginal, obEvents>>

\* The process dies, or is started again; a write under way has or has not
\* replaced the file.
Restart ==
    /\ obPc # "down"
    /\ obPc' = "down"
    /\ obEvents' = <<>>
    /\ \/ UNCHANGED obFile
       \/ obPc = "persisting" /\ obFile' = [top |-> TRUE, events |-> obEvents]
    /\ UNCHANGED obOriginal

ObNext ==
    \/ LoadCurrent
    \/ LoadLegacy
    \/ LoadRefused
    \/ PersistConverted
    \/ PersistFails
    \/ Restart

ObSpec == ObInit /\ [][ObNext]_obVars

-----------------------------------------------------------------------------
(* Properties *)

\* Whatever start the process is on and wherever the ones before died, it runs
\* with the events of the original file less the abolished ones, in their
\* order; the file is the original or its conversion, and it is the conversion
\* only if nothing but the old format was wrong with it.
LoadIsFaithful ==
    /\ obPc = "running" =>
          /\ obEvents = Picked([i \in DOMAIN obOriginal.events |->
                                  [obOriginal.events[i] EXCEPT !.chat = FALSE]],
                               {i \in DOMAIN obOriginal.events :
                                  NotChat(obOriginal.events[i])})
          /\ ParsesFile(obFile)
    /\ obFile # obOriginal =>
          \A e \in EventsOf(obOriginal.events) :
             ~e.extra /\ e.code # "wrong"

\* A file of the previous format: nothing but chat_id and
\* events of the abolished code keeps it from being a current one.
PreviousFormat(f) ==
    /\ f.top
    /\ \A e \in EventsOf(f.events) : ~e.extra /\ e.code # "wrong"
    /\ UniqueCalls(f.events)
    /\ Len(f.events) <= OutboxLimit

\* The manager starts with an outbox of the previous format: docs and comment
\* say that chat_id is dropped and that events with CHAT_IDENTITY_REQUIRED are
\* removed.
PreviousFormatLoads == obPc = "refused" => ~PreviousFormat(obOriginal)
=============================================================================

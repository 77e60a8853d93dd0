---------------------------- MODULE Environment ----------------------------
(***************************************************************************)
(* environment/: one Capture is shared by the attestors of a context, and  *)
(* by every process that a traced command starts.  Capture() changes the   *)
(* Capture it is called on: it may replace the list of sensitive keys, and *)
(* it adds the additional keys to the map that it, and every other call,   *)
(* will read.  Maps are references into a heap; calls may overlap.         *)
(***************************************************************************)
EXTENDS Naturals, Sequences, FiniteSets

CONSTANTS Caller,         \* the calls of Capture()
          Variables,      \* the keys of the environment
          DefaultKeys,    \* DefaultSensitiveEnvList()
          Matches,        \* the keys that an entry of a list stands for
          CaptureOptions  \* what New() was given

ASSUME MatchesAssumption == \A e \in DOMAIN Matches : Matches[e] \subseteq Variables

ASSUME CaptureOptionsAssumption ==
  CaptureOptions \subseteq
    [add : SUBSET DOMAIN Matches, exclude : SUBSET Variables,
     filter : BOOLEAN, disableDefault : BOOLEAN]

VARIABLES options,   \* of the Capture
          heap,      \* the maps of sensitive keys there have been
          current,   \* the one that c.sensitiveVarsList refers to
          call,      \* where each call is
          final,     \* the map that its finalSensitiveKeysList refers to
          toAdd,     \* the additional keys it has not added yet
          captured,  \* what it returned
          crashed    \* the runtime found a map read or written while written

envVars == <<options, heap, current, call, final, toAdd, captured, crashed>>

Calling(c, at) == ~ crashed /\ call[c] = at

\* c.sensitiveVarsList = map[string]struct{}{}
ResetList(c) ==
  /\ Calling(c, "begin")
  /\ call' = [call EXCEPT ![c] = "alias"]
  /\ IF options.disableDefault
       THEN heap' = Append(heap, {}) /\ current' = Len(heap) + 1
       ELSE UNCHANGED <<heap, current>>
  /\ UNCHANGED <<options, final, toAdd, captured, crashed>>

\* Mutant of KeysToAdd: they are left to the call that came first.
KeysToAddOnce(c) ==
  IF \E d \in Caller \ {c} : call[d] \notin {"begin", "alias"} THEN {} ELSE options.add

KeysToAdd(c) == options.add

\* finalSensitiveKeysList = c.sensitiveVarsList
AliasList(c) ==
  /\ Calling(c, "alias")
  /\ call' = [call EXCEPT ![c] = "add"]
  /\ final' = [final EXCEPT ![c] = current]
  /\ toAdd' = [toAdd EXCEPT ![c] = KeysToAdd(c)]
  /\ UNCHANGED <<options, heap, current, captured, crashed>>

\* Another call is writing to the map, or (for a write) reading it.
Races(c, others) ==
  \E d \in Caller \ {c} : call[d] \in others /\ final[d] = final[c]

\* finalSensitiveKeysList[k] = v; a data race may end the program.
AddKey(c) ==
  /\ Calling(c, "add")
  /\ \E k \in toAdd[c] :
       /\ heap' = [heap EXCEPT ![final[c]] = @ \cup {k}]
       /\ toAdd' = [toAdd EXCEPT ![c] = @ \ {k}]
  /\ crashed' \in {FALSE, Races(c, {"add", "apply"})}
  /\ UNCHANGED <<options, current, call, final, captured>>

AddedKeys(c) ==
  /\ Calling(c, "add")
  /\ toAdd[c] = {}
  /\ call' = [call EXCEPT ![c] = "apply"]
  /\ UNCHANGED <<options, heap, current, final, toAdd, captured, crashed>>

\* The keys that FilterEnvironmentArray and ObfuscateEnvironmentArray act on:
\* an exclusion names a key, an entry of the list names one or is a glob.
ActedOn(list) == (UNION {Matches[e] : e \in list}) \ options.exclude

Hide(list) ==
  LET hidden == ActedOn(list)
  IN  IF options.filter
        THEN [k \in Variables \ hidden |-> "plain"]
        ELSE [k \in Variables |-> IF k \in hidden THEN "hidden" ELSE "plain"]

Apply(c) ==
  /\ Calling(c, "apply")
  /\ captured' = [captured EXCEPT ![c] = Hide(heap[final[c]])]
  /\ call' = [call EXCEPT ![c] = "done"]
  /\ crashed' \in {FALSE, Races(c, {"add"})}
  /\ UNCHANGED <<options, heap, current, final, toAdd>>

NotCaptured == [k \in {} |-> "plain"]

EnvInit ==
  /\ options \in CaptureOptions
  /\ heap = <<DefaultKeys>>
  /\ current = 1
  /\ call = [c \in Caller |-> "begin"]
  /\ final = [c \in Caller |-> 1]
  /\ toAdd = [c \in Caller |-> {}]
  /\ captured = [c \in Caller |-> NotCaptured]
  /\ crashed = FALSE

EnvNext == \E c \in Caller : ResetList(c) \/ AliasList(c) \/ AddKey(c)
                             \/ AddedKeys(c) \/ Apply(c)

EnvSpec == EnvInit /\ [][EnvNext]_envVars

-----------------------------------------------------------------------------
(* Properties                                                              *)

\* The keys the options declare sensitive.
Sensitive ==
  ActedOn((IF options.disableDefault THEN {} ELSE DefaultKeys) \cup options.add)

\* However the calls overlap, each one that returns hides the values of the
\* sensitive keys and shows those of all others: the map that a call aliased
\* may have been replaced, and is written by others, but it holds every
\* additional key by the time it is read.
CaptureHidesSensitiveValues ==
  \A c \in Caller : call[c] = "done" =>
    \A k \in Variables :
      (k \in DOMAIN captured[c] /\ captured[c][k] = "plain") <=> k \notin Sensitive
=============================================================================

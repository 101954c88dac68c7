----------------------- MODULE RtcStreamManagerProofs -----------------------
(***************************************************************************)
(* The tables of RtcStreamManager are exact and nothing calls into a       *)
(* deleted object, for any number of streams, users and names.             *)
(*                                                                         *)
(* The invariant is inductive as the conjunction of its parts: replacing a *)
(* stream is safe because the table entry is the only stream of its name   *)
(* (PushTableExact), deleting it is safe for the other table because the   *)
(* entries have the right kind, and the return into a PeerConnection is    *)
(* safe because nothing but that return happens while it is emitting.      *)
(***************************************************************************)
EXTENDS RtcStreamManager, TLAPS

Inv ==
    /\ TypeOK
    /\ PushTableExact
    /\ PullEntriesValid
    /\ NoCallbackIntoFreed
    /\ MediaStaysInStream

(* Init establishes the invariant: there are no streams.                   *)
LEMMA InitInv == Init => Inv
  <1> SUFFICES ASSUME Init PROVE Inv
    OBVIOUS
  <1>1. TypeOK
    BY DEF Init, TypeOK
  <1>2. PushTableExact /\ PullEntriesValid /\ NoCallbackIntoFreed /\ MediaStaysInStream
    BY DEF Init, PushTableExact, PullEntriesValid, NoCallbackIntoFreed,
           MediaStaysInStream, Alive
  <1> QED
    BY <1>1, <1>2 DEF Inv

(* A stream made at a free address, with an old one of the same kind and   *)
(* name deleted first: what remains of the others.                         *)
LEMMA NewStreamEffect ==
  ASSUME Inv, LoopIdle,
         NEW i \in Ids, NEW k \in {"push", "pull"}, NEW u \in Uids, NEW n \in Names,
         NEW old \in Ids \cup {null}, old # null => Alive(old),
         NewStream(i, k, u, n, old)
  PROVE  /\ obj' \in [Ids -> RtcStreamType \cup {null}]
         /\ pc' \in [Ids -> {"none", "live", "destroying"}]
         /\ timer' \in [Ids -> {"none", "armed", "fired"}]
         /\ obj'[i] # null /\ obj'[i].kind = k /\ obj'[i].uid = u /\ obj'[i].name = n
         /\ old # i
         /\ old # null => obj'[old] = null
         /\ \A j \in Ids \ {i, old} : obj'[j] = obj[j]
         /\ \A j \in Ids : timer'[j] # "none" => obj'[j] # null
         /\ \A j \in Ids : obj'[j] # null => pc'[j] = "live"
         /\ obj[i] = null /\ emitting = null /\ media' = null
  <1> USE NullAssumption, NullStreamAssumption
  <1>0. obj[i] = null /\ emitting = null /\ media' = null /\ pc[i] = "none" /\ old # i
    BY DEF NewStream, LoopIdle, Alive
  <1>1. PICK s \in BornStates :
          obj' = [j \in Ids |-> IF j = i THEN RtcStream(k, u, n, s)
                                ELSE IF j = old THEN null ELSE obj[j]]
    BY DEF NewStream
  <1>2. RtcStream(k, u, n, s) \in RtcStreamType
    BY DEF RtcStream, RtcStreamType, BornStates, PeerConnectionState
  <1>3. /\ obj' \in [Ids -> RtcStreamType \cup {null}]
        /\ old # null => obj'[old] = null
        /\ \A j \in Ids \ {i, old} : obj'[j] = obj[j]
        /\ obj'[i] = RtcStream(k, u, n, s)
    BY <1>0, <1>1, <1>2 DEF Inv, TypeOK
  <1>4. obj'[i] # null /\ obj'[i].kind = k /\ obj'[i].uid = u /\ obj'[i].name = n
    BY <1>3, <1>2 DEF RtcStream
  <1>5. /\ timer' \in [Ids -> {"none", "armed", "fired"}]
        /\ \A j \in Ids : timer'[j] # "none" => obj'[j] # null
    <2>1. timer' = [j \in Ids |-> IF j = i THEN "armed"
                                  ELSE IF j = old THEN "none" ELSE timer[j]]
      BY <1>0 DEF NewStream, TimerDeleted, Inv, TypeOK
    <2> QED
      BY <2>1, <1>3, <1>4 DEF Inv, TypeOK, NoCallbackIntoFreed, Alive
  <1>6. /\ pc' \in [Ids -> {"none", "live", "destroying"}]
        /\ \A j \in Ids : obj'[j] # null => pc'[j] = "live"
    <2>1. pc' = [j \in Ids |-> IF j = i THEN "live"
                               ELSE IF j = old THEN "destroying" ELSE pc[j]]
      BY <1>0 DEF NewStream, Destroyed, Inv, TypeOK
    <2> QED
      BY <2>1, <1>3, <1>4 DEF Inv, TypeOK, NoCallbackIntoFreed, Alive
  <1> QED
    BY <1>0, <1>3, <1>4, <1>5, <1>6

(* create_push_stream keeps the invariant.                                 *)
LEMMA CreatePushStreamInv ==
  ASSUME Inv, NEW i \in Ids, NEW u \in Uids, NEW n \in Names,
         CreatePushStream(i, u, n)
  PROVE  Inv'
  <1> USE NullAssumption, NullStreamAssumption
  <1> DEFINE old == push[n]
  <1>1. /\ old \in Ids \cup {null}
        /\ old # null => Alive(old) /\ obj[old].kind = "push" /\ obj[old].name = n
    BY DEF Inv, TypeOK, PushTableExact
  <1>2. /\ LoopIdle /\ NewStream(i, "push", u, n, old)
        /\ push' = [push EXCEPT ![n] = i] /\ pull' = pull /\ emitting' = emitting
    BY DEF CreatePushStream
  <1> HIDE DEF old
  <1>3. /\ obj' \in [Ids -> RtcStreamType \cup {null}]
        /\ pc' \in [Ids -> {"none", "live", "destroying"}]
        /\ timer' \in [Ids -> {"none", "armed", "fired"}]
        /\ obj'[i] # null /\ obj'[i].kind = "push" /\ obj'[i].name = n
        /\ old # i
        /\ old # null => obj'[old] = null
        /\ \A j \in Ids \ {i, old} : obj'[j] = obj[j]
        /\ \A j \in Ids : timer'[j] # "none" => obj'[j] # null
        /\ \A j \in Ids : obj'[j] # null => pc'[j] = "live"
        /\ obj[i] = null /\ emitting = null /\ media' = null
    BY <1>1, <1>2, NewStreamEffect
  <1>4. TypeOK'
    BY <1>2, <1>3 DEF Inv, TypeOK
  <1>5. PushTableExact'
    <2>1. ASSUME NEW j \in Ids, obj'[j] # null, obj'[j].kind = "push"
          PROVE  push'[obj'[j].name] = j
      <3>1. CASE j = i
        BY <3>1, <1>2, <1>3 DEF Inv, TypeOK
      <3>2. CASE j # i
        <4>1. obj'[j] = obj[j] /\ j # old
          BY <2>1, <3>2, <1>1, <1>3
        <4>2. push[obj[j].name] = j /\ obj[j].name \in Names
          BY <4>1, <2>1 DEF Inv, TypeOK, PushTableExact, Alive, RtcStreamType
        <4> QED
          BY <4>1, <4>2, <1>2 DEF Inv, TypeOK, old
      <3> QED
        BY <3>1, <3>2
    <2>2. ASSUME NEW m \in Names, push'[m] # null
          PROVE  obj'[push'[m]] # null /\ obj'[push'[m]].kind = "push" /\ obj'[push'[m]].name = m
      <3>1. CASE m = n
        BY <3>1, <1>2, <1>3 DEF Inv, TypeOK
      <3>2. CASE m # n
        <4>1. push'[m] = push[m] /\ push[m] \in Ids
          BY <3>2, <2>2, <1>2 DEF Inv, TypeOK
        <4>2. obj[push[m]] # null /\ obj[push[m]].kind = "push" /\ obj[push[m]].name = m
          BY <4>1, <2>2 DEF Inv, PushTableExact, Alive
        <4>3. push[m] # i /\ push[m] # old
          BY <4>1, <4>2, <3>2, <1>1, <1>3
        <4> QED
          BY <4>1, <4>2, <4>3, <1>3
      <3> QED
        BY <3>1, <3>2
    <2> QED
      BY <2>1, <2>2 DEF PushTableExact, Alive
  <1>6. PullEntriesValid'
    <2> SUFFICES ASSUME NEW m \in Names, pull[m] # null
                 PROVE  obj'[pull[m]] # null /\ obj'[pull[m]].kind = "pull" /\ obj'[pull[m]].name = m
      BY <1>2 DEF PullEntriesValid, Alive
    <2>1. pull[m] \in Ids /\ obj[pull[m]] # null /\ obj[pull[m]].kind = "pull" /\ obj[pull[m]].name = m
      BY DEF Inv, TypeOK, PullEntriesValid, Alive
    <2> QED
      BY <2>1, <1>1, <1>3
  <1>7. NoCallbackIntoFreed'
    BY <1>2, <1>3 DEF NoCallbackIntoFreed, Alive
  <1>8. MediaStaysInStream'
    BY <1>3 DEF MediaStaysInStream
  <1> QED
    BY <1>4, <1>5, <1>6, <1>7, <1>8 DEF Inv

(* create_pull_stream keeps the invariant.                                 *)
LEMMA CreatePullStreamInv ==
  ASSUME Inv, NEW i \in Ids, NEW u \in Uids, NEW n \in Names,
         CreatePullStream(i, u, n)
  PROVE  Inv'
  <1> USE NullAssumption, NullStreamAssumption
  <1> DEFINE old == Registered(pull, u, n)
  <1>1. /\ old \in Ids \cup {null}
        /\ old # null => Alive(old) /\ obj[old].kind = "pull" /\ obj[old].name = n /\ old = pull[n]
    BY DEF Inv, TypeOK, PullEntriesValid, Registered
  <1>2. /\ LoopIdle /\ NewStream(i, "pull", u, n, old)
        /\ pull' = [pull EXCEPT ![n] = i] /\ push' = push /\ emitting' = emitting
    BY DEF CreatePullStream
  <1> HIDE DEF old
  <1>3. /\ obj' \in [Ids -> RtcStreamType \cup {null}]
        /\ pc' \in [Ids -> {"none", "live", "destroying"}]
        /\ timer' \in [Ids -> {"none", "armed", "fired"}]
        /\ obj'[i] # null /\ obj'[i].kind = "pull" /\ obj'[i].name = n
        /\ old # i
        /\ old # null => obj'[old] = null
        /\ \A j \in Ids \ {i, old} : obj'[j] = obj[j]
        /\ \A j \in Ids : timer'[j] # "none" => obj'[j] # null
        /\ \A j \in Ids : obj'[j] # null => pc'[j] = "live"
        /\ obj[i] = null /\ emitting = null /\ media' = null
    BY <1>1, <1>2, NewStreamEffect
  <1>4. TypeOK'
    BY <1>2, <1>3 DEF Inv, TypeOK
  <1>5. PushTableExact'
    <2>1. ASSUME NEW j \in Ids, obj'[j] # null, obj'[j].kind = "push"
          PROVE  push[obj'[j].name] = j
      <3>1. j # i /\ j # old
        BY <2>1, <1>1, <1>3
      <3>2. obj'[j] = obj[j]
        BY <3>1, <1>3
      <3> QED
        BY <2>1, <3>2 DEF Inv, PushTableExact, Alive
    <2>2. ASSUME NEW m \in Names, push[m] # null
          PROVE  obj'[push[m]] # null /\ obj'[push[m]].kind = "push" /\ obj'[push[m]].name = m
      <3>1. push[m] \in Ids /\ obj[push[m]] # null /\ obj[push[m]].kind = "push" /\ obj[push[m]].name = m
        BY <2>2 DEF Inv, TypeOK, PushTableExact, Alive
      <3> QED
        BY <3>1, <1>1, <1>3
    <2> QED
      BY <2>1, <2>2, <1>2 DEF PushTableExact, Alive
  <1>6. PullEntriesValid'
    <2> SUFFICES ASSUME NEW m \in Names, pull'[m] # null
                 PROVE  obj'[pull'[m]] # null /\ obj'[pull'[m]].kind = "pull" /\ obj'[pull'[m]].name = m
      BY DEF PullEntriesValid, Alive
    <2>1. CASE m = n
      BY <2>1, <1>2, <1>3 DEF Inv, TypeOK
    <2>2. CASE m # n
      <3>1. pull'[m] = pull[m] /\ pull[m] \in Ids
        BY <2>2, <1>2 DEF Inv, TypeOK
      <3>2. obj[pull[m]] # null /\ obj[pull[m]].kind = "pull" /\ obj[pull[m]].name = m
        BY <3>1 DEF Inv, PullEntriesValid, Alive
      <3>3. pull[m] # i /\ pull[m] # old
        BY <3>1, <3>2, <2>2, <1>1, <1>3
      <3> QED
        BY <3>1, <3>2, <3>3, <1>3
    <2> QED
      BY <2>1, <2>2
  <1>7. NoCallbackIntoFreed'
    BY <1>2, <1>3 DEF NoCallbackIntoFreed, Alive
  <1>8. MediaStaysInStream'
    BY <1>3 DEF MediaStaysInStream
  <1> QED
    BY <1>4, <1>5, <1>6, <1>7, <1>8 DEF Inv
(* What a report or a timeout may have done before the manager is called:  *)
(* o has the streams of obj up to their states, t no timer without stream. *)
Prepared(o, t) ==
    /\ o \in [Ids -> RtcStreamType \cup {null}]
    /\ \A j \in Ids : o[j] = null <=> obj[j] = null
    /\ \A j \in Ids : obj[j] # null => o[j].kind = obj[j].kind /\ o[j].name = obj[j].name
    /\ t \in [Ids -> {"none", "armed", "fired"}]
    /\ \A j \in Ids : t[j] # "none" => obj[j] # null

(* The callback ends, or goes on inside a PeerConnection that exists.      *)
Returns ==
    /\ media' = null
    /\ emitting' \in Ids \cup {null}
    /\ emitting' # null => pc[emitting'] \in {"live", "destroying"}

(* Nothing is removed.                                                     *)
LEMMA KeepInv ==
  ASSUME Inv, NEW o, NEW t, Prepared(o, t), Returns,
         obj' = o, timer' = t, UNCHANGED <<pc, push, pull>>
  PROVE  Inv'
  <1> USE NullAssumption, NullStreamAssumption
  <1>1. TypeOK'
    BY DEF Inv, TypeOK, Prepared, Returns
  <1>2. PushTableExact'
    BY DEF Inv, TypeOK, PushTableExact, Prepared, Alive, RtcStreamType
  <1>3. PullEntriesValid'
    BY DEF Inv, TypeOK, PullEntriesValid, Prepared, Alive
  <1>4. NoCallbackIntoFreed'
    BY DEF Inv, NoCallbackIntoFreed, Prepared, Returns, Alive
  <1>5. MediaStaysInStream'
    BY DEF MediaStaysInStream, Returns
  <1> QED
    BY <1>1, <1>2, <1>3, <1>4, <1>5 DEF Inv

(* Stream d is deleted: the rest stays and the PeerConnection lingers.     *)
LEMMA DeleteEffect ==
  ASSUME Inv, NEW o, NEW t, Prepared(o, t), Returns, NEW d \in Ids, obj[d] # null,
         Delete(o, t, d)
  PROVE  /\ obj' \in [Ids -> RtcStreamType \cup {null}]
         /\ pc' \in [Ids -> {"none", "live", "destroying"}]
         /\ timer' \in [Ids -> {"none", "armed", "fired"}]
         /\ obj'[d] = null
         /\ \A j \in Ids \ {d} : /\ obj'[j] = null <=> obj[j] = null
                                 /\ obj[j] # null => /\ obj'[j].kind = obj[j].kind
                                                     /\ obj'[j].name = obj[j].name
         /\ NoCallbackIntoFreed'
  <1> USE NullAssumption, NullStreamAssumption
  <1>1. obj' = [o EXCEPT ![d] = null] /\ timer' = [t EXCEPT ![d] = "none"]
        /\ pc' = [pc EXCEPT ![d] = "destroying"]
    BY DEF Delete, TimerDeleted, Destroyed
  <1>2. /\ obj' \in [Ids -> RtcStreamType \cup {null}] /\ obj'[d] = null
        /\ \A j \in Ids \ {d} : obj'[j] = o[j]
    BY <1>1 DEF Prepared
  <1>3. /\ timer' \in [Ids -> {"none", "armed", "fired"}] /\ timer'[d] = "none"
        /\ \A j \in Ids \ {d} : timer'[j] = t[j]
    BY <1>1 DEF Prepared
  <1>4. /\ pc' \in [Ids -> {"none", "live", "destroying"}] /\ pc'[d] = "destroying"
        /\ \A j \in Ids \ {d} : pc'[j] = pc[j]
    BY <1>1 DEF Inv, TypeOK
  <1>5. NoCallbackIntoFreed'
    <2>1. \A j \in Ids : timer'[j] # "none" => obj'[j] # null
      BY <1>2, <1>3 DEF Prepared
    <2>2. \A j \in Ids : obj'[j] # null => pc'[j] = "live"
      BY <1>2, <1>4 DEF Prepared, Inv, NoCallbackIntoFreed, Alive
    <2>3. emitting' # null => pc'[emitting'] \in {"live", "destroying"}
      BY <1>4 DEF Returns
    <2> QED
      BY <2>1, <2>2, <2>3 DEF NoCallbackIntoFreed, Alive
  <1> QED
    BY <1>2, <1>3, <1>4, <1>5 DEF Prepared

(* _remove_push_stream keeps the invariant.                                *)
LEMMA RemovePushStreamInv ==
  ASSUME Inv, NEW o, NEW t, Prepared(o, t), Returns, emitting = null,
         NEW u \in Uids, NEW n \in Names, RemovePushStream(o, t, u, n)
  PROVE  Inv'
  <1> USE NullAssumption, NullStreamAssumption
  <1>1. CASE Registered(push, u, n) = null
    BY <1>1, KeepInv DEF RemovePushStream
  <1>2. CASE Registered(push, u, n) # null
    <2> DEFINE d == push[n]
    <2>1. d \in Ids /\ obj[d] # null /\ obj[d].kind = "push" /\ obj[d].name = n
      BY <1>2 DEF Registered, Inv, TypeOK, PushTableExact, Alive
    <2>2. Delete(o, t, d) /\ push' = [push EXCEPT ![n] = null] /\ pull' = pull
      BY <1>2 DEF RemovePushStream
    <2> HIDE DEF d
    <2>3. /\ obj' \in [Ids -> RtcStreamType \cup {null}]
          /\ pc' \in [Ids -> {"none", "live", "destroying"}]
          /\ timer' \in [Ids -> {"none", "armed", "fired"}]
          /\ obj'[d] = null
          /\ \A j \in Ids \ {d} : /\ obj'[j] = null <=> obj[j] = null
                                  /\ obj[j] # null => /\ obj'[j].kind = obj[j].kind
                                                      /\ obj'[j].name = obj[j].name
          /\ NoCallbackIntoFreed'
      BY <2>1, <2>2, DeleteEffect
    <2>4. TypeOK'
      BY <2>2, <2>3 DEF Inv, TypeOK, Returns
    <2>5. PushTableExact'
      <3>1. ASSUME NEW j \in Ids, obj'[j] # null, obj'[j].kind = "push"
            PROVE  push'[obj'[j].name] = j
        <4>1. j # d /\ obj[j] # null /\ obj[j].kind = "push" /\ obj'[j].name = obj[j].name
          BY <3>1, <2>3
        <4>2. push[obj[j].name] = j /\ obj[j].name \in Names
          BY <4>1 DEF Inv, TypeOK, PushTableExact, Alive, RtcStreamType
        <4>3. obj[j].name # n
          BY <4>1, <4>2 DEF d
        <4> QED
          BY <4>1, <4>2, <4>3, <2>2 DEF Inv, TypeOK
      <3>2. ASSUME NEW m \in Names, push'[m] # null
            PROVE  obj'[push'[m]] # null /\ obj'[push'[m]].kind = "push" /\ obj'[push'[m]].name = m
        <4>1. m # n /\ push'[m] = push[m] /\ push[m] \in Ids
          BY <3>2, <2>2 DEF Inv, TypeOK
        <4>2. obj[push[m]] # null /\ obj[push[m]].kind = "push" /\ obj[push[m]].name = m
          BY <4>1, <3>2 DEF Inv, PushTableExact, Alive
        <4>3. push[m] # d
          BY <4>1, <4>2, <2>1
        <4> QED
          BY <4>1, <4>2, <4>3, <2>3
      <3> QED
        BY <3>1, <3>2 DEF PushTableExact, Alive
    <2>6. PullEntriesValid'
      <3> SUFFICES ASSUME NEW m \in Names, pull[m] # null
                   PROVE  obj'[pull[m]] # null /\ obj'[pull[m]].kind = "pull" /\ obj'[pull[m]].name = m
        BY <2>2 DEF PullEntriesValid, Alive
      <3>1. pull[m] \in Ids /\ obj[pull[m]] # null /\ obj[pull[m]].kind = "pull" /\ obj[pull[m]].name = m
        BY DEF Inv, TypeOK, PullEntriesValid, Alive
      <3>2. pull[m] # d
        BY <3>1, <2>1
      <3> QED
        BY <3>1, <3>2, <2>3
    <2>7. MediaStaysInStream'
      BY DEF MediaStaysInStream, Returns
    <2> QED
      BY <2>3, <2>4, <2>5, <2>6, <2>7 DEF Inv
  <1> QED
    BY <1>1, <1>2

(* _remove_pull_stream keeps the invariant.                                *)
LEMMA RemovePullStreamInv ==
  ASSUME Inv, NEW o, NEW t, Prepared(o, t), Returns, emitting = null,
         NEW u \in Uids, NEW n \in Names, RemovePullStream(o, t, u, n)
  PROVE  Inv'
  <1> USE NullAssumption, NullStreamAssumption
  <1>1. CASE Registered(pull, u, n) = null
    BY <1>1, KeepInv DEF RemovePullStream
  <1>2. CASE Registered(pull, u, n) # null
    <2> DEFINE d == pull[n]
    <2>1. d \in Ids /\ obj[d] # null /\ obj[d].kind = "pull" /\ obj[d].name = n
      BY <1>2 DEF Registered, Inv, TypeOK, PullEntriesValid, Alive
    <2>2. Delete(o, t, d) /\ pull' = [pull EXCEPT ![n] = null] /\ push' = push
      BY <1>2 DEF RemovePullStream
    <2> HIDE DEF d
    <2>3. /\ obj' \in [Ids -> RtcStreamType \cup {null}]
          /\ pc' \in [Ids -> {"none", "live", "destroying"}]
          /\ timer' \in [Ids -> {"none", "armed", "fired"}]
          /\ obj'[d] = null
          /\ \A j \in Ids \ {d} : /\ obj'[j] = null <=> obj[j] = null
                                  /\ obj[j] # null => /\ obj'[j].kind = obj[j].kind
                                                      /\ obj'[j].name = obj[j].name
          /\ NoCallbackIntoFreed'
      BY <2>1, <2>2, DeleteEffect
    <2>4. TypeOK'
      BY <2>2, <2>3 DEF Inv, TypeOK, Returns
    <2>5. PushTableExact'
      <3>1. ASSUME NEW j \in Ids, obj'[j] # null, obj'[j].kind = "push"
            PROVE  push[obj'[j].name] = j
        BY <3>1, <2>3 DEF Inv, PushTableExact, Alive
      <3>2. ASSUME NEW m \in Names, push[m] # null
            PROVE  obj'[push[m]] # null /\ obj'[push[m]].kind = "push" /\ obj'[push[m]].name = m
        <4>1. push[m] \in Ids /\ obj[push[m]] # null /\ obj[push[m]].kind = "push" /\ obj[push[m]].name = m
          BY <3>2 DEF Inv, TypeOK, PushTableExact, Alive
        <4>2. push[m] # d
          BY <4>1, <2>1
        <4> QED
          BY <4>1, <4>2, <2>3
      <3> QED
        BY <3>1, <3>2, <2>2 DEF PushTableExact, Alive
    <2>6. PullEntriesValid'
      <3> SUFFICES ASSUME NEW m \in Names, pull'[m] # null
                   PROVE  obj'[pull'[m]] # null /\ obj'[pull'[m]].kind = "pull" /\ obj'[pull'[m]].name = m
        BY DEF PullEntriesValid, Alive
      <3>1. m # n /\ pull'[m] = pull[m] /\ pull[m] \in Ids
        BY <2>2 DEF Inv, TypeOK
      <3>2. obj[pull[m]] # null /\ obj[pull[m]].kind = "pull" /\ obj[pull[m]].name = m
        BY <3>1 DEF Inv, PullEntriesValid, Alive
      <3>3. pull[m] # d
        BY <3>1, <3>2, <2>1
      <3> QED
        BY <3>1, <3>2, <3>3, <2>3
    <2>7. MediaStaysInStream'
      BY DEF MediaStaysInStream, Returns
    <2> QED
      BY <2>3, <2>4, <2>5, <2>6, <2>7 DEF Inv
  <1> QED
    BY <1>1, <1>2

(* The manager's handlers for a failed stream keep the invariant.          *)
LEMMA RemoveLikeInv ==
  ASSUME Inv, NEW i \in Ids, obj[i] # null, NEW o, NEW t, Prepared(o, t), Returns,
         emitting = null, RemoveLike(i, o, t)
  PROVE  Inv'
  <1>1. obj[i].uid \in Uids /\ obj[i].name \in Names
    BY DEF Inv, TypeOK, RtcStreamType
  <1>2. \/ RemovePushStream(o, t, obj[i].uid, obj[i].name)
        \/ RemovePullStream(o, t, obj[i].uid, obj[i].name)
    BY DEF RemoveLike
  <1> QED
    BY <1>1, <1>2, RemovePushStreamInv, RemovePullStreamInv

(* What OnConnectionState and IceTimeout hand to the manager is prepared.  *)
LEMMA ReportPrepared ==
  ASSUME Inv, NEW i \in Ids, obj[i] # null, NEW s \in PeerConnectionState
  PROVE  /\ Prepared([obj EXCEPT ![i].state = s], timer)
         /\ Prepared([obj EXCEPT ![i].state = s], TimerDeleted(timer, i))
  <1> USE NullAssumption, NullStreamAssumption
  <1> DEFINE o == [obj EXCEPT ![i].state = s]
  <1>1. obj[i] \in RtcStreamType
    BY DEF Inv, TypeOK
  <1>2. [obj[i] EXCEPT !.state = s] \in RtcStreamType
    BY <1>1 DEF RtcStreamType
  <1>3. /\ [obj[i] EXCEPT !.state = s].kind = obj[i].kind
        /\ [obj[i] EXCEPT !.state = s].name = obj[i].name
    BY <1>1 DEF RtcStreamType
  <1>4. o \in [Ids -> RtcStreamType \cup {null}]
    BY <1>2 DEF Inv, TypeOK
  <1>5. o[i] = [obj[i] EXCEPT !.state = s] /\ \A j \in Ids \ {i} : o[j] = obj[j]
    BY DEF Inv, TypeOK
  <1> HIDE DEF o
  <1>6. /\ \A j \in Ids : o[j] = null <=> obj[j] = null
        /\ \A j \in Ids : obj[j] # null => o[j].kind = obj[j].kind /\ o[j].name = obj[j].name
    BY <1>2, <1>3, <1>5
  <1>7. /\ timer \in [Ids -> {"none", "armed", "fired"}]
        /\ \A j \in Ids : timer[j] # "none" => obj[j] # null
    BY DEF Inv, TypeOK, NoCallbackIntoFreed, Alive
  <1>8. /\ TimerDeleted(timer, i) \in [Ids -> {"none", "armed", "fired"}]
        /\ \A j \in Ids : TimerDeleted(timer, i)[j] # "none" => obj[j] # null
    BY <1>7 DEF TimerDeleted
  <1> QED
    BY <1>4, <1>6, <1>7, <1>8 DEF Prepared, o

(* A state change that leaves every stream alone is prepared as it stands. *)
LEMMA PlainPrepared ==
  ASSUME Inv
  PROVE  /\ Prepared(obj, timer)
         /\ \A i \in Ids : obj[i] # null => Prepared(obj, [timer EXCEPT ![i] = "fired"])
  <1>1. /\ obj \in [Ids -> RtcStreamType \cup {null}]
        /\ timer \in [Ids -> {"none", "armed", "fired"}]
        /\ \A j \in Ids : timer[j] # "none" => obj[j] # null
    BY DEF Inv, TypeOK, NoCallbackIntoFreed, Alive
  <1>2. ASSUME NEW i \in Ids, obj[i] # null
        PROVE  /\ [timer EXCEPT ![i] = "fired"] \in [Ids -> {"none", "armed", "fired"}]
               /\ \A j \in Ids : [timer EXCEPT ![i] = "fired"][j] # "none" => obj[j] # null
    BY <1>1, <1>2
  <1> QED
    BY <1>1, <1>2 DEF Prepared

(* A state change reported by a PeerConnection keeps the invariant, also   *)
(* when its handlers delete the stream that owns it.                       *)
LEMMA OnConnectionStateInv ==
  ASSUME Inv, NEW i \in Ids, NEW s \in PeerConnectionState, OnConnectionState(i, s)
  PROVE  Inv'
  <1> DEFINE o == [obj EXCEPT ![i].state = s]
  <1>1. Returns /\ emitting = null
    BY DEF OnConnectionState, LoopIdle, Returns
  <1>2. CASE UNCHANGED <<obj, pc, timer, push, pull>>
    BY <1>1, <1>2, PlainPrepared, KeepInv
  <1>3. CASE Alive(i) /\ s = "failed" /\ RemoveLike(i, o, timer)
    BY <1>1, <1>3, ReportPrepared, RemoveLikeInv DEF Alive
  <1>4. CASE /\ Alive(i)
             /\ obj' = o
             /\ timer' = IF s = "connected" THEN TimerDeleted(timer, i) ELSE timer
             /\ UNCHANGED <<pc, push, pull>>
    <2>1. Prepared(o, timer) /\ Prepared(o, TimerDeleted(timer, i))
      BY <1>4, ReportPrepared DEF Alive
    <2>2. Prepared(o, timer')
      BY <1>4, <2>1
    <2> QED
      BY <1>1, <1>4, <2>2, KeepInv
  <1> QED
    BY <1>2, <1>3, <1>4 DEF OnConnectionState

(* The 30 s ice timer keeps the invariant.                                 *)
LEMMA IceTimeoutInv ==
  ASSUME Inv, NEW i \in Ids, IceTimeout(i)
  PROVE  Inv'
  <1> DEFINE t == [timer EXCEPT ![i] = "fired"]
  <1>1. emitting = null /\ emitting' = null /\ media' = null /\ timer[i] = "armed"
    BY DEF IceTimeout, LoopIdle
  <1>2. Returns
    BY <1>1 DEF Returns
  <1>3. obj[i] # null
    BY <1>1 DEF Inv, NoCallbackIntoFreed, Alive
  <1>4. Prepared(obj, t)
    BY <1>3, PlainPrepared
  <1>5. CASE RemoveLike(i, obj, t)
    BY <1>1, <1>2, <1>3, <1>4, <1>5, RemoveLikeInv
  <1>6. CASE timer' = t /\ UNCHANGED <<obj, pc, push, pull>>
    BY <1>2, <1>4, <1>6, KeepInv
  <1> QED
    BY <1>5, <1>6 DEF IceTimeout

(* The callbacks that neither create nor remove a stream.                  *)
LEMMA StoreStateInv == Inv /\ StoreState => Inv'
  BY PlainPrepared, KeepInv DEF StoreState, Returns

(* The deferred deletion of a PeerConnection keeps the invariant.          *)
LEMMA DestroyTimerInv ==
  ASSUME Inv, NEW i \in Ids, DestroyTimer(i)
  PROVE  Inv'
  <1>1. /\ emitting = null /\ emitting' = null /\ media' = null
        /\ pc[i] = "destroying" /\ pc' = [pc EXCEPT ![i] = "none"]
        /\ UNCHANGED <<obj, timer, push, pull>>
    BY DEF DestroyTimer, LoopIdle
  <1>2. TypeOK'
    BY <1>1 DEF Inv, TypeOK
  <1>3. PushTableExact' /\ PullEntriesValid'
    BY <1>1 DEF Inv, PushTableExact, PullEntriesValid, Alive
  <1>4. NoCallbackIntoFreed'
    BY <1>1 DEF Inv, TypeOK, NoCallbackIntoFreed, Alive
  <1>5. MediaStaysInStream'
    BY <1>1 DEF MediaStaysInStream
  <1> QED
    BY <1>2, <1>3, <1>4, <1>5 DEF Inv

(* Handing a packet on, looked up by stream name, keeps the invariant.     *)
LEMMA HandedInv ==
  ASSUME Inv, NEW i \in Ids, NEW j, Handed(i, j), Alive(i),
         \/ obj[i].kind = "push" /\ j = pull[obj[i].name]
         \/ obj[i].kind = "pull" /\ j = push[obj[i].name]
  PROVE  Inv'
  <1> USE NullAssumption, NullStreamAssumption
  <1>1. /\ j # null /\ media' = [from |-> i, to |-> j]
        /\ UNCHANGED <<obj, pc, timer, push, pull, emitting>>
    BY DEF Handed
  <1>2. obj[i].name \in Names
    BY DEF Inv, TypeOK, Alive, RtcStreamType
  <1>3. j \in Ids /\ obj[j] # null /\ obj[j].name = obj[i].name /\ obj[j].kind # obj[i].kind
    BY <1>1, <1>2 DEF Inv, TypeOK, PushTableExact, PullEntriesValid, Alive
  <1>4. TypeOK'
    BY <1>1, <1>3 DEF Inv, TypeOK
  <1>5. PushTableExact' /\ PullEntriesValid' /\ NoCallbackIntoFreed'
    BY <1>1 DEF Inv, PushTableExact, PullEntriesValid, NoCallbackIntoFreed, Alive
  <1>6. MediaStaysInStream'
    BY <1>1, <1>3 DEF MediaStaysInStream, Alive
  <1> QED
    BY <1>4, <1>5, <1>6 DEF Inv

(* Every callback of the worker keeps the invariant.                       *)
LEMMA NextInv == Inv /\ [Next]_vars => Inv'
  <1> SUFFICES ASSUME Inv, [Next]_vars PROVE Inv'
    OBVIOUS
  <1>1. ASSUME NEW u \in Uids, NEW n \in Names, NEW i \in Ids,
               CreatePushStream(i, u, n) \/ CreatePullStream(i, u, n)
        PROVE  Inv'
    BY <1>1, CreatePushStreamInv, CreatePullStreamInv
  <1>2. ASSUME NEW u \in Uids, NEW n \in Names, StopPush(u, n) \/ StopPull(u, n)
        PROVE  Inv'
    <2>1. emitting = null /\ Returns
      BY <1>2 DEF StopPush, StopPull, LoopIdle, Returns
    <2>2. RemovePushStream(obj, timer, u, n) \/ RemovePullStream(obj, timer, u, n)
      BY <1>2 DEF StopPush, StopPull
    <2> QED
      BY <2>1, <2>2, PlainPrepared, RemovePushStreamInv, RemovePullStreamInv
  <1>3. ASSUME NEW i \in Ids, NEW s \in PeerConnectionState, OnConnectionState(i, s)
        PROVE  Inv'
    BY <1>3, OnConnectionStateInv
  <1>4. ASSUME NEW i \in Ids, IceTimeout(i) \/ DestroyTimer(i)
        PROVE  Inv'
    BY <1>4, IceTimeoutInv, DestroyTimerInv
  <1>5. ASSUME NEW i \in Ids, OnRtpPacketReceived(i) \/ OnRtcpPacketReceived(i)
        PROVE  Inv'
    BY <1>5, HandedInv DEF OnRtpPacketReceived, OnRtcpPacketReceived
  <1>6. CASE StoreState
    BY <1>6, StoreStateInv
  <1>7. CASE UNCHANGED vars
    BY <1>7 DEF vars, Inv, TypeOK, PushTableExact, PullEntriesValid,
                NoCallbackIntoFreed, MediaStaysInStream, Alive
  <1> QED
    BY <1>1, <1>2, <1>3, <1>4, <1>5, <1>6, <1>7 DEF Next

(* The tables, the timers and the PeerConnections stay consistent through  *)
(* every sequence of callbacks.                                            *)
THEOREM Invariant == Spec => []Inv
  BY InitInv, NextInv, PTL DEF Spec

(* The state of RtcStreamManager keeps its type.                           *)
THEOREM TypeCorrect == Spec => []TypeOK
  BY Invariant, PTL DEF Inv

(* push_streams_ holds exactly the PushStreams that exist.                 *)
THEOREM PushTable == Spec => []PushTableExact
  BY Invariant, PTL DEF Inv

(* pull_streams_ never holds a deleted or a foreign stream.                *)
THEOREM PullTable == Spec => []PullEntriesValid
  BY Invariant, PTL DEF Inv

(* Both tables of RtcStreamManager are sound.                              *)
THEOREM StreamTables == Spec => []TablesSound
  BY PushTable, PullTable, PTL DEF TablesSound

(* No timer, signal or return reaches a deleted RtcStream or               *)
(* PeerConnection.                                                         *)
THEOREM CallbackSafety == Spec => []NoCallbackIntoFreed
  BY Invariant, PTL DEF Inv

(* Packets are handed on within one stream name, from publisher to puller  *)
(* or back.                                                                *)
THEOREM MediaRouting == Spec => []MediaStaysInStream
  BY Invariant, PTL DEF Inv

(* What a failed or timed-out stream removes besides itself.               *)
LEMMA ReportsLocal ==
  ASSUME Inv, NEW i \in Ids, Reports(i),
         NEW j \in Ids, j # i, Alive(j), obj'[j] = null
  PROVE  DisplacedBy(i, j)
  <1> USE NullAssumption, NullStreamAssumption
  <1>1. /\ Alive(i)
        /\ \E o, t : /\ RemoveLike(i, o, t)
                     /\ o \in [Ids -> RtcStreamType \cup {null}] /\ o[j] = obj[j]
    <2>1. CASE IceTimeout(i)
      BY <2>1 DEF IceTimeout, Inv, TypeOK, NoCallbackIntoFreed, Alive
    <2>2. ASSUME NEW s \in PeerConnectionState, OnConnectionState(i, s)
          PROVE  /\ Alive(i)
                 /\ \E o, t : /\ RemoveLike(i, o, t)
                              /\ o \in [Ids -> RtcStreamType \cup {null}] /\ o[j] = obj[j]
      <3> DEFINE o == [obj EXCEPT ![i].state = s]
      <3>1. o[j] = obj[j]
        BY DEF Inv, TypeOK
      <3>2. ~UNCHANGED obj /\ obj' # o
        BY <3>1 DEF Alive
      <3>3. Alive(i) /\ RemoveLike(i, o, timer)
        BY <2>2, <3>2 DEF OnConnectionState
      <3> QED
        BY <3>1, <3>3, ReportPrepared DEF Alive, Prepared
    <2> QED
      BY <2>1, <2>2 DEF Reports
  <1>2. ASSUME NEW o, NEW t, RemoveLike(i, o, t),
               o \in [Ids -> RtcStreamType \cup {null}], o[j] = obj[j]
        PROVE  DisplacedBy(i, j)
    <2> DEFINE n == obj[i].name
    <2>1. n \in Names /\ obj' # o /\ Alive(i)
      BY <1>1, <1>2 DEF Inv, TypeOK, Alive, RtcStreamType
    <2>2. CASE obj[i].kind = "push" /\ obj' = [o EXCEPT ![push[n]] = null]
      <3>1. push[n] = i
        BY <2>1, <2>2 DEF Inv, PushTableExact
      <3> QED
        BY <1>2, <2>2, <3>1 DEF Alive
    <2>3. CASE /\ obj[i].kind = "pull" /\ Registered(pull, obj[i].uid, n) # null
               /\ obj' = [o EXCEPT ![pull[n]] = null]
      <3>1. pull[n] = j
        BY <1>2, <2>3 DEF Alive
      <3>2. obj[j].kind = "pull" /\ obj[j].name = n /\ obj[j].uid = obj[i].uid
        BY <2>1, <2>3, <3>1 DEF Inv, PullEntriesValid, Registered
      <3> QED
        BY <2>1, <2>3, <3>1, <3>2 DEF DisplacedBy, InTable, Table
    <2> QED
      BY <1>2, <2>1, <2>2, <2>3
         DEF RemoveLike, RemovePushStream, RemovePullStream, Delete
  <1> QED
    BY <1>1, <1>2

(* The failure or timeout of one stream deletes no other stream, although  *)
(* the manager looks the stream up again by uid and name; the exception is *)
(* the newer PullStream of a user whose older one was displaced.           *)
THEOREM FailuresAreLocal == Spec => FailureIsLocal
  <1>1. Inv => [\A i, j \in Ids :
                  Reports(i) /\ j # i /\ Alive(j) /\ obj'[j] = null
                     => DisplacedBy(i, j)]_vars
    BY ReportsLocal
  <1> QED
    BY <1>1, Invariant, PTL DEF FailureIsLocal

(* pull_streams_ changes only by create_pull_stream and by a removal that  *)
(* deletes the stream of the entry it clears.                              *)
LEMMA PullChanges ==
  ASSUME Inv, Next
  PROVE  \/ UNCHANGED pull
         \/ \E n \in Names : /\ pull' = [pull EXCEPT ![n] = null]
                             /\ obj'[pull[n]] = null
         \/ \E i \in Ids, u \in Uids, n \in Names : CreatePullStream(i, u, n)
  <1> DEFINE Cleared == \E n \in Names : /\ pull' = [pull EXCEPT ![n] = null]
                                         /\ obj'[pull[n]] = null
  <1>1. ASSUME NEW o, NEW t, NEW u, NEW n \in Names, RemovePullStream(o, t, u, n),
               o \in [Ids -> RtcStreamType \cup {null}]
        PROVE  UNCHANGED pull \/ Cleared
    <2>1. pull[n] \in Ids \cup {null}
      BY DEF Inv, TypeOK
    <2> QED
      BY <1>1, <2>1 DEF RemovePullStream, Registered, Delete
  <1>2. ASSUME NEW i \in Ids, Alive(i), NEW o, NEW t, RemoveLike(i, o, t),
               o \in [Ids -> RtcStreamType \cup {null}]
        PROVE  UNCHANGED pull \/ Cleared
    <2>1. obj[i].name \in Names
      BY <1>2 DEF Inv, TypeOK, Alive, RtcStreamType
    <2> QED
      BY <1>1, <1>2, <2>1 DEF RemoveLike, RemovePushStream
  <1>3. ASSUME NEW i \in Ids, NEW s \in PeerConnectionState, OnConnectionState(i, s)
        PROVE  UNCHANGED pull \/ Cleared
    <2>1. Alive(i) => [obj EXCEPT ![i].state = s] \in [Ids -> RtcStreamType \cup {null}]
      BY ReportPrepared DEF Prepared, Alive
    <2> QED
      BY <1>2, <1>3, <2>1 DEF OnConnectionState
  <1>4. ASSUME NEW i \in Ids, IceTimeout(i)
        PROVE  UNCHANGED pull \/ Cleared
    <2>1. Alive(i) /\ obj \in [Ids -> RtcStreamType \cup {null}]
      BY <1>4 DEF IceTimeout, Inv, TypeOK, NoCallbackIntoFreed
    <2> QED
      BY <1>2, <1>4, <2>1 DEF IceTimeout
  <1>5. ASSUME NEW u \in Uids, NEW n \in Names, StopPull(u, n)
        PROVE  UNCHANGED pull \/ Cleared
    BY <1>1, <1>5 DEF StopPull, Inv, TypeOK
  <1>6. ASSUME NEW u \in Uids, NEW n \in Names,
               StopPush(u, n) \/ \E i \in Ids : CreatePushStream(i, u, n)
        PROVE  UNCHANGED pull
    BY <1>6 DEF StopPush, RemovePushStream, CreatePushStream
  <1>7. ASSUME NEW i \in Ids,
               DestroyTimer(i) \/ OnRtpPacketReceived(i) \/ OnRtcpPacketReceived(i)
        PROVE  UNCHANGED pull
    BY <1>7 DEF DestroyTimer, OnRtpPacketReceived, OnRtcpPacketReceived, Handed
  <1>8. StoreState => UNCHANGED pull
    BY DEF StoreState
  <1> QED
    BY <1>3, <1>4, <1>5, <1>6, <1>7, <1>8 DEF Next

(* No callback forgets a registered PullStream that lives on, except the   *)
(* create_pull_stream of another user.                                     *)
LEMMA EntryKept ==
  ASSUME Inv, [Next]_vars, NEW i \in Ids
  PROVE  KeepsEntry(i)
  <1> USE NullAssumption, NullStreamAssumption
  <1> SUFFICES ASSUME InTable(i), obj[i].kind = "pull", obj'[i] # null
               PROVE  \/ pull'[obj[i].name] = i
                      \/ /\ pull'[obj[i].name] # null
                         /\ obj'[pull'[obj[i].name]].uid # obj[i].uid
    BY DEF KeepsEntry
  <1>1. obj[i].name \in Names /\ pull[obj[i].name] = i /\ pull \in [Names -> Ids \cup {null}]
    BY DEF Inv, TypeOK, InTable, Alive, Table, RtcStreamType
  <1>2. CASE UNCHANGED pull
    BY <1>1, <1>2
  <1>3. CASE \E n \in Names : pull' = [pull EXCEPT ![n] = null] /\ obj'[pull[n]] = null
    BY <1>1, <1>3
  <1>4. ASSUME NEW k \in Ids, NEW u \in Uids, NEW n \in Names, CreatePullStream(k, u, n)
        PROVE  \/ pull'[obj[i].name] = i
               \/ pull'[obj[i].name] # null /\ obj'[pull'[obj[i].name]].uid # obj[i].uid
    <2> DEFINE old == Registered(pull, u, n)
    <2>1. pull' = [pull EXCEPT ![n] = k] /\ LoopIdle /\ NewStream(k, "pull", u, n, old)
      BY <1>4 DEF CreatePullStream
    <2>2. old \in Ids \cup {null} /\ (old # null => Alive(old))
      BY <1>1 DEF Registered, Inv, PullEntriesValid
    <2>3. obj'[k].uid = u /\ (old # null => obj'[old] = null)
      BY <2>1, <2>2, NewStreamEffect
    <2>4. CASE n # obj[i].name
      BY <1>1, <2>1, <2>4
    <2>5. CASE n = obj[i].name
      <3>1. obj[i].uid # u
        BY <1>1, <2>3, <2>5 DEF Registered
      <3> QED
        BY <1>1, <2>1, <2>3, <2>5, <3>1
    <2> QED
      BY <2>4, <2>5
  <1>5. CASE UNCHANGED vars
    BY <1>1, <1>5 DEF vars
  <1> QED
    BY <1>2, <1>3, <1>4, <1>5, PullChanges

(* A PullStream loses its entry only to a stream of another user.          *)
THEOREM PullersKept == Spec => PullEntryLostOnlyToOther
  <1>1. Inv /\ [Next]_vars => [\A i \in Ids : KeepsEntry(i)]_vars
    BY EntryKept
  <1> QED
    BY <1>1, Invariant, PTL DEF PullEntryLostOnlyToOther, Spec
=============================================================================

--------------------------- MODULE LobbyAdmission ---------------------------
(* How players get into a lobby of the service and out of it: one-use        *)
(* invitations, join_lobby (reserve, mint at the provider, record), the      *)
(* participant capability, leave_lobby and the keys left behind (service.rs, *)
(* store.rs, provider.rs).  Two writes of join_lobby reach the store, one    *)
(* before the provider is asked and one after; a client that hangs up or a   *)
(* crash may end the request between any two of its steps.                   *)
(*                                                                           *)
(* A key, its reservation and its stored credential are named by the number  *)
(* of the issuance they belong to.  Reservation and credential lapse five    *)
(* minutes after the clock was read; the key lives five minutes from the     *)
(* moment it was made, so it outlasts them by the time the request took.     *)
EXTENDS Naturals, FiniteSets, Sequences, SequencesExt

CONSTANTS
    Rider,         \* player ids
    Invitation,    \* invitations the creator may hand out
    Capacity,      \* max_players
    AttemptLimit,  \* MAX_JOIN_ATTEMPTS_PER_PLAYER
    MaxIssued      \* bound on issuances

VARIABLES
    admission,  \* the stored record
    join,       \* the join_lobby that holds the lobby lock, NoJoin if none
    issued,     \* issuances so far
    keys,       \* provider: [issuance -> the rider a key was made for, 0 if none]
    lapsed,     \* issuances whose recorded expires_at is past
    dead,       \* issuances whose key expired or was revoked at the provider
    spent,      \* history: reservations, with the keys that outlasted their
                \* record at the time
    leaving,    \* riders with a leave request past authorize_scope
    dropped     \* history: issuances in doubt that a leave forgot

vars == <<admission, join, issued, keys, lapsed, dead, spent, leaving, dropped>>

NoJoin == [rider |-> 0, key |-> 0, request |-> 0, minted |-> FALSE]

Init ==
    /\ admission = [state |-> "Forming", roster |-> {}, capable |-> {},
                    invitations |-> [i \in Invitation |-> "none"],
                    credential |-> [p \in Rider |-> 0], revoked |-> {},
                    pending |-> [p \in Rider |-> 0], replays |-> {}, attempts |-> <<>>,
                    cleanup |-> FALSE]
    /\ join = NoJoin /\ issued = 0 /\ keys = [k \in 1..MaxIssued |-> 0]
    /\ lapsed = {} /\ dead = {} /\ spent = {} /\ leaving = {} /\ dropped = {}

Unlocked == join = NoJoin

(* A credential the record takes for usable.                                 *)
LiveCredential(a, p) == a.credential[p] # 0 /\ a.credential[p] \notin a.revoked \cup lapsed

Attempts(a, p) == Len(SelectSeq(a.attempts, LAMBDA q : q = p))

-----------------------------------------------------------------------------
(* create_invitation; invitations are numbered as they are made.             *)
CreateInvitation(i) ==
    /\ Unlocked /\ admission.state = "Forming"
    /\ \A j \in Invitation : admission.invitations[j] = "none" <=> j >= i
    /\ admission' = [admission EXCEPT !.invitations[i] = "live"]
    /\ UNCHANGED <<join, issued, keys, lapsed, dead, spent, leaving, dropped>>

(* join_lobby of a member whose credential is usable: a receipt and nothing  *)
(* else.  A request already answered (join_replays) changes nothing at all.  *)
JoinAgain(p, r) ==
    /\ Unlocked /\ admission.state = "Forming" /\ p \in admission.roster
    /\ LiveCredential(admission, p) /\ ~\E replay \in admission.replays : replay.request = r
    /\ admission' = [admission EXCEPT !.replays = @ \cup {[request |-> r, rider |-> p]}]
    /\ UNCHANGED <<join, issued, keys, lapsed, dead, spent, leaving, dropped>>

(* What join_lobby asks before it makes a reservation.                       *)
Admits(a, p) ==
    /\ a.state = "Forming"
    /\ p \notin a.roster => Cardinality(a.roster) < Capacity
    /\ ~LiveCredential(a, p)
    /\ a.pending[p] = 0 \/ a.pending[p] \in lapsed
    /\ Attempts(a, p) < AttemptLimit

(* The reservation: the invitation, the attempt and the issuance in doubt    *)
(* become durable with one write.                                            *)
Reservation(a, p, i) ==
    [a EXCEPT !.invitations[i] = "used", !.pending[p] = issued + 1, !.attempts = Append(@, p)]

(* Keys that live on although their record lapsed.                           *)
Outlasting == {k \in lapsed : keys[k] # 0} \ dead

Reserve(p, r, i) ==
    /\ Unlocked /\ issued < MaxIssued
    /\ ~\E replay \in admission.replays : replay.request = r
    /\ Admits(admission, p) /\ admission.invitations[i] = "live"
    /\ admission' = Reservation(admission, p, i)
    /\ join' = [rider |-> p, key |-> issued + 1, request |-> r, minted |-> FALSE]
    /\ issued' = issued + 1
    /\ spent' = spent \cup {[invitation |-> i, issuance |-> issued + 1, rider |-> p,
                             late |-> Outlasting]}
    /\ UNCHANGED <<keys, lapsed, dead, leaving, dropped>>

(* mint_credential at the provider: a single-use key with a time to live of  *)
(* its own, once the policy of a dedicated tailnet was read back.            *)
MintCredential ==
    /\ join # NoJoin /\ ~join.minted
    /\ keys' = [keys EXCEPT ![join.key] = join.rider] /\ join' = [join EXCEPT !.minted = TRUE]
    /\ UNCHANGED <<admission, issued, lapsed, dead, spent, leaving, dropped>>

(* The provider answers with a key: the player is in.                        *)
RecordJoin ==
    /\ join.minted
    /\ admission' =
          [admission EXCEPT !.pending[join.rider] = 0, !.roster = @ \cup {join.rider},
                            !.capable = @ \cup {join.rider},
                            !.credential[join.rider] = join.key,
                            !.replays = @ \cup {[request |-> join.request, rider |-> join.rider]}]
    /\ join' = NoJoin
    /\ UNCHANGED <<issued, keys, lapsed, dead, spent, leaving, dropped>>

(* Fault: a timeout is taken for a refusal and cleanup is not asked for.     *)
MintFailedForgiven(a, p, ambiguous) == [a EXCEPT !.pending[p] = 0]

(* The provider refuses or cannot be reached in time.  The lobby fails, its  *)
(* network is to be cleaned up; an issuance in doubt stays on record.        *)
MintFailed(a, p, ambiguous) ==
    [a EXCEPT !.state = "Failed", !.cleanup = TRUE,
              !.pending[p] = IF ambiguous THEN @ ELSE 0]

RefuseJoin ==
    /\ join # NoJoin
    /\ \E ambiguous \in BOOLEAN :
          /\ join.minted => ambiguous
          /\ admission' = MintFailed(admission, join.rider, ambiguous)
    /\ join' = NoJoin
    /\ UNCHANGED <<issued, keys, lapsed, dead, spent, leaving, dropped>>

(* The request ends here: the client hung up or the process died.            *)
AbandonJoin ==
    /\ join # NoJoin /\ join' = NoJoin
    /\ UNCHANGED <<admission, issued, keys, lapsed, dead, spent, leaving, dropped>>

-----------------------------------------------------------------------------
(* authorize_scope of leave_lobby runs before the lobby lock is taken.       *)
AuthorizeLeave(p) ==
    /\ p \in admission.capable \ leaving /\ leaving' = leaving \cup {p}
    /\ UNCHANGED <<admission, join, issued, keys, lapsed, dead, spent, dropped>>

(* leave_lobby after its cleanup: the key of the leaver is revoked, or the   *)
(* provider could not do it; devices are always left to a later sweep.       *)
Departed(a, p, done) ==
    [a EXCEPT !.roster = @ \ {p}, !.pending[p] = 0, !.capable = @ \ {p},
              !.replays = {r \in @ : r.rider # p},
              !.revoked = IF done THEN @ \cup {a.credential[p]} ELSE @,
              !.cleanup = TRUE]

(* A leave sent twice comes again, however late.                             *)
Leave(p) ==
    /\ Unlocked /\ p \in leaving /\ leaving' \in {leaving, leaving \ {p}}
    /\ admission.state \in {"Forming", "InMatch"}
    /\ IF p \notin admission.roster THEN UNCHANGED <<admission, dead, dropped>>
       ELSE \E done \in BOOLEAN :
               /\ admission' = Departed(admission, p, done)
               /\ dead' = IF done THEN dead \cup {admission.credential[p]} ELSE dead
               /\ dropped' = dropped \cup ({admission.pending[p]} \ {0})
    /\ UNCHANGED <<join, issued, keys, lapsed, spent>>

(* The match starts: no more joins.                                          *)
Start ==
    /\ Unlocked /\ admission.state = "Forming" /\ admission.roster # {}
    /\ admission' = [admission EXCEPT !.state = "InMatch"]
    /\ UNCHANGED <<join, issued, keys, lapsed, dead, spent, leaving, dropped>>

(* delete_lobby or a deadline: everything is to be cleaned up.               *)
Close ==
    /\ Unlocked /\ admission.state \in {"Forming", "InMatch"}
    /\ admission' = [admission EXCEPT !.state = "Closing", !.cleanup = TRUE]
    /\ UNCHANGED <<join, issued, keys, lapsed, dead, spent, leaving, dropped>>

(* Time: a record lapses, a key or an invitation expires, a join attempt     *)
(* leaves the window.  A request is answered within                          *)
(* PROVIDER_OPERATION_TIMEOUT, a tenth of the life of a record, so a key that *)
(* had outlasted its record when an issuance was reserved is gone before that *)
(* one lapses.                                                               *)
RecordLapses(k) ==
    /\ k \in 1..issued \ lapsed /\ k # join.key
    /\ \A s \in spent : s.issuance = k => s.late \subseteq dead
    /\ lapsed' = lapsed \cup {k}
    /\ UNCHANGED <<admission, join, issued, keys, dead, spent, leaving, dropped>>

KeyExpires(k) ==
    /\ k \in Outlasting /\ dead' = dead \cup {k}
    /\ UNCHANGED <<admission, join, issued, keys, lapsed, spent, leaving, dropped>>

InvitationExpires(i) ==
    /\ admission.invitations[i] = "live"
    /\ admission' = [admission EXCEPT !.invitations[i] = "expired"]
    /\ UNCHANGED <<join, issued, keys, lapsed, dead, spent, leaving, dropped>>

AttemptAges ==
    /\ Unlocked /\ admission.attempts # <<>>
    /\ admission' = [admission EXCEPT !.attempts = Tail(@)]
    /\ UNCHANGED <<join, issued, keys, lapsed, dead, spent, leaving, dropped>>

Next ==
    \/ \E i \in Invitation : CreateInvitation(i) \/ InvitationExpires(i)
    \/ \E p \in Rider, r \in 1..2 : JoinAgain(p, r) \/ \E i \in Invitation : Reserve(p, r, i)
    \/ MintCredential \/ RecordJoin \/ RefuseJoin \/ AbandonJoin
    \/ \E p \in Rider : AuthorizeLeave(p) \/ Leave(p)
    \/ Start \/ Close \/ AttemptAges
    \/ \E k \in 1..MaxIssued : RecordLapses(k) \/ KeyExpires(k)

Spec == Init /\ [][Next]_vars
-----------------------------------------------------------------------------
LiveKeys(p) == {k \in 1..MaxIssued : keys[k] = p} \ dead

(* "A prior credential issuance has an ambiguous outcome; retry after its    *)
(* expiry": a player never holds two live keys whose records stand, hang-ups, *)
(* crashes and timeouts between reservation and record included, unless it   *)
(* left the lobby with an issuance in doubt.  Beside a key whose record      *)
(* stands, one key that outlasts its record may live on, and no third.       *)
OneLiveKeyPerPlayer ==
    \A p \in Rider :
        /\ \A k, l \in LiveKeys(p) \ (dropped \cup lapsed) : k = l
        /\ \A k, l, m \in LiveKeys(p) \ dropped : k = l \/ l = m \/ k = m

(* A one-use invitation pays for one issuance, whatever becomes of it.       *)
InvitationAdmitsOnce == \A s, t \in spent : s.invitation = t.invitation => s = t

(* Every live key is the credential of a member, an issuance on record as in *)
(* doubt, or belongs to a lobby with cleanup pending; a key that outlasts    *)
(* its record may be forgotten, but only for the next issuance.              *)
LiveKeysAreAccountedFor ==
    \A p \in Rider : \A k \in LiveKeys(p) :
        \/ p \in admission.roster /\ admission.credential[p] = k
        \/ admission.pending[p] = k
        \/ admission.cleanup
        \/ \E s \in spent : s.rider = p /\ k \in s.late

(* The three together. *)
KeysAreAccountedFor == OneLiveKeyPerPlayer /\ InvitationAdmitsOnce /\ LiveKeysAreAccountedFor
=============================================================================

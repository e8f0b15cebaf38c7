------------------------------ MODULE Account ------------------------------
(***************************************************************************)
(* What the system holds about one person: the ledger of consents and what *)
(* the screen makes of it, the sessions on other devices, the profile, and *)
(* the invitations that raise a role.  Of the five kinds of consent only   *)
(* stranger_matching has a reader and is kept.                             *)
(***************************************************************************)
EXTENDS ConsoleBase

CONSTANTS
    Minor,            \* whether the person is under 18
    MaxGrants,        \* bound on the ledger
    Devices,          \* other sessions of the person
    Invites,          \* invitations of one centre to the person's number
    InvitedAs,        \* invitation -> rank: 1 student, 2 teacher, 3 centre_admin
    Names             \* values of the profile

ASSUME AccountAssumption == \A i \in Invites : InvitedAs[i] \in Nat

VARIABLES
    consents,         \* rows [by, live] in the order granted (the server)
    sessions,         \* the devices whose session is not revoked (the server)
    profile,          \* the stored name (the server)
    inviteState,      \* invitation -> "pending", "accepted", "withdrawn" (the server)
    role,             \* rank of the membership, 0 for none (the server)
    consentsShown, devicesShown, invitesShown,   \* as last fetched
    consentForm,      \* [by, doc, contact]
    recordingConsent, \* the pending POST, or None
    nameDraft, saved,
    joined            \* the role the screen says was joined as, or None

accountServer == <<consents, sessions, profile, inviteState, role>>
fetched == <<consentsShown, devicesShown, invitesShown>>
consentVars == <<consentForm, recordingConsent>>
profileVars == <<nameDraft, saved>>
accountVars == <<accountServer, fetched, consentVars, profileVars, joined>>

BlankConsent == [by |-> "self", doc |-> FALSE, contact |-> FALSE]

AccountInit ==
    /\ consents = <<>> /\ sessions = Devices
    /\ profile \in Names /\ nameDraft = profile
    /\ inviteState = [i \in Invites |-> "pending"] /\ role = 0
    /\ consentsShown = <<>> /\ devicesShown = {} /\ invitesShown = {}
    /\ consentForm = BlankConsent /\ recordingConsent = None
    /\ saved = FALSE /\ joined = None

-----------------------------------------------------------------------------
(* Consents. *)

ConsentsLoaded ==
    /\ consentsShown # consents
    /\ consentsShown' = consents
    /\ UNCHANGED <<accountServer, devicesShown, invitesShown, consentVars,
                   profileVars, joined>>

EditConsent ==
    /\ \/ \E k \in {"self", "parent", "centre_admin"} \ {consentForm.by} :
             consentForm' = [consentForm EXCEPT !.by = k]
       \/ ~consentForm.doc /\ consentForm' = [consentForm EXCEPT !.doc = TRUE]
       \/ consentForm.by = "parent" /\ ~consentForm.contact
            /\ consentForm' = [consentForm EXCEPT !.contact = TRUE]
    /\ UNCHANGED <<accountServer, fetched, recordingConsent, profileVars, joined>>

\* consentProblem: no document, a minor without a parent, a parent without a number.
consentProblem(draft) ==
    \/ ~draft.doc
    \/ Minor /\ draft.by # "parent"
    \/ draft.by = "parent" /\ ~draft.contact

RecordConsent ==
    /\ recordingConsent = None /\ ~consentProblem(consentForm)
    /\ recordingConsent' = consentForm.by
    /\ UNCHANGED <<accountServer, fetched, consentForm, profileVars, joined>>

\* record_consent appends; the document is cleared, the rest of the form stays.
ConsentRecorded ==
    /\ recordingConsent # None /\ Len(consents) < MaxGrants
    /\ consents' = Append(consents, [by |-> recordingConsent, live |-> TRUE])
    /\ consentForm' = [consentForm EXCEPT !.doc = FALSE]
    /\ recordingConsent' = None
    /\ UNCHANGED <<sessions, profile, inviteState, role, fetched, profileVars, joined>>
ConsentFails ==
    /\ recordingConsent # None
    /\ recordingConsent' = None
    /\ consents' \in {consents} \cup
         (IF Len(consents) < MaxGrants
          THEN {Append(consents, [by |-> recordingConsent, live |-> TRUE])} ELSE {})
    /\ UNCHANGED <<sessions, profile, inviteState, role, fetched, consentForm, profileVars, joined>>

\* revoke_consent, which no screen calls: the newest live row is revoked.
Live(rows) == {i \in DOMAIN rows : rows[i].live}
Withdraw ==
    /\ Live(consents) # {}
    /\ consents' = [consents EXCEPT ![Max(Live(consents))].live = FALSE]
    /\ UNCHANGED <<sessions, profile, inviteState, role, fetched, consentVars, profileVars, joined>>

-----------------------------------------------------------------------------
(* Devices and profile. *)

DevicesLoaded ==
    /\ devicesShown # sessions
    /\ devicesShown' = sessions
    /\ UNCHANGED <<accountServer, consentsShown, invitesShown, consentVars,
                   profileVars, joined>>

deviceRow(d) == d \in devicesShown

\* forget_device, and the sign-in or the sign-out of another device
ForgetDevice(d) ==
    /\ deviceRow(d)
    /\ sessions' = sessions \ {d} /\ d \in sessions
    /\ UNCHANGED <<consents, profile, inviteState, role, fetched, consentVars, profileVars, joined>>

EditProfile(n) ==
    /\ nameDraft # n /\ nameDraft' = n
    /\ UNCHANGED <<accountServer, fetched, consentVars, saved, joined>>

\* The whole form is written, as it was opened and edited here.
SaveProfile ==
    /\ \/ profile' = nameDraft /\ saved' = TRUE
       \/ profile' \in {profile, nameDraft} /\ saved' = FALSE
    /\ profile' # profile \/ saved' # saved
    /\ UNCHANGED <<consents, sessions, inviteState, role, fetched, consentVars, nameDraft, joined>>

-----------------------------------------------------------------------------
(* Invitations. *)

Pending == {i \in Invites : inviteState[i] = "pending"}
InvitesLoaded ==
    /\ invitesShown # Pending
    /\ invitesShown' = Pending
    /\ UNCHANGED <<accountServer, consentsShown, devicesShown, consentVars,
                   profileVars, joined>>

\* redeem_invite: a role is raised and never lowered.
Raised(i) == Max({role, InvitedAs[i]})

\* A lost answer leaves the invitation spent and the screen saying nothing.
Redeem(i) ==
    /\ inviteState[i] = "pending"
    /\ inviteState' = [inviteState EXCEPT ![i] = "accepted"]
    /\ role' = Raised(i)
    /\ joined' \in {joined, role'}
    /\ UNCHANGED <<consents, sessions, profile, fetched, consentVars, profileVars>>

\* By the button of a row, or by a token out of a message, listed here or not.
inviteRow(i) == i \in invitesShown
Accept(i) == inviteRow(i) /\ Redeem(i)
UseToken(i) == Redeem(i)

\* revoke_invite, by the centre.
WithdrawInvite(i) ==
    /\ inviteState[i] = "pending"
    /\ inviteState' = [inviteState EXCEPT ![i] = "withdrawn"]
    /\ UNCHANGED <<consents, sessions, profile, role, fetched, consentVars, profileVars, joined>>

AccountNext ==
    \/ ConsentsLoaded \/ EditConsent \/ RecordConsent \/ ConsentRecorded \/ ConsentFails
    \/ Withdraw \/ DevicesLoaded \/ SaveProfile \/ InvitesLoaded
    \/ \E d \in Devices : ForgetDevice(d)
    \/ \E n \in Names : EditProfile(n)
    \/ \E i \in Invites : Accept(i) \/ UseToken(i) \/ WithdrawInvite(i)

=============================================================================

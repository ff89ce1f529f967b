----------------------------- MODULE CountryGate -----------------------------
(***************************************************************************)
(* The nationality check of the dashboard: a dialog at the root of the     *)
(* page that every user has to answer once, the answer kept by the         *)
(* identity provider (Clerk) as metadata of the user and by the browser in *)
(* a store that outlives the session and the user, and the redirection of  *)
(* denied countries to /block.  Users change under a request on its way.   *)
(*                                                                         *)
(* The two effects run in the step that changes what they depend on; both  *)
(* are stable after one round, which is the round the step contains.       *)
(***************************************************************************)
EXTENDS Naturals, FiniteSets

CONSTANTS
  Users, Countries,
  Denied,        \* the countries of DENIED_COUNTRY_CODES
  MaxOrphans     \* bound: requests on their way whose page has been left

NoUser    == "no user"
NoCountry == "no country"

ASSUME GateAssumption ==
  /\ Denied \subseteq Countries /\ NoUser \notin Users /\ NoCountry \notin Countries
  /\ MaxOrphans \in Nat

NoSubmit == [by |-> NoUser, country |-> NoCountry, state |-> "none"]

VARIABLES
  person, loaded, known,  \* Clerk in the page: the user, isLoaded, her metadata
  metadata,               \* Clerk's server: the country of every user
  store,                  \* user-storage, kept by the browser
  modal, path,            \* the dialog is open; the route
  submit,                 \* the handler of Continue and its request
  orphans,                \* requests whose page has been left
  chosen, strayed         \* history: countries each user submitted; an answer that
                          \* came after another user had taken over the store

clerk    == <<person, loaded, known>>
routing  == <<modal, path>>
gateVars == <<clerk, metadata, store, routing, submit, orphans, chosen, strayed>>

GateInit ==
  /\ person = NoUser /\ loaded = TRUE /\ known = NoCountry
  /\ metadata = [u \in Users |-> NoCountry]
  /\ store = [userId |-> NoUser, country |-> NoCountry, selected |-> FALSE]
  /\ modal = FALSE /\ path = "/"
  /\ submit = NoSubmit /\ orphans = {}
  /\ chosen = [u \in Users |-> {}] /\ strayed = FALSE

-----------------------------------------------------------------------------
(* Effects                                                                 *)

\* Mutant: what the browser kept is taken over by the next user.
StoreKept(u) == [store EXCEPT !.userId = u]

\* The store after another user has signed in, or the first one.
StoreOf(u) ==
  IF store.userId \notin {u, NoUser}
  THEN [userId |-> u, country |-> NoCountry, selected |-> FALSE]
  ELSE [store EXCEPT !.userId = u]

IsDenied(country) == country \in Denied

\* CountryBlockCheck and the redirections of the dialog itself.
Route(at, kept, u) ==
  IF u # NoUser /\ kept.userId = u /\ kept.selected /\ IsDenied(kept.country)
  THEN "/block" ELSE at

\* The effect of CountrySelectionModal: a user without a selection has it from the
\* metadata, or is asked; a dialog that is open stays so.
Effects(u, country, at, shown) ==
  IF u = NoUser
  THEN path' = at /\ modal' = shown /\ UNCHANGED <<store, strayed>>
  ELSE LET kept == StoreOf(u)
           asks == ~kept.selected /\ country = NoCountry
       IN  /\ store' = IF kept.selected \/ asks THEN kept
                       ELSE [kept EXCEPT !.country = country, !.selected = TRUE]
           /\ modal' = (shown \/ asks)
           /\ path' = Route(at, store', u)
           /\ strayed' = (strayed /\ store.userId = u)

-----------------------------------------------------------------------------
(* Clerk and the browser                                                   *)

MetadataOf(u) == IF u = NoUser THEN NoCountry ELSE metadata[u]

\* Signing in and out, in this tab or in another one, so also under the dialog.
UserChanges(u) ==
  /\ loaded /\ u # person
  /\ person' = u /\ known' = MetadataOf(u)
  /\ Effects(u, known', path, modal)
  /\ UNCHANGED <<loaded, metadata, submit, orphans, chosen>>

\* Clerk brings the user's record up to date now and then.
RecordRefreshes ==
  /\ loaded /\ known # MetadataOf(person)
  /\ known' = MetadataOf(person)
  /\ Effects(person, known', path, modal)
  /\ UNCHANGED <<person, loaded, metadata, submit, orphans, chosen>>

\* A full load of a route; the middleware redirects by the location of the request.
\* The handler is gone, its request is not.
LoadPage ==
  /\ \E at \in {"/", "/block"} : path' = at
  /\ loaded' = FALSE /\ modal' = FALSE
  /\ submit' = NoSubmit
  /\ orphans' = IF submit.state = "sent" THEN orphans \cup {submit} ELSE orphans
  /\ Cardinality(orphans') <= MaxOrphans
  /\ UNCHANGED <<person, known, metadata, store, chosen, strayed>>

ClerkLoads(u) ==
  /\ ~loaded
  /\ loaded' = TRUE /\ person' = u /\ known' = MetadataOf(u)
  /\ Effects(u, known', path, modal)
  /\ UNCHANGED <<metadata, submit, orphans, chosen>>

-----------------------------------------------------------------------------
(* The dialog                                                              *)

\* handleSubmit: the request carries the session of this moment.
Submit(c) ==
  /\ modal /\ submit = NoSubmit
  /\ submit' = [by |-> person, country |-> c, state |-> "sent"]
  /\ chosen' = IF person = NoUser THEN chosen ELSE [chosen EXCEPT ![person] = @ \cup {c}]
  /\ UNCHANGED <<clerk, metadata, store, routing, orphans, strayed>>

\* updateUserCountry: without a session it is refused, and Clerk may fail.
UpdateUserCountry ==
  /\ submit.state = "sent"
  /\ \/ /\ submit.by # NoUser
        /\ metadata' = [metadata EXCEPT ![submit.by] = submit.country]
        /\ submit' = [submit EXCEPT !.state = "stored"]
     \/ submit' = [submit EXCEPT !.state = "error"] /\ UNCHANGED metadata
  /\ UNCHANGED <<clerk, store, routing, orphans, chosen, strayed>>

OrphanEnds(r) ==
  /\ orphans' = orphans \ {r}
  /\ \/ r.by # NoUser /\ metadata' = [metadata EXCEPT ![r.by] = r.country]
     \/ UNCHANGED metadata
  /\ UNCHANGED <<clerk, store, routing, submit, chosen, strayed>>

\* The answer is taken for whoever owns the store by now.
Saved ==
  /\ submit.state = "stored"
  /\ store' = [store EXCEPT !.country = submit.country, !.selected = TRUE]
  /\ modal' = FALSE
  /\ path' = IF IsDenied(submit.country) THEN "/block" ELSE path
  /\ strayed' = (store.userId # submit.by)
  /\ submit' = NoSubmit
  /\ UNCHANGED <<clerk, metadata, orphans, chosen>>

\* Mutant: the dialog is closed in the finally branch.
SaveFailsOpen ==
  /\ submit.state \in {"stored", "error"}
  /\ submit' = NoSubmit /\ modal' = FALSE
  /\ UNCHANGED <<clerk, metadata, store, path, orphans, chosen, strayed>>

\* An error, or an answer that was lost.
SaveFails ==
  /\ submit.state \in {"stored", "error"}
  /\ submit' = NoSubmit
  /\ UNCHANGED <<clerk, metadata, store, routing, orphans, chosen, strayed>>

\* handleOpenChange: only a dialog whose question is answered can be closed.
Dismiss ==
  /\ modal /\ store.selected
  /\ modal' = FALSE
  /\ UNCHANGED <<clerk, metadata, store, path, submit, orphans, chosen, strayed>>

-----------------------------------------------------------------------------

GateNext ==
  \/ \E u \in Users \cup {NoUser} : UserChanges(u) \/ ClerkLoads(u)
  \/ \E c \in Countries : Submit(c)
  \/ \E r \in orphans : OrphanEnds(r)
  \/ RecordRefreshes \/ LoadPage \/ UpdateUserCountry \/ Saved \/ SaveFails \/ Dismiss

GateSpec == GateInit /\ [][GateNext]_gateVars

-----------------------------------------------------------------------------
(* Properties                                                              *)

SignedIn == loaded /\ person # NoUser

\* The country the browser keeps for the user who is signed in is one that user has
\* submitted, not one of another user of the same browser, unless the answer to
\* another user's request came after the change of users.
OwnCountry ==
  SignedIn /\ store.selected /\ ~strayed =>
    store.userId = person /\ store.country \in chosen[person]

\* Whoever is signed in and not on /block is asked for the nationality by a dialog
\* that covers the page, or has a selected country that is not denied: no order of
\* users, failed requests, refreshes and reloads gets past both.
GateHolds ==
  SignedIn /\ path = "/" /\ ~modal => store.selected /\ ~IsDenied(store.country)
=============================================================================

----------------------------- MODULE Documents -----------------------------
(***************************************************************************)
(* DocumentsService: the documents of teams and who marked which as        *)
(* favourite.  A toggle finds the favourite and then deletes that row or   *)
(* inserts one; the pair of document and user is unique, so a write that   *)
(* comes too late fails.  Texts and tags are left out.                     *)
(***************************************************************************)
EXTENDS Access

CONSTANTS Document  \* ids, a uuid being used once

VARIABLES
  deletedTeams,
  documents,    \* each id: a [team, creator], Absent or Gone
  favourites,   \* the DocumentFavorite table: [id, doc, user]
  edits,        \* what each request is doing
  lastAnswer,   \* what the last toggle that succeeded answered: isFavorite
  favouriteIds

documentVars == <<deletedTeams, documents, favourites, edits, lastAnswer, favouriteIds>>

DocumentsInit ==
  /\ deletedTeams = {} /\ documents = [d \in Document |-> Absent] /\ favourites = {}
  /\ edits = [r \in Request |-> NoRequest]
  /\ lastAnswer = [p \in Document \X User |-> FALSE]
  /\ favouriteIds = 0

There(d) == documents[d] \notin {Absent, Gone}
FavouritesOf(d, u) == {f \in favourites : f.doc = d /\ f.user = u}
Proceeds(r, step) == edits' = [edits EXCEPT ![r] = step]

DocumentCreate(u, d, t) ==
  /\ documents[d] = Absent /\ DocumentOpens(Viewer(u), t) /\ t \notin deletedTeams
  /\ documents' = [documents EXCEPT ![d] = [team |-> t, creator |-> u]]
  /\ UNCHANGED <<deletedTeams, favourites, edits, lastAnswer, favouriteIds>>

\* findOne, which every handler of one document starts with; update writes text.
DocumentFindOne(r, u, d, op) ==
  /\ edits[r] = NoRequest
  /\ There(d) /\ DocumentOpens(Viewer(u), documents[d].team)
  /\ op \in {"update", "remove"} => DocumentModifies(Viewer(u), documents[d])
  /\ Proceeds(r, [op |-> op, user |-> u, doc |-> d, found |-> 0])
  /\ UNCHANGED <<deletedTeams, documents, favourites, lastAnswer, favouriteIds>>

DocumentUpdate(r) ==
  /\ edits[r] # NoRequest /\ edits[r].op = "update"
  /\ Proceeds(r, NoRequest)
  /\ UNCHANGED <<deletedTeams, documents, favourites, lastAnswer, favouriteIds>>

\* The favourites go with it (onDelete: Cascade).
DocumentRemove(r) ==
  LET d == edits[r].doc
  IN /\ edits[r] # NoRequest /\ edits[r].op = "remove"
     /\ documents' = [documents EXCEPT ![d] = Gone]
     /\ favourites' = {f \in favourites : f.doc # d}
     /\ Proceeds(r, NoRequest)
     /\ UNCHANGED <<deletedTeams, lastAnswer, favouriteIds>>

ToggleFind(r) ==
  LET found == FavouritesOf(edits[r].doc, edits[r].user)
  IN /\ edits[r] # NoRequest /\ edits[r].op = "toggleFavorite"
     /\ \/ found = {} /\ Proceeds(r, [edits[r] EXCEPT !.op = "insert"])
        \/ \E f \in found : Proceeds(r, [edits[r] EXCEPT !.op = "delete", !.found = f.id])
     /\ UNCHANGED <<deletedTeams, documents, favourites, lastAnswer, favouriteIds>>

\* By the id found: P2025 when the row is gone.
ToggleDelete(r) ==
  LET e == edits[r]
      row == {f \in favourites : f.id = e.found}
  IN /\ e # NoRequest /\ e.op = "delete"
     /\ favourites' = favourites \ row
     /\ lastAnswer' = IF row = {} THEN lastAnswer
                      ELSE [lastAnswer EXCEPT ![<<e.doc, e.user>>] = FALSE]
     /\ Proceeds(r, NoRequest)
     /\ UNCHANGED <<deletedTeams, documents, favouriteIds>>

\* P2002 when the pair has a row by now, P2003 when the document is gone.
\* Mutant: no unique constraint.
ToggleInsert_Twice(r) ==
  LET e == edits[r]
  IN /\ e # NoRequest /\ e.op = "insert" /\ favouriteIds < MaxRows
     /\ favourites' = favourites \union {[id |-> favouriteIds + 1, doc |-> e.doc, user |-> e.user]}
     /\ favouriteIds' = favouriteIds + 1
     /\ lastAnswer' = [lastAnswer EXCEPT ![<<e.doc, e.user>>] = TRUE]
     /\ Proceeds(r, NoRequest)
     /\ UNCHANGED <<deletedTeams, documents>>
ToggleInsert(r) ==
  LET e == edits[r]
  IN /\ e # NoRequest /\ e.op = "insert" /\ favouriteIds < MaxRows
     /\ IF There(e.doc) /\ FavouritesOf(e.doc, e.user) = {}
        THEN /\ favourites' = favourites \union
                  {[id |-> favouriteIds + 1, doc |-> e.doc, user |-> e.user]}
             /\ favouriteIds' = favouriteIds + 1
             /\ lastAnswer' = [lastAnswer EXCEPT ![<<e.doc, e.user>>] = TRUE]
        ELSE UNCHANGED <<favourites, favouriteIds, lastAnswer>>
     /\ Proceeds(r, NoRequest)
     /\ UNCHANGED <<deletedTeams, documents>>

\* TeamsService.remove, of a team without members: its documents go with it, and
\* their favourites.
DocumentTeamDeleted(t) ==
  LET its == {d \in Document : There(d) /\ documents[d].team = t}
  IN /\ t \notin deletedTeams /\ \A u \in User : TeamOf[u] # t
     /\ deletedTeams' = deletedTeams \union {t}
     /\ documents' = [d \in Document |-> IF d \in its THEN Gone ELSE documents[d]]
     /\ favourites' = {f \in favourites : f.doc \notin its}
     /\ UNCHANGED <<edits, lastAnswer, favouriteIds>>

DocumentsNext ==
  \/ \E u \in User, d \in Document :
       \/ \E t \in Team : DocumentCreate(u, d, t)
       \/ \E r \in Request, op \in {"update", "remove", "toggleFavorite"} : DocumentFindOne(r, u, d, op)
  \/ \E t \in Team : DocumentTeamDeleted(t)
  \/ \E r \in Request : \/ DocumentUpdate(r) \/ DocumentRemove(r)
                        \/ ToggleFind(r) \/ ToggleDelete(r) \/ ToggleInsert(r)

DocumentsSpec == DocumentsInit /\ [][DocumentsNext]_documentVars

-----------------------------------------------------------------------------
Edit == [op : {"update", "remove", "toggleFavorite", "insert", "delete"},
         user : User, doc : Document, found : Nat]

\* The variables have their types (all of the module).
DocumentsTypeOK ==
  /\ deletedTeams \in SUBSET Team
  /\ documents \in [Document -> [team : Team, creator : User] \union {Absent, Gone}]
  /\ favourites \in SUBSET [id : Nat, doc : Document, user : User]
  /\ edits \in [Request -> Edit \union {NoRequest}]
  /\ lastAnswer \in [Document \X User -> BOOLEAN]
  /\ favouriteIds \in Nat

\* However toggles of one document interleave, the user's favourite is what the
\* last one that succeeded answered, in a single row (documents.service.ts:234).
FavouriteIsLastAnswer ==
  \A d \in Document, u \in User :
    There(d) => /\ lastAnswer[<<d, u>>] <=> FavouritesOf(d, u) # {}
                /\ \A f, g \in FavouritesOf(d, u) : f = g
=============================================================================

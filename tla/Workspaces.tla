----------------------------- MODULE Workspaces -----------------------------
(***************************************************************************)
(* What people do in their workspaces, side by side: Accounts, which sees  *)
(* many workspaces and of a person no more than the account, Membership,   *)
(* which sees the people of one of them, and ActionCards, the cards their  *)
(* agents prepare for them.  They have no variable in common.              *)
(***************************************************************************)
EXTENDS Accounts

CONSTANTS Account, Request, Base, Admin, Joiner, MaxNo, MaxId
VARIABLES rows, profile, nextId, req, calm, raced

peopleVars == <<rows, profile, nextId, req, calm, raced>>

People == INSTANCE Membership WITH member <- rows

CONSTANTS Card, Caller, Name, MaxCopy
VARIABLES card, made, call

cardVars == <<card, made, call>>

Cards == INSTANCE ActionCards WITH Request <- Caller, req <- call

ASSUME WorkspacesAssumption == ParametersOK /\ People!ParametersOK /\ Cards!ParametersOK

-----------------------------------------------------------------------------
\* members.service.ts:78: a workspace keeps an owner.  It fails: two calls take the
\* last two.
OwnerRemains == People!OwnerRemains

\* It does unless one call takes an owner while another, past its count as well,
\* is about to take one.
OwnerUnlessRaced == People!OwnerUnlessRaced

\* auth/service.ts:326: as long as joins and removals come one after the other,
\* memberships and profiles match.
RowsMatch == People!RowsMatch

\* schema.ts:115, 480: the name of a channel and the account of a membership are
\* looked up in one statement and inserted in a later one, and however the calls
\* overlap, no two rows share one.
KeysDiffer == Cards!NamesAreDistinct /\ People!OneMembership

\* action.service.ts:59: of all calls on a card one succeeds, and it is the one
\* the card names.
OneWinner == Cards!OneWinner

\* An executed card names something that was created for it.
ExecutedIsMade == Cards!ExecutedIsMade
=============================================================================

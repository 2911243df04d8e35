----------------------------- MODULE Community -----------------------------
(***************************************************************************)
(* Users who register, edit their profiles, adopt, write reviews and leave *)
(* again: Reviews and Profiles over the tables of the shelter, with the    *)
(* calls of Adoption and Accounts that take rows from under them.          *)
(* Statements do not fail here: each of these calls writes once at most,   *)
(* so one that failed has the same effect as one that never goes on.       *)
(***************************************************************************)
EXTENDS Adoption, Accounts, Reviews, Profiles

CONSTANTS
  InitAccounts,   \* the accounts registered before the run starts
  InitReviews     \* the reviews written before the run starts

\* The accounts at the start are ones that registration leaves, founders of
\* shelters have one, and the reviews are ones that their authors could write.
ASSUME CommunityAssumption ==
  /\ InitAccounts \in [Users -> Profile \cup {Null}]
  /\ \A u \in Users : InitAccounts[u] # Null =>
        LET email == InitAccounts[u].email IN
        /\ ValidEmail(email) /\ LowerText[email] = email
        /\ \A v \in Users : InitAccounts[v] # Null /\ InitAccounts[v].email = email => u = v
  /\ \A u \in Users : InitOrgOf[u] # Null => InitAccounts[u] # Null
  /\ InitReviews \in Seq(ReviewRow)
  /\ \A i \in DOMAIN InitReviews :
        /\ InitAccounts[InitReviews[i].user] # Null /\ InitAnimals[InitReviews[i].animal] # Null
        /\ \A j \in DOMAIN InitReviews :
             InitReviews[i].user = InitReviews[j].user
             /\ InitReviews[i].animal = InitReviews[j].animal => i = j
  /\ Null \notin Texts \cup Profile \cup ReviewRow
  /\ Users \cap (Orgs \cup Animals) = {}

VARIABLE alone   \* history: the unanswered calls that never ran beside another one

communityVars == <<vars, reviews, accounts, alone>>

Registered == {u \in Users : InitAccounts[u] # Null}

Init ==
  /\ users = Registered
  /\ orgOf = InitOrgOf
  /\ orgs = {InitOrgOf[u] : u \in Registered} \ {Null}
  /\ animals = InitAnimals
  /\ log \in InitRequests
  /\ requests = DOMAIN log
  /\ unused = (Users \ Registered) \cup (Orgs \ orgs)
                \cup {a \in Animals : InitAnimals[a] = Null}
  /\ CallsInit
  /\ accounts = InitAccounts /\ reviews = InitReviews
  /\ alone = Tasks

\* The statements of Adoption and Accounts know neither reviews nor profiles:
\* what their cascades do to them.
Cascade ==
  /\ reviews' = ReviewsWithout(users', animals')
  /\ accounts' = AccountsOf(users')

Step(t) ==
  \/ ReviewStep(t) /\ UNCHANGED accounts
  \/ ProfileStep(t) /\ UNCHANGED reviews
  \/ (AdoptionStep(t) \/ AccountStep(t)) /\ Cascade

Accompanied == {t \in Tasks : Running(t) /\ \E s \in Tasks \ {t} : Running(s)}

Answered == {t \in Tasks : pc[t] = "done"}

\* The behaviour ends when every call has been answered.
AllAnswered == Answered = Tasks /\ UNCHANGED <<vars, reviews, accounts>>

Next ==
  /\ (\E t \in Tasks : Step(t)) \/ AllAnswered
  /\ alone' = alone \ (Accompanied' \cup Answered')

Spec == Init /\ [][Next]_communityVars

-----------------------------------------------------------------------------

\* The tables and the calls have the types the code gives them.
TypeOK ==
  /\ users \subseteq Users /\ orgs \subseteq Orgs
  /\ orgOf \in [Users -> Orgs \cup {Null}]
  /\ animals \in [Animals -> AnimalRow \cup {Null}]
  /\ reviews \in Seq(ReviewRow \cup {Null})
  /\ accounts \in [Users -> Profile \cup {Null}]
  /\ alone \subseteq Tasks
  /\ seen \in [Tasks -> Orgs \cup Animals \cup {Null}]
  /\ \A u \in Users : accounts[u] # Null <=> u \in users

\* One review of a user for an animal, although the test for an earlier one
\* and the INSERT are two statements, and none of a user or an animal that is
\* gone, although the animal is read three statements before the INSERT.
ReviewsStand ==
  \A i \in DOMAIN reviews : reviews[i] # Null =>
    /\ reviews[i].user \in users /\ animals[reviews[i].animal] # Null
    /\ \A j \in DOMAIN reviews : reviews[j] # Null /\ j # i =>
         reviews[j].user # reviews[i].user \/ reviews[j].animal # reviews[i].animal

\* A review changes or goes only by a call of its author, or together with
\* the author's account or with the animal.
OnlyAuthorsEdit ==
  [][\A i \in DOMAIN reviews : reviews[i] # Null /\ reviews'[i] # reviews[i] =>
       \/ reviews'[i] = Null
          /\ (reviews[i].user \notin users' \/ animals'[reviews[i].animal] = Null)
       \/ \E t \in Tasks :
            /\ pc[t] \in {"write_review", "delete_review"} /\ pc'[t] # pc[t]
            /\ call[t].on = i /\ call[t].by = reviews[i].user]_communityVars

\* Whoever registers or edits a profile while others do the same ends up with
\* an e-mail nobody else has in any spelling, and can log in with it, however
\* it is spelt: the account opens to its e-mail and its password, and no
\* other one does.  Update lets a password through that log-in refuses as too
\* short; then the account opens to nobody.
OwnersLogIn ==
  \A u \in users : \A email \in Texts :
    LowerText[email] = LowerText[accounts[u].email] =>
      Opens(email, accounts[u].password) =
        IF ValidPassword(accounts[u].password) THEN {u} ELSE {}

\* The columns of an account change only by a call of its owner and only to
\* what that call's body says; an update of one field loses no update of
\* another one.
OwnersEdit ==
  [][\A u \in users \cap users' : accounts'[u] # accounts[u] =>
       \E t \in Tasks :
         /\ pc[t] = "update_user" /\ pc'[t] = "done" /\ call[t].by = u
         /\ \A f \in ProfileFields :
              accounts'[u][f] = IF f \in DOMAIN call[t].body THEN call[t].body[f]
                                ELSE accounts[u][f]]_communityVars

\* A review or profile call that is refused has left nothing: the only
\* refusal after a write, of a review whose animal went before it was named,
\* finds the review gone with the animal.
RefusalsLeaveNothing ==
  [][\A t \in Tasks : reply[t] = 0 /\ reply'[t] \in {400, 401, 403, 404, 409}
                      /\ call[t].op \in {"review", "edit_review", "drop_review",
                                         "register", "edit_profile"} =>
       /\ UNCHANGED <<tables, reviews, accounts>>
       /\ pc[t] = "name_review" => ~Reviewed(call[t].by, call[t].on)]_communityVars

\* A review or profile call of a user who has an account is answered 500 only
\* if another call ran beside it: what makes the uncaught exceptions of
\* ReviewService and UserService and the undefined answer of update_user rare.
FailsOnlyBesideOthers ==
  [][\A t \in Tasks : reply[t] = 0 /\ reply'[t] = 500 /\ t \in alone
                      /\ call[t].op \in {"review", "edit_review", "drop_review",
                                         "register", "edit_profile"} =>
       call[t].op # "register" /\ call[t].by \notin users]_communityVars

\* What GET /me/adopted-animals/pending-review shows can be reviewed: a valid
\* review of it is not refused unless another call runs beside it.
PendingAreAccepted ==
  [][\A t \in Tasks : Running(t) /\ t \in alone
                      /\ call[t].op = "review" /\ call[t].on \in PendingReviews(call[t].by) =>
       reply'[t] \in {0, 201} \/ pc[t] = "refuse"]_communityVars
=============================================================================

--------------------------- MODULE InvitationProofs ---------------------------
(***************************************************************************)
(* Proofs about Invitations for any number of requests that create and     *)
(* accept invitations for any addresses: types, the invariants, and that   *)
(* the requests implement InvitationLedger.                                *)
(***************************************************************************)
EXTENDS Invitations, FiniteSetTheorems, TLAPS

Statements == {"insert_user", "verify_user", "insert_account", "update_hash",
               "insert_member", "consume"}
User == {"insert_user", "verify_user"}
Account == {"insert_account", "update_hash"}

\* The steps of a transaction that has found, or written, its user; then its
\* account; then its membership.
PastUser == {"find_account", "insert_account", "update_hash", "find_member",
             "insert_member", "consume", "commit"}
PastAccount == {"find_member", "insert_member", "consume", "commit"}
PastMember == {"consume", "commit"}

Person(a) == people[Email(a)]

\* The transaction of an acceptance is committed, whatever its client was told.
Settled(a) == wrote[a] # {} /\ ~InTransaction(a)

\* What an acceptance has written follows from where it is.
Shape(a) ==
    /\ pc[a] \in TransactionSteps \cup Idle \cup {"session", "respond"}
    /\ pc[a] \in TransactionSteps \ PastUser => wrote[a] = {}
    /\ pc[a] = "begin" => wrote[a] = {}
    /\ pc[a] \in PastUser \ PastAccount => wrote[a] \subseteq User
    /\ pc[a] \in {"find_member", "insert_member"} => wrote[a] \subseteq User \cup Account
    /\ pc[a] = "consume" => "consume" \notin wrote[a]
    /\ ~(User \subseteq wrote[a])
    /\ ~(Account \subseteq wrote[a])
    /\ pc[a] \in PastAccount \/ Settled(a) => wrote[a] \cap Account # {}
    /\ pc[a] \in {"session", "respond", "answered"} => wrote[a] # {}
    /\ token[a] \in mailed \cup {None}
    /\ wrote[a] # {} \/ pc[a] \in TransactionSteps \ {"find_invitation"}
       => token[a] \in mailed

\* What an open transaction has inserted is not committed by another one.
Fresh(a) ==
    InTransaction(a) =>
        /\ "insert_user" \in wrote[a] => Person(a).user = "none"
        /\ "insert_account" \in wrote[a] => Person(a).password = None
        /\ "insert_member" \in wrote[a] => Person(a).member = None
        /\ "consume" \in wrote[a] => invitation[token[a]] = "pending"

\* What an open transaction has read and acts upon is still so.
Read(a) ==
    /\ pc[a] \in PastUser \cup {"verify_user"}
       => "insert_user" \in wrote[a] \/ Person(a).user = "active"
    /\ pc[a] \in PastUser => wrote[a] \cap User # {} \/ Person(a).verified
    /\ pc[a] = "update_hash" \/ (InTransaction(a) /\ "update_hash" \in wrote[a])
       => Person(a).password # None
    /\ pc[a] \in PastMember => "insert_member" \in wrote[a] \/ Person(a).member # None
    /\ pc[a] = "commit" => "consume" \in wrote[a] \/ invitation[token[a]] = "accepted"

Acceptance(a) ==
    /\ Shape(a) /\ Fresh(a) /\ Read(a)
    /\ Settled(a) => invitation[token[a]] = "accepted"

\* Two open transactions never hold the same row or the same unique key.
Apart(a, b) ==
    /\ Locks(a) \cap User # {} /\ Locks(b) \cap User # {} => Email(a) # Email(b)
    /\ Locks(a) \cap Account # {} /\ Locks(b) \cap Account # {} => Email(a) # Email(b)
    /\ "insert_member" \in Locks(a) /\ "insert_member" \in Locks(b) => Email(a) # Email(b)
    /\ "consume" \in Locks(a) /\ "consume" \in Locks(b) => token[a] # token[b]

\* Of two committed acceptances of one invitation, not both consumed it, and not
\* both found nobody to set the password of.
Once(a, b) ==
    Settled(a) /\ Settled(b) /\ token[a] = token[b] =>
        /\ ~("consume" \in wrote[a] /\ "consume" \in wrote[b])
        /\ "update_hash" \in wrote[a] \cup wrote[b]

Member(p) == p.user = "active" /\ p.verified /\ p.password # None /\ p.member # None

\* A request that creates an invitation.
Creation(c) ==
    /\ pc[c] \in Idle \cup {"check_member", "check_membership", "check_pending",
                            "insert", "send"}
    /\ invitation[c] # "absent" => pc[c] \in {"send", "answered", "failed"}
    /\ pc[c] = "send" \/ c \in mailed => invitation[c] # "absent"
    /\ pc[c] = "answered" => c \in mailed
    /\ invitation[c] = "accepted" => Member(people[EmailOf[c]])
    /\ \A d \in earlier[c] :
         /\ EmailOf[d] = EmailOf[c] /\ invitation[d] # "absent"
         /\ pc[c] = "insert" \/ invitation[c] # "absent" => invitation[d] = "accepted"

InvitationInv ==
    /\ TypeOK
    /\ \A c \in Creates : Creation(c)
    /\ \A a \in Accepts : Acceptance(a) /\ (a \in sessions => Settled(a))
    /\ \A a, b \in Accepts : a # b => Apart(a, b) /\ Once(a, b)

-----------------------------------------------------------------------------
(* Helpers *)

USE InvitationAssumption

\* What the tables of constants contain.
LEMMA Labels ==
    /\ PastMember \subseteq PastAccount /\ PastAccount \subseteq PastUser
    /\ PastUser \subseteq TransactionSteps
    /\ TransactionSteps \cap (Idle \cup {"session", "respond"}) = {}
BY DEF PastMember, PastAccount, PastUser, TransactionSteps, Idle

\* What a commit makes of a person, field by field: the CHOOSE of Committed picks
\* the one statement there is.
LEMMA CommittedRow ==
    ASSUME TypeOK, NEW a \in Accepts, token[a] \in Creates,
           ~(User \subseteq wrote[a]), ~(Account \subseteq wrote[a])
    PROVE  /\ Committed(a) \in People
           /\ Committed(a).user = IF "insert_user" \in wrote[a] THEN "active"
                                  ELSE Person(a).user
           /\ Committed(a).verified <=> Person(a).verified \/ wrote[a] \cap User # {}
           /\ Committed(a).password = IF wrote[a] \cap Account # {} THEN a
                                      ELSE Person(a).password
           /\ Committed(a).member = IF "insert_member" \in wrote[a] THEN token[a]
                                    ELSE Person(a).member
<1> DEFINE Apply(row, statements) ==
               IF wrote[a] \cap statements = {} THEN row
               ELSE Effect(row, a, CHOOSE s \in wrote[a] \cap statements : TRUE)
           one == Apply(Person(a), User)
           two == Apply(one, Account)
           three == Apply(two, {"insert_member"})
<1>1. Person(a) \in People
  BY DEF TypeOK, Person, Email
<1>2. Committed(a) = three
  BY DEF Committed, User, Account, Person
<1>3. /\ one \in People
      /\ one.user = IF "insert_user" \in wrote[a] THEN "active" ELSE Person(a).user
      /\ one.verified <=> Person(a).verified \/ wrote[a] \cap User # {}
      /\ one.password = Person(a).password
      /\ one.member = Person(a).member
  <2>1. CASE wrote[a] \cap User = {}
    BY <1>1, <2>1 DEF User
  <2>2. CASE wrote[a] \cap User = {"insert_user"}
    <3>1. one = [Person(a) EXCEPT !.user = "active", !.verified = TRUE]
      BY <2>2 DEF Effect, InsertUser
    <3>2. "insert_user" \in wrote[a]
      BY <2>2
    <3> HIDE DEF one
    <3>3. QED
      BY <1>1, <2>2, <3>1, <3>2 DEF People
  <2>3. CASE wrote[a] \cap User = {"verify_user"}
    <3>1. one = [Person(a) EXCEPT !.verified = TRUE]
      BY <2>3 DEF Effect, UpdateUserEmailVerifiedAt
    <3>2. "insert_user" \notin wrote[a]
      BY <2>3 DEF User
    <3> HIDE DEF one
    <3>3. QED
      BY <1>1, <2>3, <3>1, <3>2 DEF People
  <2>4. QED
    BY <2>1, <2>2, <2>3 DEF User
<1> HIDE DEF one
<1>4. /\ two \in People
      /\ two.user = one.user
      /\ two.verified = one.verified
      /\ two.password = IF wrote[a] \cap Account # {} THEN a ELSE one.password
      /\ two.member = one.member
  <2>1. CASE wrote[a] \cap Account = {}
    BY <1>3, <2>1
  <2>2. CASE wrote[a] \cap Account = {"insert_account"}
    <3>1. two = [one EXCEPT !.password = a]
      BY <2>2 DEF Effect, InsertAccount
    <3> HIDE DEF two
    <3>2. QED
      BY <1>3, <2>2, <3>1 DEF People
  <2>3. CASE wrote[a] \cap Account = {"update_hash"}
    <3>1. two = [one EXCEPT !.password = a]
      BY <2>3 DEF Effect, UpdateUserPasswordHash
    <3> HIDE DEF two
    <3>2. QED
      BY <1>3, <2>3, <3>1 DEF People
  <2>4. QED
    BY <2>1, <2>2, <2>3 DEF Account
<1> HIDE DEF two
<1>5. /\ three \in People
      /\ three.user = two.user
      /\ three.verified = two.verified
      /\ three.password = two.password
      /\ three.member = IF "insert_member" \in wrote[a] THEN token[a] ELSE two.member
  <2>1. CASE "insert_member" \notin wrote[a]
    <3>1. wrote[a] \cap {"insert_member"} = {}
      BY <2>1
    <3>2. QED
      BY <1>4, <2>1, <3>1
  <2>2. CASE "insert_member" \in wrote[a]
    <3>1. wrote[a] \cap {"insert_member"} = {"insert_member"}
      BY <2>2
    <3>2. three = [two EXCEPT !.member = token[a]]
      BY <3>1 DEF Effect, InsertOrganizationMember
    <3> HIDE DEF three
    <3>3. QED
      BY <1>4, <2>2, <3>2 DEF People
  <2>3. QED
    BY <2>1, <2>2
<1> HIDE DEF three
<1>6. QED
  BY <1>2, <1>3, <1>4, <1>5

\* A request's place and its failure, as changes of one entry.
LEMMA FailAt ==
    ASSUME TypeOK, NEW a \in Accepts, Fail(a)
    PROVE  /\ pc' = [pc EXCEPT ![a] = "failed"]
           /\ wrote' = [wrote EXCEPT ![a] = IF InTransaction(a) THEN {} ELSE wrote[a]]
<1>1. pc' = [pc EXCEPT ![a] = "failed"]
  BY DEF Fail
<1>2. wrote' = [b \in Accepts |-> IF b = a /\ InTransaction(b) THEN {} ELSE wrote[b]]
  BY DEF Fail
<1>3. wrote' = [wrote EXCEPT ![a] = IF InTransaction(a) THEN {} ELSE wrote[a]]
  BY <1>2 DEF TypeOK
<1>4. QED
  BY <1>1, <1>3

\* The failure of a request that creates an invitation concerns no transaction.
LEMMA FailCreate ==
    ASSUME TypeOK, NEW c \in Creates, Fail(c)
    PROVE  pc' = [pc EXCEPT ![c] = "failed"] /\ wrote' = wrote
<1>1. wrote' = [a \in Accepts |-> wrote[a]]
  BY DEF Fail
<1>2. QED
  BY <1>1 DEF Fail, TypeOK

-----------------------------------------------------------------------------
(* Steps of an acceptance that leave the committed rows alone *)

\* Such a step keeps the invariant when the acceptance itself still satisfies its
\* part, holds nothing another one holds, and is settled only if it was before.
LEMMA StepKeeps ==
    ASSUME InvitationInv, NEW a \in Accepts, NEW l, NEW w \in SUBSET Statements,
           NEW t \in mailed \cup {None},
           UNCHANGED <<people, invitation, expired, mailed, earlier>>,
           pc' = [pc EXCEPT ![a] = l],
           wrote' = [wrote EXCEPT ![a] = w],
           token' = [token EXCEPT ![a] = t],
           sessions' \in SUBSET (sessions \cup {a}),
           Acceptance(a)',
           a \in sessions' => Settled(a)',
           Settled(a)' => Settled(a) /\ w = wrote[a] /\ t = token[a],
           \A b \in Accepts \ {a} : Apart(a, b)'
    PROVE  InvitationInv'
<1>1. /\ a \in Requests /\ pc'[a] = l /\ wrote'[a] = w /\ token'[a] = t
      /\ \A r \in Requests \ {a} : pc'[r] = pc[r]
      /\ \A b \in Accepts \ {a} : wrote'[b] = wrote[b] /\ token'[b] = token[b]
  BY DEF InvitationInv, TypeOK, Requests
<1>2. TypeOK'
  <2>1. l \in TransactionSteps \cup Idle \cup {"session", "respond"}
    BY <1>1 DEF Acceptance, Shape
  <2>2. \A b \in Accepts :
          pc'[b] \in TransactionSteps \ {"find_invitation"} => token'[b] \in mailed'
    <3>1. ASSUME NEW b \in Accepts \ {a},
                 pc'[b] \in TransactionSteps \ {"find_invitation"}
          PROVE  token'[b] \in mailed'
      BY <1>1, <3>1 DEF InvitationInv, TypeOK, Requests
    <3>2. pc'[a] \in TransactionSteps \ {"find_invitation"} => token'[a] \in mailed'
      BY DEF Acceptance, Shape
    <3>3. QED
      BY <3>1, <3>2
  <2>3. wrote' \in [Accepts -> SUBSET Statements] /\ sessions' \subseteq Accepts
    BY DEF InvitationInv, TypeOK, Statements
  <2>4. token' \in [Accepts -> Creates \cup {None}]
    BY DEF InvitationInv, TypeOK
  <2>5. pc' \in [Requests -> TransactionSteps \cup Idle
           \cup {"check_member", "check_membership", "check_pending",
            "insert", "send", "session", "respond"}]
    BY <2>1 DEF InvitationInv, TypeOK
  <2>6. QED
    BY <2>2, <2>3, <2>4, <2>5 DEF InvitationInv, TypeOK, Statements
<1>3. ASSUME NEW c \in Creates
      PROVE  Creation(c)'
  <2>1. pc'[c] = pc[c]
    BY <1>1 DEF Requests
  <2>2. QED
    BY <2>1 DEF InvitationInv, Creation, Member
<1>4. ASSUME NEW b \in Accepts \ {a}
      PROVE  Acceptance(b)' /\ (b \in sessions' => Settled(b)')
  <2>1. pc'[b] = pc[b] /\ wrote'[b] = wrote[b] /\ token'[b] = token[b]
    BY <1>1 DEF Requests
  <2>2. Acceptance(b) /\ (b \in sessions => Settled(b))
    BY DEF InvitationInv
  <2>3. Settled(b)' <=> Settled(b)
    BY <2>1 DEF Settled, InTransaction
  <2>4. Shape(b)'
    BY <2>1, <2>2, <2>3 DEF Acceptance, Shape
  <2>5. Fresh(b)'
    BY <2>1, <2>2 DEF Acceptance, Fresh, InTransaction, Person, Email
  <2>6. Read(b)'
    BY <2>1, <2>2 DEF Acceptance, Read, InTransaction, Person, Email
  <2>7. QED
    BY <2>1, <2>2, <2>3, <2>4, <2>5, <2>6 DEF Acceptance
<1>5. ASSUME NEW b \in Accepts, NEW d \in Accepts, b # d
      PROVE  Apart(b, d)' /\ Once(b, d)'
  <2>1. \A e \in Accepts \ {a} :
          /\ Locks(e)' = Locks(e) /\ (Settled(e)' <=> Settled(e))
          /\ token'[e] = token[e] /\ wrote'[e] = wrote[e]
    BY <1>1 DEF Requests, Locks, Settled, InTransaction
  <2>2. Apart(b, d) /\ Once(b, d)
    BY <1>5 DEF InvitationInv
  <2>3. Apart(b, d)'
    <3>1. CASE b = a
      BY <1>5, <3>1
    <3>2. CASE d = a
      <4>1. Apart(d, b)'
        BY <1>5, <3>2
      <4>2. QED
        BY <4>1 DEF Apart
    <3>3. CASE b # a /\ d # a
      <4>1. /\ Locks(b)' = Locks(b) /\ Locks(d)' = Locks(d)
            /\ Email(b)' = Email(b) /\ Email(d)' = Email(d)
            /\ token'[b] = token[b] /\ token'[d] = token[d]
        BY <2>1, <3>3 DEF Email
      <4>2. QED
        BY <2>2, <4>1 DEF Apart
    <3>4. QED
      BY <3>1, <3>2, <3>3
  <2>4. Once(b, d)'
    <3>1. \A e \in {b, d} :
            Settled(e)' => Settled(e) /\ wrote'[e] = wrote[e] /\ token'[e] = token[e]
      BY <1>1, <2>1
    <3>2. QED
      BY <2>2, <3>1 DEF Once
  <2>5. QED
    BY <2>3, <2>4
<1>6. QED
  BY <1>2, <1>3, <1>4, <1>5 DEF InvitationInv

\* The part of a step's frame that all steps within a transaction share.
Frame == UNCHANGED <<people, invitation, expired, mailed, token, sessions, earlier>>

\* A read: the transaction goes on with what it holds.
LEMMA ReadKeeps ==
    ASSUME InvitationInv, NEW a \in Accepts, NEW l \in TransactionSteps,
           InTransaction(a), Frame, Goto(a, l), Acceptance(a)'
    PROVE  InvitationInv'
<1>1. /\ a \in Requests /\ pc' = [pc EXCEPT ![a] = l] /\ pc'[a] = l /\ wrote' = wrote
      /\ token' = token /\ sessions' = sessions
  BY DEF Goto, Frame, InvitationInv, TypeOK, Requests
<1>2. InTransaction(a)' /\ ~Settled(a)' /\ ~Settled(a)
  BY <1>1 DEF InTransaction, Settled
<1>3. \A b \in Accepts \ {a} : Locks(b)' = Locks(b)
  BY <1>1 DEF Locks, InTransaction, InvitationInv, TypeOK, Requests
<1>4. Locks(a)' = Locks(a)
  BY <1>1, <1>2 DEF Locks
<1>5. \A b \in Accepts \ {a} : Apart(a, b)'
  BY <1>1, <1>3, <1>4 DEF InvitationInv, Apart, Email
<1>6. /\ wrote' = [wrote EXCEPT ![a] = wrote[a]] /\ wrote[a] \in SUBSET Statements
      /\ token' = [token EXCEPT ![a] = token[a]]
  BY <1>1 DEF InvitationInv, TypeOK, Statements
<1>7. token[a] \in mailed \cup {None} /\ a \notin sessions
  BY <1>2 DEF InvitationInv, Acceptance, Shape
<1>8. UNCHANGED <<people, invitation, expired, mailed, earlier>>
  BY DEF Frame
<1>9. QED
  BY <1>1, <1>2, <1>5, <1>6, <1>7, <1>8, StepKeeps

\* A write that found its row unlocked: the transaction holds it from now on.
LEMMA WriteKeeps ==
    ASSUME InvitationInv, NEW a \in Accepts, NEW l \in TransactionSteps,
           NEW s \in Statements, NEW w \in SUBSET {s},
           InTransaction(a), Frame, Unlocked(a, s),
           pc' = [pc EXCEPT ![a] = l], wrote' = [wrote EXCEPT ![a] = @ \cup w],
           Acceptance(a)'
    PROVE  InvitationInv'
<1>1. /\ a \in Requests /\ pc'[a] = l /\ wrote'[a] = wrote[a] \cup w
      /\ token' = token /\ sessions' = sessions
  BY DEF Goto, Frame, InvitationInv, TypeOK, Requests
<1>2. InTransaction(a)' /\ ~Settled(a)' /\ ~Settled(a)
  BY <1>1 DEF InTransaction, Settled
<1>3. \A b \in Accepts \ {a} : Locks(b)' = Locks(b)
  BY DEF Locks, InTransaction, InvitationInv, TypeOK, Requests
<1>4. Locks(a)' = Locks(a) \cup w
  BY <1>1, <1>2 DEF Locks
<1>5. ASSUME NEW b \in Accepts \ {a}
      PROVE  Apart(a, b)'
  <2>1. /\ Locks(b)' = Locks(b) /\ Email(a)' = Email(a) /\ Email(b)' = Email(b)
        /\ token'[a] = token[a] /\ token'[b] = token[b]
    BY <1>1, <1>3 DEF Email
  <2>2. Apart(a, b)
    BY DEF InvitationInv
  <2>3. Locks(b) \cap Rivals(s) # {}
        => IF s = "consume" THEN token[b] # token[a] ELSE Email(b) # Email(a)
    BY DEF Unlocked
  <2>4. CASE w = {}
    BY <1>4, <2>1, <2>2, <2>4 DEF Apart
  <2>5. CASE s \in User
    <3>1. Locks(b) \cap User # {} => Email(b) # Email(a)
      BY <2>3, <2>5 DEF Rivals, User
    <3>2. /\ Locks(a)' \cap Account = Locks(a) \cap Account
          /\ "insert_member" \in Locks(a)' <=> "insert_member" \in Locks(a)
          /\ "consume" \in Locks(a)' <=> "consume" \in Locks(a)
      BY <1>4, <2>5 DEF User, Account
    <3>3. QED
      BY <2>1, <2>2, <3>1, <3>2 DEF Apart
  <2>6. CASE s \in Account
    <3>1. Locks(b) \cap Account # {} => Email(b) # Email(a)
      BY <2>3, <2>6 DEF Rivals, Account
    <3>2. /\ Locks(a)' \cap User = Locks(a) \cap User
          /\ "insert_member" \in Locks(a)' <=> "insert_member" \in Locks(a)
          /\ "consume" \in Locks(a)' <=> "consume" \in Locks(a)
      BY <1>4, <2>6 DEF User, Account
    <3>3. QED
      BY <2>1, <2>2, <3>1, <3>2 DEF Apart
  <2>7. CASE s = "insert_member"
    <3>1. "insert_member" \in Locks(b) => Email(b) # Email(a)
      BY <2>3, <2>7 DEF Rivals
    <3>2. /\ Locks(a)' \cap User = Locks(a) \cap User
          /\ Locks(a)' \cap Account = Locks(a) \cap Account
          /\ "consume" \in Locks(a)' <=> "consume" \in Locks(a)
      BY <1>4, <2>7 DEF User, Account
    <3>3. QED
      BY <2>1, <2>2, <3>1, <3>2 DEF Apart
  <2>8. CASE s = "consume"
    <3>1. "consume" \in Locks(b) => token[b] # token[a]
      BY <2>3, <2>8 DEF Rivals
    <3>2. /\ Locks(a)' \cap User = Locks(a) \cap User
          /\ Locks(a)' \cap Account = Locks(a) \cap Account
          /\ "insert_member" \in Locks(a)' <=> "insert_member" \in Locks(a)
      BY <1>4, <2>8 DEF User, Account
    <3>3. QED
      BY <2>1, <2>2, <3>1, <3>2 DEF Apart
  <2>9. QED
    BY <2>5, <2>6, <2>7, <2>8 DEF Statements, User, Account
<1>6. /\ wrote' = [wrote EXCEPT ![a] = wrote[a] \cup w]
      /\ wrote[a] \cup w \in SUBSET Statements
      /\ token' = [token EXCEPT ![a] = token[a]]
  BY <1>1 DEF InvitationInv, TypeOK, Statements
<1>7. token[a] \in mailed \cup {None} /\ a \notin sessions
  BY <1>2 DEF InvitationInv, Acceptance, Shape
<1>8. UNCHANGED <<people, invitation, expired, mailed, earlier>>
  BY DEF Frame
<1>9. QED
  BY <1>1, <1>2, <1>5, <1>6, <1>7, <1>8, StepKeeps

\* A failure: an open transaction rolls back and holds nothing any more.
LEMMA FailKeeps ==
    ASSUME InvitationInv, NEW a \in Accepts, pc[a] \notin {"answered", "failed"},
           UNCHANGED <<people, invitation, expired, mailed, earlier>>, Fail(a),
           NEW t \in mailed \cup {None}, token' = [token EXCEPT ![a] = t],
           t = token[a] \/ pc[a] = "begin",
           sessions' \in SUBSET (sessions \cup {a}),
           a \in sessions' => Settled(a)
    PROVE  InvitationInv'
<1> DEFINE w == IF InTransaction(a) THEN {} ELSE wrote[a]
<1>1. /\ pc' = [pc EXCEPT ![a] = "failed"] /\ pc'[a] = "failed"
      /\ wrote' = [wrote EXCEPT ![a] = w] /\ wrote'[a] = w /\ w \in SUBSET Statements
      /\ token'[a] = t
  <2>1. TypeOK
    BY DEF InvitationInv
  <2>2. w \in SUBSET Statements
    BY <2>1 DEF TypeOK, Statements
  <2>3. pc' = [pc EXCEPT ![a] = "failed"] /\ wrote' = [wrote EXCEPT ![a] = w]
    BY <2>1, FailAt
  <2> HIDE DEF w
  <2>4. QED
    BY <2>1, <2>2, <2>3 DEF TypeOK, Requests
<1>2. ~InTransaction(a)'
  BY <1>1 DEF InTransaction, TransactionSteps
<1>3. Settled(a) => w = wrote[a] /\ t = token[a]
  BY DEF Settled, InvitationInv, Acceptance, Shape
<1>4. Settled(a)' <=> Settled(a)
  BY <1>1, <1>2 DEF Settled
<1>5. Acceptance(a)'
  <2>1. Acceptance(a) /\ mailed' = mailed
    BY DEF InvitationInv
  <2>2. pc'[a] \in Idle /\ pc'[a] \notin TransactionSteps
    BY <1>1 DEF Idle, TransactionSteps
  <2>3. w = {} \/ Settled(a)
    BY DEF Settled
  <2>4. Shape(a)'
    <3>1. CASE w = {}
      <4>1. ~(User \subseteq {}) /\ ~(Account \subseteq {})
        BY DEF User, Account
      <4>2. QED
        BY <1>1, <1>2, <2>2, <3>1, <4>1, Labels DEF Shape, Settled
    <3>2. CASE Settled(a)
      BY <1>1, <1>2, <1>3, <2>1, <2>2, <3>2, Labels DEF Acceptance, Shape, Settled
    <3>3. QED
      BY <2>3, <3>1, <3>2
  <2>5. Fresh(a)'
    BY <1>2 DEF Fresh
  <2>6. Read(a)'
    BY <1>1, <1>2, <2>2, Labels DEF Read, PastUser, PastMember
  <2>7. QED
    BY <1>1, <1>3, <1>4, <2>1, <2>4, <2>5, <2>6 DEF Acceptance
<1>6. \A b \in Accepts \ {a} : Apart(a, b)'
  BY <1>2 DEF Apart, Locks
<1> HIDE DEF w
<1>7. QED
  BY <1>1, <1>3, <1>4, <1>5, <1>6, StepKeeps

-----------------------------------------------------------------------------
(* The reads and writes of an acceptance, one by one *)

\* What a step within a transaction changes of the acceptance that takes it.
LEMMA Within ==
    ASSUME InvitationInv, NEW a \in Accepts, Frame,
           NEW l, pc' = [pc EXCEPT ![a] = l]
    PROVE  /\ Acceptance(a)
           /\ pc'[a] = l /\ token'[a] = token[a] /\ Person(a)' = Person(a)
           /\ invitation' = invitation /\ mailed' = mailed
           /\ wrote[a] \in SUBSET Statements
BY DEF InvitationInv, TypeOK, Frame, Requests, Person, Email, Statements

\* The acceptance's part of the invariant, from what it knows at its new place.
LEMMA Proceeds ==
    ASSUME NEW a \in Accepts, InTransaction(a)', Shape(a)', Fresh(a)', Read(a)'
    PROVE  Acceptance(a)'
BY DEF Acceptance, Settled

\* A failure within the transaction.
LEMMA FailWithin ==
    ASSUME InvitationInv, NEW a \in Accepts, InTransaction(a), Frame, Fail(a)
    PROVE  InvitationInv'
<1>1. token[a] \in mailed \cup {None} /\ pc[a] \notin {"answered", "failed"}
  BY DEF InvitationInv, Acceptance, Shape, InTransaction, TransactionSteps
<1>2. token' = [token EXCEPT ![a] = token[a]] /\ sessions' \in SUBSET (sessions \cup {a})
  BY DEF InvitationInv, TypeOK, Frame
<1>3. a \in sessions' => Settled(a)
  BY DEF InvitationInv, Frame
<1>4. UNCHANGED <<people, invitation, expired, mailed, earlier>>
  BY DEF Frame
<1>5. QED
  BY <1>1, <1>2, <1>3, <1>4, FailKeeps

LEMMA FindInvitationKeeps ==
    ASSUME InvitationInv, NEW a \in Accepts, FindInvitation(a)
    PROVE  InvitationInv'
<1> USE DEF FindInvitation, Step
<1>0. Frame /\ InTransaction(a)
  BY DEF Frame, InTransaction, TransactionSteps
<1>1. CASE Fail(a)
  BY <1>0, <1>1, FailWithin
<1>2. CASE Acceptable(a) /\ Goto(a, "find_user")
  <2>1. /\ Acceptance(a) /\ pc'[a] = "find_user" /\ wrote'[a] = wrote[a]
        /\ token'[a] = token[a] /\ mailed' = mailed
    BY <1>0, <1>2, Within DEF Goto
  <2>2. token[a] \in mailed /\ wrote[a] = {}
    BY <1>2, <2>1 DEF Acceptance, Shape, Acceptable, FindOrganizationInvitationByToken,
                      TransactionSteps, PastUser
  <2>3. InTransaction(a)'
    BY <2>1 DEF InTransaction, TransactionSteps
  <2>4. Acceptance(a)'
    <3>1. Shape(a)'
      BY <2>1, <2>2, <2>3 DEF Shape, Settled, User, Account, PastUser, PastAccount,
                              TransactionSteps
    <3>2. Fresh(a)' /\ Read(a)'
      BY <2>1, <2>2 DEF Fresh, Read, PastUser, PastMember
    <3>3. QED
      BY <2>3, <3>1, <3>2, Proceeds
  <2>5. "find_user" \in TransactionSteps
    BY DEF TransactionSteps
  <2>6. QED
    BY <1>0, <1>2, <2>4, <2>5, ReadKeeps
<1>3. QED
  BY <1>1, <1>2

LEMMA FindUserKeeps ==
    ASSUME InvitationInv, NEW a \in Accepts, FindUser(a)
    PROVE  InvitationInv'
<1> USE DEF FindUser, Step
<1>0. /\ Frame /\ InTransaction(a) /\ Acceptance(a) /\ wrote[a] = {} /\ token[a] \in mailed
  <2>1. Frame /\ InTransaction(a) /\ Acceptance(a)
    BY DEF Frame, InTransaction, TransactionSteps, InvitationInv
  <2>2. QED
    BY <2>1 DEF Acceptance, Shape, TransactionSteps, PastUser
<1>1. CASE Fail(a)
  BY <1>0, <1>1, FailWithin
<1>2. ASSUME NEW l \in {"insert_user", "verify_user", "find_account"}, Goto(a, l),
             l # "insert_user" => Person(a).user = "active",
             l = "find_account" => Person(a).verified
      PROVE  InvitationInv'
  <2>1. /\ pc'[a] = l /\ wrote'[a] = wrote[a] /\ token'[a] = token[a]
        /\ mailed' = mailed /\ Person(a)' = Person(a)
    BY <1>0, <1>2, Within DEF Goto
  <2>2. l \in TransactionSteps /\ InTransaction(a)'
    BY <2>1 DEF InTransaction, TransactionSteps
  <2>3. Shape(a)'
    BY <1>0, <2>1, <2>2 DEF Shape, Settled, User, Account, PastUser, PastAccount,
                            TransactionSteps
  <2>4. Fresh(a)'
    BY <1>0, <2>1 DEF Fresh
  <2>5. Read(a)'
    BY <1>0, <1>2, <2>1 DEF Read, PastUser, PastMember
  <2>6. QED
    BY <1>0, <1>2, <2>2, <2>3, <2>4, <2>5, Proceeds, ReadKeeps
<1>3. CASE Goto(a, IF ~FindUserByEmail(Email(a)) THEN "insert_user"
                   ELSE IF people[Email(a)].verified THEN "find_account"
                   ELSE "verify_user")
  <2>1. CASE ~FindUserByEmail(Email(a))
    BY <1>2, <1>3, <2>1
  <2>2. CASE FindUserByEmail(Email(a)) /\ Person(a).verified
    BY <1>2, <1>3, <2>2 DEF FindUserByEmail, Person
  <2>3. CASE FindUserByEmail(Email(a)) /\ ~Person(a).verified
    BY <1>2, <1>3, <2>3 DEF FindUserByEmail, Person
  <2>4. QED
    BY <2>1, <2>2, <2>3
<1>4. QED
  BY <1>1, <1>3

LEMMA FindAccountKeeps ==
    ASSUME InvitationInv, NEW a \in Accepts, FindAccount(a)
    PROVE  InvitationInv'
<1> USE DEF FindAccount, Step
<1>0. /\ Frame /\ InTransaction(a) /\ Acceptance(a)
      /\ wrote[a] \subseteq User /\ token[a] \in mailed
  <2>1. Frame /\ InTransaction(a) /\ Acceptance(a)
    BY DEF Frame, InTransaction, TransactionSteps, InvitationInv
  <2>2. QED
    BY <2>1 DEF Acceptance, Shape, TransactionSteps, PastUser, PastAccount
<1>1. CASE Fail(a)
  BY <1>0, <1>1, FailWithin
<1>2. ASSUME NEW l \in {"update_hash", "insert_account"}, Goto(a, l),
             l = "update_hash" => Person(a).password # None
      PROVE  InvitationInv'
  <2>1. /\ pc'[a] = l /\ wrote'[a] = wrote[a] /\ token'[a] = token[a]
        /\ mailed' = mailed /\ Person(a)' = Person(a)
    BY <1>0, <1>2, Within DEF Goto
  <2>2. l \in TransactionSteps /\ InTransaction(a)'
    BY <2>1 DEF InTransaction, TransactionSteps
  <2>3. Shape(a)'
    BY <1>0, <2>1, <2>2 DEF Acceptance, Shape, Settled, User, Account, PastUser,
                            PastAccount, TransactionSteps
  <2>4. Fresh(a)'
    BY <1>0, <2>1 DEF Acceptance, Fresh, User
  <2>5. Read(a)'
    BY <1>0, <1>2, <2>1 DEF Acceptance, Read, PastUser, PastMember, User
  <2>6. QED
    BY <1>0, <1>2, <2>2, <2>3, <2>4, <2>5, Proceeds, ReadKeeps
<1>3. CASE Goto(a, IF ~OwnUser(a) /\ FindPasswordAccountByUserID(Email(a))
                   THEN "update_hash" ELSE "insert_account")
  <2>1. CASE ~OwnUser(a) /\ FindPasswordAccountByUserID(Email(a))
    BY <1>2, <1>3, <2>1 DEF FindPasswordAccountByUserID, Person
  <2>2. CASE ~(~OwnUser(a) /\ FindPasswordAccountByUserID(Email(a)))
    BY <1>2, <1>3, <2>2
  <2>3. QED
    BY <2>1, <2>2
<1>4. QED
  BY <1>1, <1>3

LEMMA FindMemberKeeps ==
    ASSUME InvitationInv, NEW a \in Accepts, FindMember(a)
    PROVE  InvitationInv'
<1> USE DEF FindMember, Step
<1>0. /\ Frame /\ InTransaction(a) /\ Acceptance(a)
      /\ wrote[a] \subseteq User \cup Account /\ wrote[a] \cap Account # {}
      /\ token[a] \in mailed
  <2>1. Frame /\ InTransaction(a) /\ Acceptance(a)
    BY DEF Frame, InTransaction, TransactionSteps, InvitationInv
  <2>2. QED
    BY <2>1 DEF Acceptance, Shape, TransactionSteps, PastUser, PastAccount
<1>1. CASE Fail(a)
  BY <1>0, <1>1, FailWithin
<1>2. ASSUME NEW l \in {"consume", "insert_member"}, Goto(a, l),
             l = "consume" => Person(a).member # None
      PROVE  InvitationInv'
  <2>1. /\ pc'[a] = l /\ wrote'[a] = wrote[a] /\ token'[a] = token[a]
        /\ mailed' = mailed /\ Person(a)' = Person(a)
    BY <1>0, <1>2, Within DEF Goto
  <2>2. l \in TransactionSteps /\ InTransaction(a)'
    BY <2>1 DEF InTransaction, TransactionSteps
  <2>3. Shape(a)'
    BY <1>0, <2>1, <2>2 DEF Acceptance, Shape, Settled, User, Account, PastUser,
                            PastAccount, TransactionSteps
  <2>4. Fresh(a)'
    BY <1>0, <2>1 DEF Acceptance, Fresh, User, Account
  <2>5. Read(a)'
    BY <1>0, <1>2, <2>1 DEF Acceptance, Read, PastUser, PastMember, User
  <2>6. QED
    BY <1>0, <1>2, <2>2, <2>3, <2>4, <2>5, Proceeds, ReadKeeps
<1>3. CASE Goto(a, IF ~OwnUser(a) /\ FindOrganizationByIDForUser(Email(a))
                   THEN "consume" ELSE "insert_member")
  <2>1. CASE ~OwnUser(a) /\ FindOrganizationByIDForUser(Email(a))
    BY <1>2, <1>3, <2>1 DEF FindOrganizationByIDForUser, Person
  <2>2. CASE ~(~OwnUser(a) /\ FindOrganizationByIDForUser(Email(a)))
    BY <1>2, <1>3, <2>2
  <2>3. QED
    BY <2>1, <2>2
<1>4. QED
  BY <1>1, <1>3

\* A write either fails, or makes its change with the row unlocked and no
\* duplicate there: then its own part of the invariant is what is left to show.
LEMMA WriteCases ==
    ASSUME InvitationInv, NEW a \in Accepts,
           NEW s \in Statements \ {"consume"}, NEW duplicate \in BOOLEAN,
           NEW l \in TransactionSteps,
           Write(a, s, duplicate, l),
           ASSUME ~duplicate, Acceptance(a), pc[a] = s, InTransaction(a),
                  pc'[a] = l, wrote'[a] = wrote[a] \cup {s}, token'[a] = token[a],
                  mailed' = mailed, Person(a)' = Person(a), invitation' = invitation,
                  InTransaction(a)', wrote[a] \in SUBSET Statements
           PROVE  Shape(a)' /\ Fresh(a)' /\ Read(a)'
    PROVE  InvitationInv'
<1>0. Frame /\ InTransaction(a) /\ pc[a] = s
  BY DEF Write, Step, Frame, InTransaction, TransactionSteps, Statements
<1>1. CASE Fail(a)
  BY <1>0, <1>1, FailWithin
<1>2. CASE /\ ~duplicate
           /\ wrote' = [wrote EXCEPT ![a] = @ \cup {s}]
           /\ pc' = [pc EXCEPT ![a] = l]
  <2>1. /\ Acceptance(a) /\ pc'[a] = l /\ token'[a] = token[a] /\ Person(a)' = Person(a)
        /\ invitation' = invitation /\ mailed' = mailed /\ wrote[a] \in SUBSET Statements
    BY <1>0, <1>2, Within
  <2>2. wrote'[a] = wrote[a] \cup {s}
    BY <1>2 DEF InvitationInv, TypeOK
  <2>3. InTransaction(a)'
    BY <2>1 DEF InTransaction
  <2>4. Shape(a)' /\ Fresh(a)' /\ Read(a)'
    BY <1>0, <1>2, <2>1, <2>2, <2>3
  <2>5. Acceptance(a)'
    BY <2>3, <2>4, Proceeds
  <2>6. Unlocked(a, s)
    BY DEF Write
  <2>7. {s} \in SUBSET {s} /\ s \in Statements
    OBVIOUS
  <2>8. QED
    BY <1>0, <1>2, <2>5, <2>6, <2>7, WriteKeeps
<1>3. QED
  BY <1>1, <1>2 DEF Write

LEMMA WriteUserKeeps ==
    ASSUME InvitationInv, NEW a \in Accepts, WriteUser(a)
    PROVE  InvitationInv'
<1> DEFINE duplicate == Person(a).user # "none"
<1>1. ASSUME ~duplicate, Acceptance(a), pc[a] = "insert_user", InTransaction(a),
             pc'[a] = "find_account", wrote'[a] = wrote[a] \cup {"insert_user"},
             token'[a] = token[a], mailed' = mailed, Person(a)' = Person(a),
             invitation' = invitation, InTransaction(a)', wrote[a] \in SUBSET Statements
      PROVE  Shape(a)' /\ Fresh(a)' /\ Read(a)'
  <2>1. wrote[a] = {} /\ token[a] \in mailed
    BY <1>1 DEF Acceptance, Shape, TransactionSteps, PastUser
  <2>2. wrote'[a] = {"insert_user"}
    BY <1>1, <2>1
  <2>3. Shape(a)'
    BY <1>1, <2>1, <2>2 DEF Shape, Settled, User, Account, PastUser, PastAccount,
                            TransactionSteps
  <2>4. Fresh(a)'
    BY <1>1, <2>2 DEF Fresh
  <2>5. Read(a)'
    BY <1>1, <2>2 DEF Read, PastUser, PastMember, User
  <2>6. QED
    BY <2>3, <2>4, <2>5
<1>2. Write(a, "insert_user", duplicate, "find_account")
  BY DEF WriteUser, Person
<1>3. /\ "insert_user" \in Statements \ {"consume"} /\ duplicate \in BOOLEAN
      /\ "find_account" \in TransactionSteps
  BY DEF Statements, TransactionSteps
<1> HIDE DEF duplicate
<1>4. QED
  BY <1>1, <1>2, <1>3, WriteCases

LEMMA VerifyUserKeeps ==
    ASSUME InvitationInv, NEW a \in Accepts, VerifyUser(a)
    PROVE  InvitationInv'
<1>1. ASSUME Acceptance(a), pc[a] = "verify_user", InTransaction(a),
             pc'[a] = "find_account", wrote'[a] = wrote[a] \cup {"verify_user"},
             token'[a] = token[a], mailed' = mailed, Person(a)' = Person(a),
             invitation' = invitation, InTransaction(a)', wrote[a] \in SUBSET Statements
      PROVE  Shape(a)' /\ Fresh(a)' /\ Read(a)'
  <2>1. wrote[a] = {} /\ token[a] \in mailed /\ Person(a).user = "active"
    BY <1>1 DEF Acceptance, Shape, Read, TransactionSteps, PastUser
  <2>2. wrote'[a] = {"verify_user"}
    BY <1>1, <2>1
  <2>3. Shape(a)'
    BY <1>1, <2>1, <2>2 DEF Shape, Settled, User, Account, PastUser, PastAccount,
                            TransactionSteps
  <2>4. Fresh(a)'
    BY <1>1, <2>2 DEF Fresh
  <2>5. Read(a)'
    BY <1>1, <2>1, <2>2 DEF Read, PastUser, PastMember, User
  <2>6. QED
    BY <2>3, <2>4, <2>5
<1>2. Write(a, "verify_user", FALSE, "find_account")
  BY DEF VerifyUser
<1>3. "verify_user" \in Statements \ {"consume"} /\ "find_account" \in TransactionSteps
  BY DEF Statements, TransactionSteps
<1>4. QED
  BY <1>1, <1>2, <1>3, WriteCases

LEMMA WriteAccountKeeps ==
    ASSUME InvitationInv, NEW a \in Accepts, WriteAccount(a)
    PROVE  InvitationInv'
<1> DEFINE duplicate == FindPasswordAccountByUserID(Email(a))
<1>1. ASSUME ~duplicate, Acceptance(a), pc[a] = "insert_account", InTransaction(a),
             pc'[a] = "find_member", wrote'[a] = wrote[a] \cup {"insert_account"},
             token'[a] = token[a], mailed' = mailed, Person(a)' = Person(a),
             invitation' = invitation, InTransaction(a)', wrote[a] \in SUBSET Statements
      PROVE  Shape(a)' /\ Fresh(a)' /\ Read(a)'
  <2>1. wrote[a] \subseteq User /\ token[a] \in mailed /\ Person(a).password = None
    BY <1>1 DEF Acceptance, Shape, TransactionSteps, PastUser, PastAccount,
                FindPasswordAccountByUserID, Person
  <2>2. Shape(a)'
    BY <1>1, <2>1 DEF Acceptance, Shape, Settled, User, Account, PastUser, PastAccount,
                      TransactionSteps
  <2>3. Fresh(a)'
    BY <1>1, <2>1 DEF Acceptance, Fresh, User
  <2>4. Read(a)'
    BY <1>1, <2>1 DEF Acceptance, Read, PastUser, PastMember, User
  <2>5. QED
    BY <2>2, <2>3, <2>4
<1>2. Write(a, "insert_account", duplicate, "find_member")
  BY DEF WriteAccount
<1>3. /\ "insert_account" \in Statements \ {"consume"} /\ duplicate \in BOOLEAN
      /\ "find_member" \in TransactionSteps
  BY DEF Statements, TransactionSteps, FindPasswordAccountByUserID
<1> HIDE DEF duplicate
<1>4. QED
  BY <1>1, <1>2, <1>3, WriteCases

LEMMA WriteHashKeeps ==
    ASSUME InvitationInv, NEW a \in Accepts, WriteHash(a)
    PROVE  InvitationInv'
<1>1. ASSUME Acceptance(a), pc[a] = "update_hash", InTransaction(a),
             pc'[a] = "find_member", wrote'[a] = wrote[a] \cup {"update_hash"},
             token'[a] = token[a], mailed' = mailed, Person(a)' = Person(a),
             invitation' = invitation, InTransaction(a)', wrote[a] \in SUBSET Statements
      PROVE  Shape(a)' /\ Fresh(a)' /\ Read(a)'
  <2>1. wrote[a] \subseteq User /\ token[a] \in mailed /\ Person(a).password # None
    BY <1>1 DEF Acceptance, Shape, Read, TransactionSteps, PastUser, PastAccount
  <2>2. Shape(a)'
    BY <1>1, <2>1 DEF Acceptance, Shape, Settled, User, Account, PastUser, PastAccount,
                      TransactionSteps
  <2>3. Fresh(a)'
    BY <1>1, <2>1 DEF Acceptance, Fresh, User
  <2>4. Read(a)'
    BY <1>1, <2>1 DEF Acceptance, Read, PastUser, PastMember, User
  <2>5. QED
    BY <2>2, <2>3, <2>4
<1>2. Write(a, "update_hash", FALSE, "find_member")
  BY DEF WriteHash
<1>3. "update_hash" \in Statements \ {"consume"} /\ "find_member" \in TransactionSteps
  BY DEF Statements, TransactionSteps
<1>4. QED
  BY <1>1, <1>2, <1>3, WriteCases

LEMMA WriteMemberKeeps ==
    ASSUME InvitationInv, NEW a \in Accepts, WriteMember(a)
    PROVE  InvitationInv'
<1> DEFINE duplicate == FindOrganizationByIDForUser(Email(a))
<1>1. ASSUME ~duplicate, Acceptance(a), pc[a] = "insert_member", InTransaction(a),
             pc'[a] = "consume", wrote'[a] = wrote[a] \cup {"insert_member"},
             token'[a] = token[a], mailed' = mailed, Person(a)' = Person(a),
             invitation' = invitation, InTransaction(a)', wrote[a] \in SUBSET Statements
      PROVE  Shape(a)' /\ Fresh(a)' /\ Read(a)'
  <2>1. /\ wrote[a] \subseteq User \cup Account /\ wrote[a] \cap Account # {}
        /\ token[a] \in mailed /\ Person(a).member = None
    BY <1>1 DEF Acceptance, Shape, TransactionSteps, PastUser, PastAccount,
                FindOrganizationByIDForUser, Person
  <2>2. Shape(a)'
    BY <1>1, <2>1 DEF Acceptance, Shape, Settled, User, Account, PastUser, PastAccount,
                      TransactionSteps
  <2>3. Fresh(a)'
    BY <1>1, <2>1 DEF Acceptance, Fresh, User, Account
  <2>4. Read(a)'
    BY <1>1, <2>1 DEF Acceptance, Read, PastUser, PastMember, User, Account
  <2>5. QED
    BY <2>2, <2>3, <2>4
<1>2. Write(a, "insert_member", duplicate, "consume")
  BY DEF WriteMember
<1>3. /\ "insert_member" \in Statements \ {"consume"} /\ duplicate \in BOOLEAN
      /\ "consume" \in TransactionSteps
  BY DEF Statements, TransactionSteps, FindOrganizationByIDForUser
<1> HIDE DEF duplicate
<1>4. QED
  BY <1>1, <1>2, <1>3, WriteCases

\* The invitation was mailed, so it is there: what is not pending is accepted.
LEMMA ConsumeKeeps ==
    ASSUME InvitationInv, NEW a \in Accepts, Consume(a)
    PROVE  InvitationInv'
<1> DEFINE w == ConsumeOrganizationInvitation(a)
<1>0. /\ Frame /\ InTransaction(a) /\ Acceptance(a) /\ pc[a] = "consume"
  BY DEF Consume, Step, Frame, InTransaction, TransactionSteps, InvitationInv
<1>1. CASE Fail(a)
  BY <1>0, <1>1, FailWithin
<1>2. CASE wrote' = [wrote EXCEPT ![a] = @ \cup w] /\ pc' = [pc EXCEPT ![a] = "commit"]
  <2>1. /\ pc'[a] = "commit" /\ token'[a] = token[a] /\ Person(a)' = Person(a)
        /\ invitation' = invitation /\ mailed' = mailed /\ wrote[a] \in SUBSET Statements
    BY <1>0, <1>2, Within
  <2>2. wrote'[a] = wrote[a] \cup w /\ w \in SUBSET {"consume"}
    BY <1>2 DEF InvitationInv, TypeOK, ConsumeOrganizationInvitation
  <2>3. /\ "commit" \in TransactionSteps /\ "consume" \in Statements /\ InTransaction(a)'
        /\ Unlocked(a, "consume")
    BY <2>1 DEF TransactionSteps, Statements, InTransaction, Consume
  <2>4. /\ token[a] \in mailed /\ wrote[a] \cap Account # {}
        /\ "consume" \notin wrote[a]
    BY <1>0 DEF Acceptance, Shape, TransactionSteps, PastAccount
  <2>5. IF w = {} THEN invitation[token[a]] = "accepted" ELSE invitation[token[a]] = "pending"
    <3>1. token[a] \in Creates
      BY <2>4 DEF InvitationInv, TypeOK
    <3>2. invitation[token[a]] \in {"pending", "accepted"}
      BY <2>4, <3>1 DEF InvitationInv, Creation, TypeOK
    <3>3. QED
      BY <3>2 DEF ConsumeOrganizationInvitation
  <2>6. w = {} \/ w = {"consume"}
    BY DEF ConsumeOrganizationInvitation
  <2> HIDE DEF w
  <2>7. Shape(a)'
    BY <1>0, <2>1, <2>2, <2>3, <2>4 DEF Acceptance, Shape, Settled, User, Account,
                                        PastUser, PastAccount, TransactionSteps
  <2>8. Fresh(a)'
    BY <1>0, <2>1, <2>2, <2>4, <2>5, <2>6 DEF Acceptance, Fresh
  <2>9. Read(a)'
    BY <1>0, <2>1, <2>2, <2>3, <2>4, <2>5, <2>6
    DEF Acceptance, Read, PastUser, PastMember, User, Account
  <2>10. Acceptance(a)'
    BY <2>3, <2>7, <2>8, <2>9, Proceeds
  <2>11. QED
    BY <1>0, <1>2, <2>2, <2>3, <2>10, WriteKeeps
<1>3. QED
  BY <1>1, <1>2 DEF Consume

-----------------------------------------------------------------------------
(* The commit *)

\* What a committing transaction leaves of its person: a member, whatever was
\* there; and nothing that others have read is undone.
LEMMA CommitMakesMember ==
    ASSUME InvitationInv, NEW a \in Accepts, pc[a] = "commit"
    PROVE  /\ token[a] \in mailed /\ token[a] \in Creates /\ Email(a) \in Emails
           /\ Committed(a) \in People
           /\ Member(Committed(a))
           /\ Committed(a).password = a
           /\ Committed(a).member = IF Person(a).member = None THEN token[a]
                                    ELSE Person(a).member
           /\ Person(a).user = Committed(a).user \/ "insert_user" \in Locks(a)
           /\ Person(a).verified => Committed(a).verified
           /\ Person(a).password # None <=> "update_hash" \in Locks(a)
           /\ wrote[a] \cap Account # {} /\ ~(Account \subseteq wrote[a])
           /\ Locks(a) = wrote[a]
<1>1. Acceptance(a) /\ InTransaction(a)
  BY DEF InvitationInv, InTransaction, TransactionSteps
<1>2. Shape(a) /\ Fresh(a) /\ Read(a) /\ TypeOK
  BY <1>1 DEF Acceptance, InvitationInv
<1>3. /\ token[a] \in mailed /\ wrote[a] \cap Account # {}
      /\ ~(User \subseteq wrote[a]) /\ ~(Account \subseteq wrote[a])
  BY <1>2 DEF Shape, TransactionSteps, PastAccount
<1>4. token[a] \in Creates /\ Email(a) \in Emails
  BY <1>2, <1>3 DEF TypeOK, Email
<1>5. /\ Committed(a) \in People
      /\ Committed(a).user = IF "insert_user" \in wrote[a] THEN "active" ELSE Person(a).user
      /\ Committed(a).verified <=> Person(a).verified \/ wrote[a] \cap User # {}
      /\ Committed(a).password = a
      /\ Committed(a).member = IF "insert_member" \in wrote[a] THEN token[a]
                               ELSE Person(a).member
  BY <1>2, <1>3, <1>4, CommittedRow
<1>6. /\ "insert_user" \in wrote[a] \/ Person(a).user = "active"
      /\ wrote[a] \cap User # {} \/ Person(a).verified
      /\ "insert_member" \in wrote[a] \/ Person(a).member # None
      /\ "update_hash" \in wrote[a] => Person(a).password # None
      /\ "insert_account" \in wrote[a] => Person(a).password = None
      /\ "insert_member" \in wrote[a] => Person(a).member = None
  BY <1>1, <1>2 DEF Read, Fresh, PastUser, PastMember
<1>7. a # None /\ token[a] # None
  BY <1>4
<1>8. Member(Committed(a))
  BY <1>5, <1>6, <1>7 DEF Member
<1>9. Locks(a) = wrote[a]
  BY <1>1 DEF Locks
<1>10. Person(a).password # None <=> "update_hash" \in Locks(a)
  BY <1>3, <1>6, <1>9 DEF Account
<1>11. Committed(a).member = IF Person(a).member = None THEN token[a] ELSE Person(a).member
  BY <1>5, <1>6
<1>12. QED
  BY <1>3, <1>4, <1>5, <1>8, <1>9, <1>10, <1>11

\* The commit of another transaction undoes nothing that an acceptance relies on:
\* the rows it holds itself the other one has not written.
LEMMA CommitSpares ==
    ASSUME InvitationInv, NEW a \in Accepts, NEW b \in Accepts \ {a}, pc[a] = "commit",
           people' = [people EXCEPT ![Email(a)] = Committed(a)],
           invitation' = IF "consume" \in wrote[a]
                         THEN [invitation EXCEPT ![token[a]] = "accepted"]
                         ELSE invitation,
           mailed' = mailed,
           pc'[b] = pc[b], wrote'[b] = wrote[b], token'[b] = token[b]
    PROVE  Acceptance(b)'
<1>1. /\ Acceptance(b) /\ Apart(a, b) /\ TypeOK /\ mailed \subseteq Creates
      /\ people \in [Emails -> People] /\ invitation \in [Creates -> {"absent", "pending", "accepted"}]
      /\ EmailOf \in [Creates -> Emails]
  BY DEF InvitationInv, TypeOK
<1>2. /\ Settled(b)' <=> Settled(b)
      /\ InTransaction(b)' <=> InTransaction(b)
      /\ Locks(b)' = Locks(b) /\ Email(b)' = Email(b)
  BY DEF Settled, InTransaction, Locks, Email
<1>3. Shape(b)'
  BY <1>1, <1>2 DEF Acceptance, Shape
<1>4. CASE token[b] \notin mailed
  <2>1. wrote[b] = {} /\ pc[b] \notin PastUser \cup {"verify_user"}
    BY <1>1, <1>4 DEF Acceptance, Shape, TransactionSteps, PastUser
  <2>2. Fresh(b)' /\ ~Settled(b)'
    BY <1>2, <2>1 DEF Fresh, Settled
  <2>3. Read(b)'
    BY <2>1 DEF Read, PastUser, PastMember
  <2>4. QED
    BY <1>3, <2>2, <2>3 DEF Acceptance
<1>5. CASE token[b] \in mailed
  <2>0. token[b] \in Creates /\ Email(b) \in Emails
    BY <1>1, <1>5 DEF Email
  <2>1. /\ token[a] \in Creates /\ Email(a) \in Emails /\ Member(Committed(a))
        /\ Committed(a).member = IF Person(a).member = None THEN token[a]
                                 ELSE Person(a).member
        /\ Person(a).user = Committed(a).user \/ "insert_user" \in Locks(a)
        /\ Person(a).password # None <=> "update_hash" \in Locks(a)
        /\ wrote[a] \cap Account # {} /\ Locks(a) = wrote[a]
    BY CommitMakesMember
  <2>2. /\ invitation'[token[b]] = "accepted" \/ invitation'[token[b]] = invitation[token[b]]
        /\ invitation[token[b]] = "accepted" => invitation'[token[b]] = "accepted"
    BY <1>1, <2>0, <2>1
  <2>3. InTransaction(b) /\ "consume" \in wrote[b] => invitation'[token[b]] = "pending"
    <3>1. SUFFICES ASSUME InTransaction(b), "consume" \in wrote[b]
                   PROVE  invitation'[token[b]] = "pending"
      OBVIOUS
    <3>2. "consume" \in Locks(b) /\ invitation[token[b]] = "pending"
      BY <1>1, <3>1 DEF Locks, Acceptance, Fresh
    <3>3. "consume" \in wrote[a] => token[a] # token[b]
      BY <1>1, <2>1, <3>2 DEF Apart
    <3>4. QED
      BY <1>1, <2>0, <2>1, <3>2, <3>3
  <2>4. CASE Email(a) # Email(b)
    <3>1. Person(b)' = Person(b)
      BY <1>1, <1>2, <2>0, <2>1, <2>4 DEF Person
    <3>2. Fresh(b)'
      BY <1>1, <1>2, <2>3, <3>1 DEF Acceptance, Fresh
    <3>3. Read(b)'
      BY <1>1, <1>2, <2>2, <3>1 DEF Acceptance, Read
    <3>4. QED
      BY <1>1, <1>2, <1>3, <2>2, <3>2, <3>3 DEF Acceptance
  <2>5. CASE Email(a) = Email(b)
    <3>1. Person(b)' = Committed(a) /\ Person(b) = Person(a)
      BY <1>1, <1>2, <2>0, <2>1, <2>5 DEF Person
    <3>2. InTransaction(b) => Locks(b) = wrote[b]
      BY DEF Locks
    <3>3. InTransaction(b) /\ "insert_user" \in wrote[b] => Person(b)'.user = "none"
      BY <1>1, <2>1, <2>5, <3>1, <3>2 DEF Apart, User, Acceptance, Fresh
    <3>4. InTransaction(b) => wrote[b] \cap Account = {}
      BY <1>1, <2>1, <2>5, <3>2 DEF Apart
    <3>5. InTransaction(b) /\ "insert_member" \in wrote[b] => FALSE
      <4>1. SUFFICES ASSUME InTransaction(b), "insert_member" \in wrote[b]
                     PROVE  FALSE
        OBVIOUS
      <4>2. Person(a).member = None
        BY <1>1, <3>1, <4>1 DEF Acceptance, Fresh
      <4>3. "insert_member" \in wrote[a]
        BY <4>2 DEF InvitationInv, Acceptance, Read, PastMember
      <4>4. QED
        BY <1>1, <2>1, <2>5, <3>2, <4>1, <4>3 DEF Apart
    <3>6. Fresh(b)'
      BY <1>2, <2>3, <3>3, <3>4, <3>5 DEF Fresh, Account
    <3>7. Read(b)'
      BY <1>1, <2>1, <2>2, <3>1 DEF Acceptance, Read, Member
    <3>8. QED
      BY <1>1, <1>2, <1>3, <2>2, <3>6, <3>7 DEF Acceptance
  <2>6. QED
    BY <2>4, <2>5
<1>6. QED
  BY <1>4, <1>5

\* The acceptance that commits: its invitation is accepted, by it or before it.
LEMMA CommitSettles ==
    ASSUME InvitationInv, NEW a \in Accepts, pc[a] = "commit",
           people' = [people EXCEPT ![Email(a)] = Committed(a)],
           invitation' = IF "consume" \in wrote[a]
                         THEN [invitation EXCEPT ![token[a]] = "accepted"]
                         ELSE invitation,
           mailed' = mailed, wrote' = wrote, token' = token,
           NEW l \in {"session", "failed"}, pc' = [pc EXCEPT ![a] = l]
    PROVE  /\ Acceptance(a)' /\ Settled(a)' /\ ~InTransaction(a)'
           /\ token[a] \in mailed /\ invitation'[token[a]] = "accepted"
           /\ "consume" \in wrote[a] => invitation[token[a]] = "pending"
<1>1. /\ Acceptance(a) /\ TypeOK /\ InTransaction(a) /\ pc'[a] = l
  BY DEF InvitationInv, InTransaction, TransactionSteps, TypeOK, Requests
<1>2. /\ token[a] \in mailed /\ token[a] \in Creates /\ wrote[a] \cap Account # {}
  BY CommitMakesMember
<1>3. invitation'[token[a]] = "accepted"
  BY <1>1, <1>2 DEF Acceptance, Read, TypeOK
<1>4. ~InTransaction(a)' /\ Settled(a)' /\ pc'[a] \notin TransactionSteps
  BY <1>1, <1>2 DEF Settled, InTransaction, TransactionSteps
<1>5. Shape(a)'
  BY <1>1, <1>2, <1>4, Labels DEF Acceptance, Shape, Idle
<1>6. Fresh(a)' /\ Read(a)'
  BY <1>1, <1>4, Labels DEF Fresh, Read, PastUser, PastMember
<1>7. "consume" \in wrote[a] => invitation[token[a]] = "pending"
  BY <1>1 DEF Acceptance, Fresh
<1>8. QED
  BY <1>2, <1>3, <1>4, <1>5, <1>6, <1>7 DEF Acceptance

LEMMA CommittedKeeps ==
    ASSUME InvitationInv, NEW a \in Accepts, pc[a] = "commit",
           people' = [people EXCEPT ![Email(a)] = Committed(a)],
           invitation' = IF "consume" \in wrote[a]
                         THEN [invitation EXCEPT ![token[a]] = "accepted"]
                         ELSE invitation,
           NEW l \in {"session", "failed"}, Goto(a, l),
           UNCHANGED <<expired, mailed, token, sessions, earlier>>
    PROVE  InvitationInv'
<1>1. /\ pc' = [pc EXCEPT ![a] = l] /\ wrote' = wrote /\ TypeOK /\ a \in Requests
      /\ \A r \in Requests \ {a} : pc'[r] = pc[r]
      /\ token' = token /\ mailed' = mailed /\ sessions' = sessions
  BY DEF Goto, InvitationInv, TypeOK, Requests
<1>2. /\ Acceptance(a)' /\ Settled(a)' /\ ~InTransaction(a)'
      /\ token[a] \in mailed /\ invitation'[token[a]] = "accepted"
      /\ "consume" \in wrote[a] => invitation[token[a]] = "pending"
  BY <1>1, CommitSettles
<1>3. /\ token[a] \in Creates /\ Email(a) \in Emails
      /\ Committed(a) \in People /\ Member(Committed(a))
      /\ Person(a).password # None <=> "update_hash" \in Locks(a)
      /\ wrote[a] \cap Account # {} /\ Locks(a) = wrote[a]
  BY CommitMakesMember
<1>4. TypeOK'
  <2>1. people' \in [Emails -> People]
    BY <1>1, <1>3 DEF TypeOK
  <2>2. invitation' \in [Creates -> {"absent", "pending", "accepted"}]
    BY <1>1, <1>3 DEF TypeOK
  <2>3. pc' \in [Requests -> TransactionSteps \cup Idle
           \cup {"check_member", "check_membership", "check_pending",
            "insert", "send", "session", "respond"}]
    BY <1>1 DEF TypeOK, Idle
  <2>4. \A b \in Accepts :
          pc'[b] \in TransactionSteps \ {"find_invitation"} => token'[b] \in mailed'
    BY <1>1, <1>2 DEF TypeOK, Requests
  <2>5. QED
    BY <1>1, <2>1, <2>2, <2>3, <2>4 DEF TypeOK
<1>5. ASSUME NEW c \in Creates
      PROVE  /\ invitation'[c] = "accepted" \/ invitation'[c] = invitation[c]
             /\ invitation[c] = "accepted" => invitation'[c] = "accepted"
             /\ invitation'[c] = "absent" <=> invitation[c] = "absent"
  <2>1. invitation[token[a]] # "absent"
    BY <1>2, <1>3 DEF InvitationInv, Creation
  <2>2. QED
    BY <1>1, <1>3, <2>1 DEF TypeOK
<1>6. ASSUME NEW c \in Creates
      PROVE  Creation(c)'
  <2>1. Creation(c) /\ earlier' = earlier /\ mailed' = mailed /\ earlier[c] \subseteq Creates
    BY <1>1 DEF InvitationInv, TypeOK
  <2>2. pc'[c] = pc[c]
    BY <1>1 DEF Requests
  <2>3. invitation'[c] = "accepted" => Member(people'[EmailOf[c]])
    <3>1. CASE EmailOf[c] = Email(a)
      <4>1. people'[EmailOf[c]] = Committed(a)
        BY <1>1, <1>3, <3>1 DEF TypeOK
      <4>2. QED
        BY <1>3, <4>1
    <3>2. CASE EmailOf[c] # Email(a)
      <4>1. people'[EmailOf[c]] = people[EmailOf[c]]
        BY <1>1, <1>3, <3>2 DEF TypeOK
      <4>2. c # token[a]
        BY <3>2 DEF Email
      <4>3. invitation'[c] = invitation[c]
        BY <1>1, <1>3, <4>2 DEF TypeOK
      <4>4. QED
        BY <2>1, <4>1, <4>3 DEF Creation
    <3>3. QED
      BY <3>1, <3>2
  <2>4. \A d \in earlier'[c] :
          /\ EmailOf[d] = EmailOf[c] /\ invitation'[d] # "absent"
          /\ pc'[c] = "insert" \/ invitation'[c] # "absent" => invitation'[d] = "accepted"
    BY <1>5, <2>1, <2>2 DEF Creation
  <2>5. QED
    BY <1>5, <2>1, <2>2, <2>3, <2>4 DEF Creation
<1>7. ASSUME NEW b \in Accepts \ {a}
      PROVE  /\ Acceptance(b)' /\ (b \in sessions' => Settled(b)')
             /\ Locks(b)' = Locks(b) /\ (Settled(b)' <=> Settled(b))
  <2>1. pc'[b] = pc[b] /\ wrote'[b] = wrote[b] /\ token'[b] = token[b]
    BY <1>1 DEF Requests
  <2>2. Acceptance(b)'
    BY <1>1, <2>1, CommitSpares
  <2>3. Locks(b)' = Locks(b) /\ (Settled(b)' <=> Settled(b))
    BY <2>1 DEF Locks, Settled, InTransaction
  <2>4. QED
    BY <1>1, <2>2, <2>3 DEF InvitationInv
<1>8. ASSUME NEW b \in Accepts, NEW d \in Accepts, b # d
      PROVE  Apart(b, d)'
  <2>1. CASE b = a \/ d = a
    <3>1. Locks(a)' = {}
      BY <1>2 DEF Locks
    <3>2. QED
      BY <2>1, <3>1 DEF Apart
  <2>2. CASE b # a /\ d # a
    <3>1. /\ Locks(b)' = Locks(b) /\ Locks(d)' = Locks(d) /\ Apart(b, d)
          /\ Email(b)' = Email(b) /\ Email(d)' = Email(d)
          /\ token'[b] = token[b] /\ token'[d] = token[d]
      BY <1>1, <1>7, <1>8, <2>2 DEF Email, InvitationInv
    <3>2. QED
      BY <3>1 DEF Apart
  <2>3. QED
    BY <2>1, <2>2
<1>9. ASSUME NEW b \in Accepts \ {a}, Settled(b), token[b] = token[a]
      PROVE  "consume" \notin wrote[a] /\ "update_hash" \in wrote[a]
  <2>1. invitation[token[a]] = "accepted"
    BY <1>9 DEF InvitationInv, Acceptance
  <2>2. Person(a).password # None
    BY <1>3, <2>1 DEF InvitationInv, Creation, Member, Person, Email
  <2>3. QED
    BY <1>2, <1>3, <2>1, <2>2
<1>10. ASSUME NEW b \in Accepts, NEW d \in Accepts, b # d
       PROVE  Once(b, d)'
  <2>1. Once(b, d) /\ wrote' = wrote /\ token' = token
    BY <1>1, <1>10 DEF InvitationInv
  <2>2. QED
    BY <1>7, <1>9, <1>10, <2>1 DEF Once
<1>11. a \in sessions' => Settled(a)'
  BY <1>2
<1>12. QED
  BY <1>2, <1>4, <1>6, <1>7, <1>8, <1>10, <1>11 DEF InvitationInv

LEMMA CommitKeeps ==
    ASSUME InvitationInv, NEW a \in Accepts, Commit(a)
    PROVE  InvitationInv'
<1>1. pc[a] = "commit" /\ UNCHANGED <<expired, mailed, token, sessions, earlier>>
  BY DEF Commit
<1>2. CASE Fail(a) /\ UNCHANGED <<people, invitation>>
  BY <1>1, <1>2, FailWithin DEF Frame, InTransaction, TransactionSteps
<1>3. CASE /\ people' = [people EXCEPT ![Email(a)] = Committed(a)]
           /\ invitation' = IF "consume" \in wrote[a]
                            THEN [invitation EXCEPT ![token[a]] = "accepted"]
                            ELSE invitation
           /\ Goto(a, "session") \/ Goto(a, "failed")
  <2>1. CASE Goto(a, "session")
    BY <1>1, <1>3, <2>1, CommittedKeeps
  <2>2. CASE Goto(a, "failed")
    BY <1>1, <1>3, <2>2, CommittedKeeps
  <2>3. QED
    BY <1>3, <2>1, <2>2
<1>4. QED
  BY <1>2, <1>3 DEF Commit

-----------------------------------------------------------------------------
(* Before and after the transaction *)

LEMMA BeginAcceptKeeps ==
    ASSUME InvitationInv, NEW a \in Accepts, BeginAccept(a)
    PROVE  InvitationInv'
<1>1. PICK t \in mailed \cup {None} : token' = [token EXCEPT ![a] = t]
  BY DEF BeginAccept
<1>2. /\ pc[a] = "begin" /\ Acceptance(a) /\ TypeOK /\ a \in Requests
      /\ UNCHANGED <<people, invitation, expired, mailed, earlier>> /\ sessions' = sessions
  BY DEF BeginAccept, InvitationInv, Requests
<1>3. wrote[a] = {} /\ ~Settled(a) /\ a \notin sessions
  BY <1>2 DEF Acceptance, Shape, Settled, InvitationInv
<1>4. CASE Fail(a)
  BY <1>1, <1>2, <1>3, <1>4, FailKeeps
<1>5. CASE Goto(a, "find_invitation")
  <2>1. /\ pc'[a] = "find_invitation" /\ wrote' = wrote /\ token'[a] = t
        /\ pc' = [pc EXCEPT ![a] = "find_invitation"]
    BY <1>1, <1>2, <1>5 DEF Goto, TypeOK
  <2>2. InTransaction(a)' /\ wrote'[a] = {}
    BY <1>3, <2>1 DEF InTransaction, TransactionSteps
  <2>3. Shape(a)'
    BY <1>2, <2>1, <2>2 DEF Shape, Settled, User, Account, PastUser, PastAccount,
                            TransactionSteps
  <2>4. Fresh(a)' /\ Read(a)'
    BY <2>1, <2>2 DEF Fresh, Read, PastUser, PastMember
  <2>5. Acceptance(a)' /\ ~Settled(a)'
    BY <2>2, <2>3, <2>4, Proceeds DEF Settled
  <2>6. \A b \in Accepts \ {a} : Apart(a, b)'
    <3>1. Locks(a)' = {}
      BY <2>2 DEF Locks
    <3>2. QED
      BY <3>1 DEF Apart
  <2>7. wrote' = [wrote EXCEPT ![a] = wrote[a]] /\ wrote[a] \in SUBSET Statements
    BY <1>2, <2>1 DEF TypeOK, Statements
  <2>8. QED
    BY <1>1, <1>2, <1>3, <2>1, <2>5, <2>6, <2>7, StepKeeps
<1>6. QED
  BY <1>4, <1>5 DEF BeginAccept

\* After the transaction a request only moves on.
LEMMA AfterKeeps ==
    ASSUME InvitationInv, NEW a \in Accepts, pc[a] \in {"session", "respond"},
           NEW l \in {"respond", "answered"}, Goto(a, l),
           UNCHANGED <<people, invitation, expired, mailed, token, earlier>>,
           sessions' \in SUBSET (sessions \cup {a})
    PROVE  InvitationInv'
<1>1. /\ Acceptance(a) /\ TypeOK /\ a \in Requests
      /\ pc' = [pc EXCEPT ![a] = l] /\ wrote' = wrote
  BY DEF Goto, InvitationInv, Requests
<1>2. pc'[a] = l /\ l \in Idle \cup {"session", "respond"} /\ l \notin TransactionSteps
  BY <1>1 DEF TypeOK, TransactionSteps, Idle
<1>3. Settled(a) /\ Settled(a)' /\ ~InTransaction(a)' /\ wrote[a] # {}
  BY <1>1, <1>2 DEF Acceptance, Shape, Settled, InTransaction, TransactionSteps
<1>4. Shape(a)'
  BY <1>1, <1>2, <1>3, Labels DEF Acceptance, Shape, TransactionSteps, Idle
<1>5. Fresh(a)' /\ Read(a)'
  BY <1>2, <1>3, Labels DEF Fresh, Read, PastUser, PastMember
<1>6. Acceptance(a)'
  BY <1>1, <1>3, <1>4, <1>5 DEF Acceptance
<1>7. \A b \in Accepts \ {a} : Apart(a, b)'
  BY <1>3 DEF Apart, Locks
<1>8. /\ wrote' = [wrote EXCEPT ![a] = wrote[a]] /\ wrote[a] \in SUBSET Statements
      /\ token' = [token EXCEPT ![a] = token[a]] /\ token[a] \in mailed \cup {None}
  BY <1>1 DEF TypeOK, Statements, Acceptance, Shape
<1>9. QED
  BY <1>1, <1>3, <1>6, <1>7, <1>8, StepKeeps

\* A failure after the transaction.
LEMMA FailAfter ==
    ASSUME InvitationInv, NEW a \in Accepts, pc[a] \in {"session", "respond"}, Fail(a),
           UNCHANGED <<people, invitation, expired, mailed, token, earlier>>,
           sessions' \in SUBSET (sessions \cup {a})
    PROVE  InvitationInv'
<1>1. Settled(a)
  BY DEF InvitationInv, Acceptance, Shape, Settled, InTransaction, TransactionSteps
<1>2. token[a] \in mailed \cup {None} /\ token' = [token EXCEPT ![a] = token[a]]
  BY DEF InvitationInv, TypeOK, Acceptance, Shape
<1>3. QED
  BY <1>1, <1>2, FailKeeps

LEMMA CreateSessionKeeps ==
    ASSUME InvitationInv, NEW a \in Accepts, CreateSession(a)
    PROVE  InvitationInv'
<1>1. /\ pc[a] = "session" /\ sessions' \in SUBSET (sessions \cup {a})
      /\ UNCHANGED <<people, invitation, expired, mailed, token, earlier>>
  BY DEF CreateSession
<1>2. CASE Goto(a, "respond")
  BY <1>1, <1>2, AfterKeeps
<1>3. CASE Fail(a)
  BY <1>1, <1>3, FailAfter
<1>4. QED
  BY <1>2, <1>3 DEF CreateSession

LEMMA RespondKeeps ==
    ASSUME InvitationInv, NEW a \in Accepts, Respond(a)
    PROVE  InvitationInv'
<1>1. /\ pc[a] = "respond" /\ sessions' \in SUBSET (sessions \cup {a})
      /\ UNCHANGED <<people, invitation, expired, mailed, token, earlier>>
  BY DEF Respond, Step
<1>2. CASE Goto(a, "answered")
  BY <1>1, <1>2, AfterKeeps
<1>3. CASE Fail(a)
  BY <1>1, <1>3, FailAfter
<1>4. QED
  BY <1>2, <1>3 DEF Respond

-----------------------------------------------------------------------------
(* Steps of a request that creates an invitation *)

\* Such a step changes at most the request's own invitation, and that only by
\* inserting it: what acceptances rely on stays.
LEMMA CreationKeeps ==
    ASSUME InvitationInv, NEW c \in Creates, NEW l,
           pc' = [pc EXCEPT ![c] = l], wrote' = wrote,
           UNCHANGED <<people, expired, token, sessions>>,
           NEW e \in SUBSET Creates, earlier' = [earlier EXCEPT ![c] = e],
           \/ invitation' = invitation
           \/ invitation' = InsertOrganizationInvitation(c) /\ invitation[c] = "absent",
           mailed' = mailed \/ mailed' = mailed \cup {c},
           Creation(c)'
    PROVE  InvitationInv'
<1>1. /\ TypeOK /\ c \in Requests /\ c \notin Accepts /\ pc'[c] = l /\ earlier'[c] = e
      /\ \A r \in Requests \ {c} : pc'[r] = pc[r]
      /\ \A d \in Creates \ {c} : /\ earlier'[d] = earlier[d] /\ invitation'[d] = invitation[d]
                                  /\ d \in mailed' <=> d \in mailed
      /\ mailed \subseteq mailed' /\ mailed' \subseteq Creates
  BY DEF InvitationInv, TypeOK, Requests, InsertOrganizationInvitation
<1>2. \A d \in Creates : invitation[d] # "absent" => invitation'[d] = invitation[d]
  BY <1>1 DEF InsertOrganizationInvitation, TypeOK
<1>3. TypeOK'
  <2>1. l \in Idle \cup {"check_member", "check_membership", "check_pending",
                         "insert", "send"}
    BY <1>1 DEF Creation
  <2>2. pc' \in [Requests -> TransactionSteps \cup Idle
           \cup {"check_member", "check_membership", "check_pending",
            "insert", "send", "session", "respond"}]
    BY <1>1, <2>1 DEF TypeOK
  <2>3. invitation' \in [Creates -> {"absent", "pending", "accepted"}]
    BY <1>1 DEF TypeOK, InsertOrganizationInvitation
  <2>4. earlier' \in [Creates -> SUBSET Creates]
    BY <1>1 DEF TypeOK
  <2>5. \A a \in Accepts : pc'[a] = pc[a]
    BY <1>1 DEF Requests
  <2>6. QED
    BY <1>1, <2>2, <2>3, <2>4, <2>5 DEF TypeOK
<1>4. ASSUME NEW d \in Creates \ {c}
      PROVE  Creation(d)'
  <2>1. Creation(d) /\ pc'[d] = pc[d] /\ people' = people /\ earlier[d] \subseteq Creates
    BY <1>1 DEF InvitationInv, Requests, TypeOK
  <2>2. QED
    BY <1>1, <1>2, <2>1 DEF Creation, Member
<1>5. ASSUME NEW a \in Accepts
      PROVE  /\ Acceptance(a)' /\ (a \in sessions' => Settled(a)')
             /\ Locks(a)' = Locks(a) /\ (Settled(a)' <=> Settled(a))
  <2>1. /\ pc'[a] = pc[a] /\ wrote'[a] = wrote[a] /\ token'[a] = token[a]
        /\ Person(a)' = Person(a) /\ Acceptance(a) /\ (a \in sessions => Settled(a))
    BY <1>1 DEF InvitationInv, Requests, Person, Email
  <2>2. /\ Settled(a)' <=> Settled(a)
        /\ InTransaction(a)' <=> InTransaction(a)
        /\ Locks(a)' = Locks(a)
    BY <2>1 DEF Settled, InTransaction, Locks
  <2>3. token[a] \in mailed => invitation'[token[a]] = invitation[token[a]]
    BY <1>1, <1>2 DEF InvitationInv, Creation
  <2>4. token[a] \notin mailed => wrote[a] = {} /\ pc[a] # "commit"
    BY <2>1 DEF Acceptance, Shape, TransactionSteps
  <2>5. Shape(a)'
    BY <1>1, <2>1, <2>2 DEF Acceptance, Shape
  <2>6. Fresh(a)'
    BY <2>1, <2>2, <2>3, <2>4 DEF Acceptance, Fresh
  <2>7. Read(a)'
    BY <2>1, <2>2, <2>3, <2>4 DEF Acceptance, Read
  <2>8. Settled(a)' => invitation'[token'[a]] = "accepted"
    BY <2>1, <2>2, <2>3, <2>4 DEF Acceptance, Settled
  <2>9. QED
    BY <2>1, <2>2, <2>5, <2>6, <2>7, <2>8 DEF Acceptance
<1>6. ASSUME NEW a \in Accepts, NEW b \in Accepts, a # b
      PROVE  Apart(a, b)' /\ Once(a, b)'
  <2>1. /\ Apart(a, b) /\ Once(a, b) /\ wrote' = wrote /\ token' = token
        /\ Email(a)' = Email(a) /\ Email(b)' = Email(b)
    BY <1>6 DEF InvitationInv, Email
  <2>2. QED
    BY <1>5, <2>1 DEF Apart, Once
<1>7. QED
  BY <1>3, <1>4, <1>5, <1>6 DEF InvitationInv

\* A step before the invitation is inserted: only the request's place changes.
LEMMA CheckKeeps ==
    ASSUME InvitationInv, NEW c \in Creates,
           pc[c] \in {"check_member", "check_membership", "check_pending", "insert"},
           NEW l \in {"check_membership", "check_pending", "insert", "failed"},
           pc' = [pc EXCEPT ![c] = l], wrote' = wrote,
           UNCHANGED <<people, invitation, expired, mailed, token, sessions, earlier>>,
           l = "insert" => ~FindPendingOrganizationInvitationByEmail(EmailOf[c])
    PROVE  InvitationInv'
<1>1. /\ TypeOK /\ Creation(c) /\ pc'[c] = l /\ earlier[c] \in SUBSET Creates
      /\ earlier' = [earlier EXCEPT ![c] = earlier[c]]
  BY DEF InvitationInv, TypeOK, Requests
<1>2. invitation[c] = "absent"
  BY <1>1 DEF Creation, TypeOK
<1>3. l = "insert" => \A d \in earlier[c] : invitation[d] = "accepted"
  BY <1>1 DEF Creation, FindPendingOrganizationInvitationByEmail, TypeOK
<1>4. Creation(c)'
  BY <1>1, <1>2, <1>3 DEF Creation, Idle
<1>5. QED
  BY <1>1, <1>4, CreationKeeps

LEMMA BeginCreateKeeps ==
    ASSUME InvitationInv, NEW c \in Creates, BeginCreate(c)
    PROVE  InvitationInv'
<1> DEFINE e == {d \in Creates : EmailOf[d] = EmailOf[c] /\ invitation[d] = "pending"}
<1>1. /\ TypeOK /\ Creation(c) /\ pc[c] = "begin" /\ c \in Requests
      /\ UNCHANGED <<people, invitation, expired, mailed, token, sessions>>
      /\ earlier' = [earlier EXCEPT ![c] = e] /\ e \in SUBSET Creates
  BY DEF InvitationInv, BeginCreate, Requests
<1>2. PICK l \in {"check_member", "failed"} : pc' = [pc EXCEPT ![c] = l] /\ wrote' = wrote
  BY <1>1, FailCreate DEF BeginCreate, Goto
<1>3. invitation[c] = "absent" /\ pc'[c] = l /\ earlier'[c] = e
  BY <1>1, <1>2 DEF Creation, TypeOK
<1>4. \A d \in e : EmailOf[d] = EmailOf[c] /\ invitation[d] # "absent"
  OBVIOUS
<1> HIDE DEF e
<1>5. Creation(c)'
  BY <1>1, <1>2, <1>3, <1>4 DEF Creation, Idle
<1>6. QED
  BY <1>1, <1>2, <1>5, CreationKeeps

\* The row may be inserted and its insert reported as failed.
LEMMA InsertInvitationKeeps ==
    ASSUME InvitationInv, NEW c \in Creates, InsertInvitation(c)
    PROVE  InvitationInv'
<1>1. /\ TypeOK /\ Creation(c) /\ pc[c] = "insert" /\ c \in Requests
      /\ UNCHANGED <<people, expired, mailed, token, sessions, earlier>>
      /\ earlier' = [earlier EXCEPT ![c] = earlier[c]] /\ earlier[c] \in SUBSET Creates
  BY DEF InvitationInv, InsertInvitation, Requests, TypeOK
<1>2. CASE Fail(c) /\ UNCHANGED invitation
  BY <1>1, <1>2, FailCreate, CheckKeeps
<1>3. CASE invitation' = InsertOrganizationInvitation(c) /\ (Goto(c, "send") \/ Fail(c))
  <2>1. PICK l \in {"send", "failed"} : pc' = [pc EXCEPT ![c] = l] /\ wrote' = wrote
    BY <1>1, <1>3, FailCreate DEF Goto
  <2>2. /\ invitation[c] = "absent" /\ pc'[c] = l /\ invitation'[c] = "pending"
        /\ \A d \in Creates \ {c} : invitation'[d] = invitation[d]
    BY <1>1, <1>3, <2>1 DEF Creation, TypeOK, InsertOrganizationInvitation
  <2>3. \A d \in earlier[c] : /\ EmailOf[d] = EmailOf[c]
                              /\ invitation'[d] = "accepted"
    BY <1>1, <2>2 DEF Creation
  <2>4. Creation(c)'
    BY <1>1, <2>1, <2>2, <2>3 DEF Creation, Idle
  <2>5. QED
    BY <1>1, <1>3, <2>1, <2>2, <2>4, CreationKeeps
<1>4. QED
  BY <1>2, <1>3 DEF InsertInvitation

LEMMA SendKeeps ==
    ASSUME InvitationInv, NEW c \in Creates, Send(c)
    PROVE  InvitationInv'
<1>1. /\ TypeOK /\ Creation(c) /\ pc[c] = "send" /\ c \in Requests
      /\ UNCHANGED <<people, invitation, expired, token, sessions, earlier>>
      /\ earlier' = [earlier EXCEPT ![c] = earlier[c]] /\ earlier[c] \in SUBSET Creates
      /\ mailed' = mailed \/ mailed' = mailed \cup {c}
  BY DEF InvitationInv, Send, Requests, TypeOK
<1>2. PICK l \in {"answered", "failed"} : /\ pc' = [pc EXCEPT ![c] = l] /\ wrote' = wrote
                                          /\ l = "answered" => c \in mailed'
  BY <1>1, FailCreate DEF Send, Goto
<1>3. pc'[c] = l /\ invitation[c] # "absent"
  BY <1>1, <1>2 DEF Creation, TypeOK
<1>4. Creation(c)'
  BY <1>1, <1>2, <1>3 DEF Creation, Idle, Member
<1>5. QED
  BY <1>1, <1>2, <1>4, CreationKeeps

LEMMA CreateStepKeeps ==
    ASSUME InvitationInv, NEW c \in Creates, Create(c)
    PROVE  InvitationInv'
<1>0. TypeOK
  BY DEF InvitationInv
<1>1. CASE CheckUser(c)
  BY <1>0, <1>1, FailCreate, CheckKeeps DEF CheckUser, Goto
<1>2. CASE CheckMembership(c)
  BY <1>0, <1>2, FailCreate, CheckKeeps DEF CheckMembership, Goto
<1>3. CASE CheckPending(c)
  BY <1>0, <1>3, FailCreate, CheckKeeps DEF CheckPending, Goto
<1>4. CASE InsertInvitation(c)
  BY <1>4, InsertInvitationKeeps
<1>5. CASE Send(c)
  BY <1>5, SendKeeps
<1>6. QED
  BY <1>1, <1>2, <1>3, <1>4, <1>5 DEF Create

-----------------------------------------------------------------------------
(* The steps of the environment *)

LEMMA ExpireKeeps ==
    ASSUME InvitationInv, NEW c \in Creates, Expire(c)
    PROVE  InvitationInv'
<1>1. /\ expired' = expired \cup {c} /\ TypeOK
      /\ UNCHANGED <<people, invitation, mailed, pc, token, wrote, sessions, earlier>>
  BY DEF Expire, InvitationInv
<1>2. TypeOK'
  BY <1>1 DEF TypeOK
<1>3. \A d \in Creates : Creation(d)'
  BY <1>1 DEF InvitationInv, Creation, Member
<1>4. ASSUME NEW a \in Accepts
      PROVE  Acceptance(a)' /\ (a \in sessions' => Settled(a)') /\ Locks(a)' = Locks(a)
  <2>1. Acceptance(a) /\ (a \in sessions => Settled(a))
    BY DEF InvitationInv
  <2>2. Shape(a)'
    BY <1>1, <2>1 DEF Acceptance, Shape, Settled, InTransaction
  <2>3. Fresh(a)' /\ Read(a)'
    BY <1>1, <2>1 DEF Acceptance, Fresh, Read, InTransaction, Person, Email
  <2>4. QED
    BY <1>1, <2>1, <2>2, <2>3 DEF Acceptance, Settled, InTransaction, Locks
<1>5. ASSUME NEW a \in Accepts, NEW b \in Accepts, a # b
      PROVE  Apart(a, b)' /\ Once(a, b)'
  <2>1. Apart(a, b) /\ Once(a, b)
    BY <1>5 DEF InvitationInv
  <2>2. QED
    BY <1>1, <1>4, <2>1 DEF Apart, Once, Settled, InTransaction, Email
<1>6. QED
  BY <1>2, <1>3, <1>4, <1>5 DEF InvitationInv

\* A crash rolls back what is open and leaves what is committed.
LEMMA CrashKeeps ==
    ASSUME InvitationInv, Crash
    PROVE  InvitationInv'
<1>1. /\ TypeOK
      /\ \A r \in Requests : pc'[r] = IF pc[r] \in Idle THEN pc[r] ELSE "failed"
      /\ \A a \in Accepts : wrote'[a] = IF InTransaction(a) THEN {} ELSE wrote[a]
      /\ UNCHANGED <<people, invitation, expired, mailed, token, sessions, earlier>>
  BY DEF Crash, InvitationInv
<1>2. \A r \in Requests : pc'[r] \in Idle
  BY <1>1 DEF Idle
<1>3. TypeOK'
  <2>1. pc' \in [Requests -> Idle]
    BY <1>2 DEF Crash
  <2>2. pc' \in [Requests -> TransactionSteps \cup Idle
           \cup {"check_member", "check_membership", "check_pending",
            "insert", "send", "session", "respond"}]
    BY <2>1
  <2>3. wrote' \in [Accepts -> SUBSET Statements]
    BY <1>1 DEF Crash, TypeOK, Statements
  <2>4. \A a \in Accepts : pc'[a] \notin TransactionSteps
    BY <1>2, Labels DEF Requests
  <2>5. QED
    BY <1>1, <2>2, <2>3, <2>4 DEF TypeOK, Statements
<1>4. ASSUME NEW c \in Creates
      PROVE  Creation(c)'
  <2>1. Creation(c) /\ pc'[c] = (IF pc[c] \in Idle THEN pc[c] ELSE "failed")
    BY <1>1 DEF InvitationInv, Requests
  <2>2. CASE pc[c] \in Idle
    <3>1. pc'[c] = pc[c]
      BY <2>1, <2>2
    <3>2. QED
      BY <1>1, <2>1, <3>1 DEF Creation, Member
  <2>3. CASE pc[c] \notin Idle
    <3>1. pc'[c] = "failed"
      BY <2>1, <2>3
    <3>2. QED
      BY <1>1, <2>1, <3>1 DEF Creation, Member, Idle
  <2>4. QED
    BY <2>2, <2>3
<1>5. ASSUME NEW a \in Accepts
      PROVE  /\ Acceptance(a)' /\ (a \in sessions' => Settled(a)')
             /\ Locks(a)' = {} /\ (Settled(a)' <=> Settled(a))
             /\ Settled(a) => wrote'[a] = wrote[a]
  <2>1. Acceptance(a) /\ (a \in sessions => Settled(a)) /\ a \in Requests
    BY DEF InvitationInv, Requests
  <2>2. pc'[a] \in Idle /\ ~InTransaction(a)' /\ pc'[a] \notin TransactionSteps
    BY <1>2, <2>1, Labels DEF InTransaction
  <2>3. Locks(a)' = {} /\ (Settled(a)' <=> Settled(a))
    BY <1>1, <2>2 DEF Locks, Settled
  <2>4. wrote'[a] = {} \/ (Settled(a) /\ wrote'[a] = wrote[a])
    BY <1>1 DEF Settled
  <2>5. Shape(a)'
    <3>1. CASE wrote'[a] = {}
      <4>1. pc'[a] # "answered"
        BY <1>1, <2>1, <3>1 DEF Acceptance, Shape, InTransaction, TransactionSteps, Idle
      <4>2. ~(User \subseteq {}) /\ ~(Account \subseteq {})
        BY DEF User, Account
      <4>3. QED
        BY <1>1, <2>1, <2>2, <3>1, <4>1, <4>2, Labels
        DEF Acceptance, Shape, Settled, Idle
    <3>2. CASE Settled(a) /\ wrote'[a] = wrote[a]
      <4>1. pc'[a] # "begin"
        BY <1>1, <2>1, <3>2 DEF Acceptance, Shape, Settled
      <4>2. QED
        BY <1>1, <2>1, <2>2, <2>3, <3>2, <4>1, Labels
        DEF Acceptance, Shape, Settled
    <3>3. QED
      BY <2>4, <3>1, <3>2
  <2>6. Fresh(a)' /\ Read(a)'
    <3>1. /\ pc'[a] \notin PastUser \cup {"verify_user", "update_hash", "commit"}
          /\ pc'[a] \notin PastMember
      BY <2>2, Labels DEF TransactionSteps
    <3>2. QED
      BY <2>2, <3>1 DEF Fresh, Read
  <2>7. QED
    BY <1>1, <2>1, <2>3, <2>5, <2>6 DEF Acceptance, Settled
<1>6. ASSUME NEW a \in Accepts, NEW b \in Accepts, a # b
      PROVE  Apart(a, b)' /\ Once(a, b)'
  <2>1. Once(a, b)
    BY <1>6 DEF InvitationInv
  <2>2. QED
    BY <1>1, <1>5, <2>1 DEF Apart, Once
<1>7. QED
  BY <1>3, <1>4, <1>5, <1>6 DEF InvitationInv

-----------------------------------------------------------------------------
\* The invariant holds at the start.
LEMMA InitInv == Init => InvitationInv
<1> SUFFICES ASSUME Init
             PROVE  InvitationInv
  OBVIOUS
<1>1. TypeOK
  BY DEF Init, TypeOK, People, Idle, Requests, TransactionSteps
<1>2. \A c \in Creates : Creation(c)
  BY DEF Init, Creation, Idle, Requests
<1>3. ASSUME NEW a \in Accepts
      PROVE  Acceptance(a) /\ ~Settled(a) /\ Locks(a) = {} /\ a \notin sessions
  <2>1. pc[a] = "begin" /\ wrote[a] = {} /\ token[a] = None /\ sessions = {}
    BY DEF Init, Requests
  <2>2. "begin" \notin TransactionSteps /\ "begin" \in Idle
    BY DEF TransactionSteps, Idle
  <2>3. ~(User \subseteq {}) /\ ~(Account \subseteq {})
    BY DEF User, Account
  <2>4. Shape(a)
    BY <2>1, <2>2, <2>3, Labels DEF Shape, Settled
  <2>5. Fresh(a) /\ Read(a)
    BY <2>1, <2>2, Labels DEF Fresh, Read, InTransaction, PastUser, PastMember
  <2>6. QED
    BY <2>1, <2>4, <2>5 DEF Acceptance, Settled, Locks
<1>4. \A a, b \in Accepts : Apart(a, b) /\ Once(a, b)
  BY <1>3 DEF Apart, Once
<1>5. QED
  BY <1>1, <1>2, <1>3, <1>4 DEF InvitationInv

LEMMA AcceptKeeps ==
    ASSUME InvitationInv, NEW a \in Accepts, Accept(a)
    PROVE  InvitationInv'
BY FindInvitationKeeps, FindUserKeeps, WriteUserKeeps, VerifyUserKeeps, FindAccountKeeps,
   WriteAccountKeeps, WriteHashKeeps, FindMemberKeeps, WriteMemberKeeps, ConsumeKeeps,
   CommitKeeps, CreateSessionKeeps, RespondKeeps DEF Accept

\* A step of nobody.
LEMMA StutterKeeps ==
    ASSUME InvitationInv, UNCHANGED vars
    PROVE  InvitationInv'
BY DEF vars, InvitationInv, TypeOK, Creation, Member, Acceptance, Shape, Fresh, Read, Apart,
       Once, Locks, Settled, InTransaction, Person, Email

LEMMA InvStep == InvitationInv /\ [Next]_vars => InvitationInv'
<1> SUFFICES ASSUME InvitationInv, [Next]_vars
             PROVE  InvitationInv'
  OBVIOUS
<1>1. CASE UNCHANGED vars
  BY <1>1, StutterKeeps
<1>2. CASE Crash
  BY <1>2, CrashKeeps
<1>3. ASSUME NEW c \in Creates, BeginCreate(c) \/ Create(c) \/ Expire(c)
      PROVE  InvitationInv'
  BY <1>3, BeginCreateKeeps, CreateStepKeeps, ExpireKeeps
<1>4. ASSUME NEW a \in Accepts, BeginAccept(a) \/ Accept(a)
      PROVE  InvitationInv'
  BY <1>4, BeginAcceptKeeps, AcceptKeeps
<1>5. QED
  BY <1>1, <1>2, <1>3, <1>4 DEF Next

\* The invariant from which everything below follows.
LEMMA Invariant == Spec => []InvitationInv
BY InitInv, InvStep, PTL DEF Spec

-----------------------------------------------------------------------------
(* What the invariant shows *)

\* Every reachable state is well typed, and a transaction goes on only for a token
\* that was mailed.
THEOREM Typing == Spec => []TypeOK
<1>1. InvitationInv => TypeOK
  BY DEF InvitationInv
<1>2. QED
  BY <1>1, Invariant, PTL

\* However acceptances race, whoever an invitation was accepted for is a member who
\* can log in.
THEOREM AcceptedIsMember == Spec => []AcceptedLeavesMember
<1>1. InvitationInv => AcceptedLeavesMember
  <2> SUFFICES ASSUME InvitationInv, NEW c \in Creates,
                      invitation[c] = "accepted" \/ \E a \in sessions : token[a] = c
               PROVE  Member(people[EmailOf[c]])
    BY DEF AcceptedLeavesMember, Member
  <2>1. invitation[c] = "accepted"
    BY DEF InvitationInv, TypeOK, Acceptance
  <2>2. QED
    BY <2>1 DEF InvitationInv, Creation
<1>2. QED
  BY <1>1, Invariant, PTL

\* Of the acceptances of one invitation that commit, one consumes it, and at most
\* one finds nobody whose password it sets.
THEOREM ConsumedByOne == Spec => []ConsumedOnce
<1>1. InvitationInv => ConsumedOnce
  <2> SUFFICES ASSUME InvitationInv, NEW c \in Creates
               PROVE  /\ Cardinality({a \in Committers(c) : "consume" \in wrote[a]}) <= 1
                      /\ \A a, b \in Committers(c) :
                           a # b => "update_hash" \in wrote[a] \cup wrote[b]
    BY DEF ConsumedOnce
  <2> DEFINE Consumers == {a \in Committers(c) : "consume" \in wrote[a]}
  <2>1. \A a \in Committers(c) : a \in Accepts /\ Settled(a) /\ token[a] = c
    BY DEF Committers, Settled
  <2>2. \A a, b \in Committers(c) :
          a # b => "update_hash" \in wrote[a] \cup wrote[b]
    BY <2>1 DEF InvitationInv, Once
  <2>3. \A a, b \in Consumers : a = b
    BY <2>1 DEF InvitationInv, Once
  <2> HIDE DEF Consumers
  <2>4. Cardinality(Consumers) <= 1
    <3>1. CASE Consumers = {}
      BY <3>1, FS_EmptySet
    <3>2. CASE Consumers # {}
      <4>1. PICK a : a \in Consumers
        BY <3>2
      <4>2. Consumers = {a}
        BY <2>3, <4>1
      <4>3. Cardinality({a}) = 1
        BY FS_Singleton
      <4>4. QED
        BY <4>2, <4>3
    <3>3. QED
      BY <3>1, <3>2
  <2>5. QED
    BY <2>2, <2>4 DEF Consumers
<1>2. QED
  BY <1>1, Invariant, PTL

\* Nobody is invited beside an invitation that was pending when the request began,
\* be it expired or not.
THEOREM NoSecondInvitation == Spec => []NoneBesideAnEarlierPending
<1>1. InvitationInv => NoneBesideAnEarlierPending
  BY DEF InvitationInv, Creation, NoneBesideAnEarlierPending
<1>2. QED
  BY <1>1, Invariant, PTL

\* "Created" is never the answer for an invitation whose mail is not enqueued.
THEOREM CreatedIsMailed == Spec => []UnmailedIsReported
<1>1. InvitationInv => UnmailedIsReported
  BY DEF InvitationInv, Creation, UnmailedIsReported
<1>2. QED
  BY <1>1, Invariant, PTL

-----------------------------------------------------------------------------
(* The requests implement the ledger *)

\* A step that leaves the rows and the invitations alone is none of the ledger.
LEMMA OtherStutters ==
    ASSUME UNCHANGED <<people, invitation, expired>>
    PROVE  [Ledger!Next]_(Ledger!vars)
BY DEF Ledger!vars

LEMMA InsertIssues ==
    ASSUME InvitationInv, NEW c \in Creates, InsertInvitation(c)
    PROVE  [Ledger!Next]_(Ledger!vars)
<1>1. CASE UNCHANGED invitation
  BY <1>1, OtherStutters DEF InsertInvitation
<1>2. CASE invitation' = InsertOrganizationInvitation(c)
  <2>1. invitation[c] = "absent"
    BY DEF InvitationInv, TypeOK, Creation, InsertInvitation
  <2>2. Ledger!Issue(c)
    BY <1>2, <2>1 DEF Ledger!Issue, InsertInvitation, InsertOrganizationInvitation
  <2>3. QED
    BY <2>2 DEF Ledger!Next
<1>3. QED
  BY <1>1, <1>2 DEF InsertInvitation

LEMMA ExpireLapses ==
    ASSUME NEW c \in Creates, Expire(c)
    PROVE  [Ledger!Next]_(Ledger!vars)
<1>1. Ledger!Lapse(c)
  BY DEF Expire, Ledger!Lapse
<1>2. QED
  BY <1>1 DEF Ledger!Next

\* A commit accepts the invitation, or comes after the one that did.
LEMMA CommitAccepts ==
    ASSUME InvitationInv, NEW a \in Accepts, Commit(a)
    PROVE  [Ledger!Next]_(Ledger!vars)
<1>1. CASE UNCHANGED <<people, invitation>>
  BY <1>1, OtherStutters DEF Commit
<1>2. CASE /\ people' = [people EXCEPT ![Email(a)] = Committed(a)]
           /\ invitation' = IF "consume" \in wrote[a]
                            THEN [invitation EXCEPT ![token[a]] = "accepted"]
                            ELSE invitation
  <2> DEFINE c == token[a]
             password == [e \in Emails |-> people[e].password]
             member == [e \in Emails |-> people[e].member]
  <2>1. /\ pc[a] = "commit" /\ expired' = expired
        /\ TypeOK /\ Read(a) /\ Fresh(a) /\ InTransaction(a)
    BY DEF Commit, InvitationInv, Acceptance, InTransaction, TransactionSteps
  <2>2. /\ c \in Creates /\ Email(a) \in Emails /\ Email(a) = EmailOf[c]
        /\ Committed(a) \in People
        /\ Committed(a).password = a
        /\ Committed(a).member = IF Person(a).member = None THEN c ELSE Person(a).member
    BY <2>1, CommitMakesMember DEF Email
  <2>3. password' = [password EXCEPT ![EmailOf[c]] = a]
    BY <1>2, <2>1, <2>2 DEF TypeOK
  <2>4. member' = IF member[EmailOf[c]] = None THEN [member EXCEPT ![EmailOf[c]] = c]
                  ELSE member
    <3>1. member' = [member EXCEPT ![EmailOf[c]] = Committed(a).member]
      BY <1>2, <2>1, <2>2 DEF TypeOK
    <3>2. member[EmailOf[c]] = Person(a).member
      BY <2>2 DEF Person
    <3> HIDE DEF c
    <3>3. CASE Person(a).member = None
      BY <2>2, <3>1, <3>2, <3>3
    <3>4. CASE Person(a).member # None
      <4>1. member' = [member EXCEPT ![EmailOf[c]] = member[EmailOf[c]]]
        BY <2>2, <3>1, <3>2, <3>4
      <4>2. member' = member
        BY <4>1
      <4>3. QED
        BY <3>2, <3>4, <4>2
    <3>5. QED
      BY <3>3, <3>4
  <2>5. CASE "consume" \in wrote[a]
    <3>1. invitation[c] = "pending" /\ invitation' = [invitation EXCEPT ![c] = "accepted"]
      BY <1>2, <2>1, <2>5 DEF Fresh
    <3>2. Ledger!Accept(c, a)
      BY <2>1, <2>3, <2>4, <3>1 DEF Ledger!Accept
    <3>3. QED
      BY <2>2, <3>2 DEF Ledger!Next
  <2>6. CASE "consume" \notin wrote[a]
    <3>1. invitation[c] = "accepted" /\ invitation' = invitation
      BY <1>2, <2>1, <2>6 DEF Read
    <3>2. Member(people[EmailOf[c]])
      BY <2>2, <3>1 DEF InvitationInv, Creation
    <3>3. member[EmailOf[c]] # None /\ password[EmailOf[c]] # None /\ member' = member
      BY <2>2, <2>4, <3>2 DEF Member
    <3>4. Ledger!AcceptLate(c, a)
      BY <2>1, <2>3, <3>1, <3>3 DEF Ledger!AcceptLate
    <3>5. QED
      BY <2>2, <3>4 DEF Ledger!Next
  <2>7. QED
    BY <2>5, <2>6
<1>3. QED
  BY <1>1, <1>2 DEF Commit

LEMMA LedgerStep == InvitationInv /\ [Next]_vars => [Ledger!Next]_(Ledger!vars)
<1> SUFFICES ASSUME InvitationInv, [Next]_vars
             PROVE  [Ledger!Next]_(Ledger!vars)
  OBVIOUS
<1>1. CASE UNCHANGED vars
  BY <1>1, OtherStutters DEF vars
<1>2. CASE Crash
  BY <1>2, OtherStutters DEF Crash
<1>3. ASSUME NEW c \in Creates, BeginCreate(c) \/ Create(c) \/ Expire(c)
      PROVE  [Ledger!Next]_(Ledger!vars)
  <2>1. CASE InsertInvitation(c)
    BY <2>1, InsertIssues
  <2>2. CASE Expire(c)
    BY <2>2, ExpireLapses
  <2>3. CASE BeginCreate(c) \/ CheckUser(c) \/ CheckMembership(c) \/ CheckPending(c) \/ Send(c)
    BY <2>3, OtherStutters
    DEF BeginCreate, CheckUser, CheckMembership, CheckPending, Send
  <2>4. QED
    BY <1>3, <2>1, <2>2, <2>3 DEF Create
<1>4. ASSUME NEW a \in Accepts, BeginAccept(a) \/ Accept(a)
      PROVE  [Ledger!Next]_(Ledger!vars)
  <2>1. CASE Commit(a)
    BY <2>1, CommitAccepts
  <2>2. CASE BeginAccept(a) \/ CreateSession(a)
    BY <2>2, OtherStutters DEF BeginAccept, CreateSession
  <2>3. ASSUME \E label \in TransactionSteps \cup {"respond"} : Step(a, label)
        PROVE  [Ledger!Next]_(Ledger!vars)
    BY <2>3, OtherStutters DEF Step
  <2>4. CASE Accept(a) /\ ~Commit(a) /\ ~CreateSession(a)
    <3>1. \E label \in TransactionSteps \cup {"respond"} : Step(a, label)
      BY <2>4 DEF Accept, FindInvitation, FindUser, WriteUser, VerifyUser, FindAccount,
                  WriteAccount, WriteHash, FindMember, WriteMember, Consume, Respond,
                  Write, TransactionSteps
    <3>2. QED
      BY <2>3, <3>1
  <2>5. QED
    BY <1>4, <2>1, <2>2, <2>4
<1>5. QED
  BY <1>1, <1>2, <1>3, <1>4 DEF Next

\* For any number of requests, any addresses and whatever is stored about them,
\* accepting does to passwords and memberships what the ledger says and no more.
THEOREM Refinement == Spec => ImplementsLedger
<1>1. Init => Ledger!Init
  BY DEF Init, Ledger!Init
<1>2. InvitationInv /\ [Next]_vars => [Ledger!Next]_(Ledger!vars)
  BY LedgerStep
<1>3. QED
  BY <1>1, <1>2, Invariant, PTL DEF Spec, ImplementsLedger, Ledger!Spec
=============================================================================

----------------------- MODULE CredentialHelper_proofs -----------------------
(***************************************************************************)
(* Proofs about CredentialHelper, for any configurations, any outputs of   *)
(* helpers and any number of commands.                                     *)
(***************************************************************************)
EXTENDS CredentialHelper, WellFoundedInduction, TLAPS

-----------------------------------------------------------------------------
(* The operators the model is built from                                   *)

\* A set of positions of a sequence has a last one.
LEMMA LastPosition ==
  ASSUME NEW n \in Nat, NEW S \in SUBSET (1 .. n), S # {}
  PROVE  \E i \in S : \A j \in S : j <= i
<1> DEFINE T == {n - i : i \in S}
<1>1. T \subseteq Nat /\ T # {}
  <2>1. \A i \in S : i \in 1 .. n /\ n - i \in Nat
    OBVIOUS
  <2>2. PICK i \in S : TRUE
    OBVIOUS
  <2>3. n - i \in T
    OBVIOUS
  <2>4. QED
    BY <2>1, <2>3
<1> DEFINE R == OpToRel(<, Nat)
<1>0. \A x, y \in Nat : x < y => <<x, y>> \in R
  BY DEF OpToRel
<1>2. IsWellFoundedOn(R, Nat)
  BY NatLessThanWellFounded
<1>3. PICK x \in T : \A y \in T : <<y, x>> \notin R
  <2> HIDE DEF T, R
  <2> QED
    BY <1>1, <1>2, WFMin
<1> HIDE DEF R
<1>4. PICK i \in S : x = n - i
  OBVIOUS
<1>5. \A j \in S : j <= i
  <2> SUFFICES ASSUME NEW j \in S, i < j
               PROVE  FALSE
    OBVIOUS
  <2>1. n - j \in T /\ n - j < x
    BY <1>4
  <2>2. <<n - j, x>> \in R
    BY <2>1, <1>0, <1>1
  <2>3. QED
    BY <2>1, <2>2, <1>3
<1>6. QED
  BY <1>5

\* ... and a first one.
LEMMA FirstPosition ==
  ASSUME NEW n \in Nat, NEW S \in SUBSET (1 .. n), S # {}
  PROVE  \E i \in S : \A j \in S : i <= j
<1> DEFINE R == OpToRel(<, Nat)
<1>1. \A x, y \in Nat : x < y => <<x, y>> \in R
  BY DEF OpToRel
<1>2. IsWellFoundedOn(R, Nat)
  BY NatLessThanWellFounded
<1>3. S \subseteq Nat
  OBVIOUS
<1> HIDE DEF R
<1>4. PICK i \in S : \A j \in S : <<j, i>> \notin R
  BY <1>2, <1>3, WFMin
<1>5. \A j \in S : ~(j < i)
  BY <1>1, <1>3, <1>4
<1>6. \A j \in S : i <= j
  BY <1>3, <1>5
<1>7. QED
  BY <1>6

\* The parsed name and password of an output are a name and a password.
LEMMA LastValueType ==
  ASSUME NEW output \in Outputs
  PROVE  /\ LastValue(output, "username") \in Names
         /\ LastValue(output, "password") \in Secrets
<1> DEFINE lines(key) == {i \in DOMAIN output : Len(output[i]) >= 2 /\ output[i][1] = key}
           last(key)  == CHOOSE i \in lines(key) : \A j \in lines(key) : j <= i
<1>1. Len(output) \in Nat /\ DOMAIN output = 1 .. Len(output)
  BY OutputsAssumption
<1>0. \A i \in DOMAIN output : Len(output[i]) >= 2 =>
        /\ output[i][1] = "username" => output[i][2] \in Names
        /\ output[i][1] = "password" => output[i][2] \in Secrets
  BY OutputsAssumption DEF Names, Secrets
<1>2. ASSUME NEW key, lines(key) # {}
      PROVE  last(key) \in lines(key) /\ LastValue(output, key) = output[last(key)][2]
  <2>1. \E i \in lines(key) : \A j \in lines(key) : j <= i
    BY <1>1, <1>2, LastPosition
  <2>2. QED
    BY <2>1, <1>2 DEF LastValue
<1>3. ASSUME NEW key, lines(key) = {}
      PROVE  LastValue(output, key) = Null
  BY <1>3 DEF LastValue
<1>4. LastValue(output, "username") \in Names
  <2>1. CASE lines("username") = {}
    BY <2>1, <1>3 DEF Names
  <2>2. CASE lines("username") # {}
    BY <2>2, <1>0, <1>2
  <2>3. QED
    BY <2>1, <2>2
<1>5. LastValue(output, "password") \in Secrets
  <2>1. CASE lines("password") = {}
    BY <2>1, <1>3 DEF Secrets
  <2>2. CASE lines("password") # {}
    BY <2>2, <1>0, <1>2
  <2>3. QED
    BY <2>1, <2>2
<1>6. QED
  BY <1>4, <1>5

\* The most specific entry is one of the entries, or the default.
LEMMA MostSpecificType ==
  ASSUME NEW entries, NEW default
  PROVE  \/ MostSpecific(entries, default) = default
         \/ \E i \in Places : entries[i] # Absent /\ MostSpecific(entries, default) = entries[i]
<1>1. CASE \A i \in Places : entries[i] = Absent
  BY <1>1 DEF MostSpecific
<1>2. CASE \E i \in Places : entries[i] # Absent
  <2> DEFINE first(i) == entries[i] # Absent /\ \A j \in Places : entries[j] # Absent => i <= j
  <2>1. \E i \in Places : first(i)
    BY <1>2 DEF Places
  <2>2. QED
    BY <2>1, <1>2 DEF MostSpecific
<1>3. QED
  BY <1>1, <1>2

-----------------------------------------------------------------------------
(* What answers amount to, when one more comes                             *)

Named(answers, n) == {i \in 1 .. n : ~IsNullOrEmpty(answers[i].user)}
Given(answers, n) == {i \in 1 .. n : ~IsNullOrEmpty(answers[i].password)}

\* The reference for names, and the position it speaks of.
LEMMA FirstNameIs ==
  ASSUME NEW n \in Nat, NEW name, NEW answers
  PROVE  /\ name # Null \/ Named(answers, n) = {} => FirstName(name, answers, n) = name
         /\ name = Null =>
              \A i \in Named(answers, n) :
                 (\A j \in Named(answers, n) : i <= j) => FirstName(name, answers, n) = answers[i].user
<1> DEFINE first == CHOOSE i \in Named(answers, n) : \A j \in Named(answers, n) : i <= j
<1>1. FirstName(name, answers, n) =
        IF name # Null \/ Named(answers, n) = {} THEN name ELSE answers[first].user
  BY DEF FirstName, Named
<1>2. ASSUME NEW i \in Named(answers, n), \A j \in Named(answers, n) : i <= j
      PROVE  first = i
  <2>1. first \in Named(answers, n) /\ \A j \in Named(answers, n) : first <= j
    BY <1>2
  <2>2. first <= i /\ i <= first /\ first \in Nat /\ i \in Nat
    BY <1>2, <2>1 DEF Named
  <2>3. QED
    BY <2>2
<1> HIDE DEF first
<1>3. QED
  BY <1>1, <1>2

LEMMA LastSecretIs ==
  ASSUME NEW n \in Nat, NEW answers
  PROVE  /\ Given(answers, n) = {} => LastSecret(answers, n) = Null
         /\ \A i \in Given(answers, n) :
               (\A j \in Given(answers, n) : j <= i) => LastSecret(answers, n) = answers[i].password
<1> DEFINE last == CHOOSE i \in Given(answers, n) : \A j \in Given(answers, n) : j <= i
<1>1. LastSecret(answers, n) =
        IF Given(answers, n) = {} THEN Null ELSE answers[last].password
  BY DEF LastSecret, Given
<1>2. ASSUME NEW i \in Given(answers, n), \A j \in Given(answers, n) : j <= i
      PROVE  last = i
  <2>1. last \in Given(answers, n) /\ \A j \in Given(answers, n) : j <= last
    BY <1>2
  <2>2. last <= i /\ i <= last /\ last \in Nat /\ i \in Nat
    BY <1>2, <2>1 DEF Given
  <2>3. QED
    BY <2>2
<1> HIDE DEF last
<1>3. QED
  BY <1>1, <1>2

\* Both speak of the first n answers only.
LEMMA EarlierAnswersDecide ==
  ASSUME NEW n \in Nat, NEW name, NEW s, NEW l, \A i \in 1 .. n : s[i] = l[i]
  PROVE  FirstName(name, s, n) = FirstName(name, l, n) /\ LastSecret(s, n) = LastSecret(l, n)
<1>1. Named(s, n) = Named(l, n) /\ Given(s, n) = Given(l, n)
  BY DEF Named, Given
<1>2. FirstName(name, s, n) = FirstName(name, l, n)
  <2>1. CASE name # Null \/ Named(s, n) = {}
    BY <1>1, <2>1, FirstNameIs
  <2>2. CASE name = Null /\ Named(s, n) # {}
    <3>1. PICK i \in Named(s, n) : \A j \in Named(s, n) : i <= j
      BY <2>2, FirstPosition DEF Named
    <3>2. FirstName(name, s, n) = s[i].user /\ FirstName(name, l, n) = l[i].user
      BY <1>1, <2>2, <3>1, FirstNameIs
    <3>3. QED
      BY <3>1, <3>2 DEF Named
  <2>3. QED
    BY <2>1, <2>2
<1>3. LastSecret(s, n) = LastSecret(l, n)
  <2>1. CASE Given(s, n) = {}
    BY <1>1, <2>1, LastSecretIs
  <2>2. CASE Given(s, n) # {}
    <3>1. PICK i \in Given(s, n) : \A j \in Given(s, n) : j <= i
      BY <2>2, LastPosition DEF Given
    <3>2. LastSecret(s, n) = s[i].password /\ LastSecret(l, n) = l[i].password
      BY <1>1, <3>1, LastSecretIs
    <3>3. QED
      BY <3>1, <3>2 DEF Given
  <2>3. QED
    BY <2>1, <2>2
<1>4. QED
  BY <1>2, <1>3

\* One more answer counts for the name while there is none, and for the
\* password always.
LEMMA OneMoreAnswer ==
  ASSUME NEW n \in Nat, NEW name, NEW s
  PROVE  /\ FirstName(name, s, n + 1) =
              IF FirstName(name, s, n) = Null /\ ~IsNullOrEmpty(s[n + 1].user)
              THEN s[n + 1].user ELSE FirstName(name, s, n)
         /\ LastSecret(s, n + 1) =
              IF IsNullOrEmpty(s[n + 1].password) THEN LastSecret(s, n) ELSE s[n + 1].password
<1>1. /\ Named(s, n + 1) = Named(s, n) \cup {i \in {n + 1} : ~IsNullOrEmpty(s[i].user)}
      /\ Given(s, n + 1) = Given(s, n) \cup {i \in {n + 1} : ~IsNullOrEmpty(s[i].password)}
  BY DEF Named, Given
<1>2. /\ \A i \in Named(s, n) : i \in Nat /\ i <= n
      /\ \A i \in Given(s, n) : i \in Nat /\ i <= n
  BY DEF Named, Given
<1>3. FirstName(name, s, n + 1) =
        IF FirstName(name, s, n) = Null /\ ~IsNullOrEmpty(s[n + 1].user)
        THEN s[n + 1].user ELSE FirstName(name, s, n)
  <2>1. CASE name # Null
    BY <2>1, FirstNameIs
  <2>2. CASE name = Null /\ Named(s, n) = {}
    <3>1. FirstName(name, s, n) = Null
      BY <2>2, FirstNameIs
    <3>2. CASE IsNullOrEmpty(s[n + 1].user)
      <4>1. Named(s, n + 1) = {}
        BY <1>1, <2>2, <3>2
      <4>2. FirstName(name, s, n + 1) = name
        BY <4>1, FirstNameIs
      <4>3. QED
        BY <2>2, <3>1, <3>2, <4>2
    <3>3. CASE ~IsNullOrEmpty(s[n + 1].user)
      <4>1. Named(s, n + 1) = {n + 1}
        BY <1>1, <2>2, <3>3
      <4>2. FirstName(name, s, n + 1) = s[n + 1].user
        BY <2>2, <4>1, FirstNameIs
      <4>3. QED
        BY <3>1, <3>3, <4>2
    <3>4. QED
      BY <3>2, <3>3
  <2>3. CASE name = Null /\ Named(s, n) # {}
    <3>1. PICK i \in Named(s, n) : \A j \in Named(s, n) : i <= j
      BY <2>3, FirstPosition DEF Named
    <3>2. i \in Named(s, n + 1) /\ \A j \in Named(s, n + 1) : i <= j
      BY <1>1, <1>2, <3>1
    <3>3. FirstName(name, s, n) = s[i].user /\ FirstName(name, s, n + 1) = s[i].user
      <4>1. FirstName(name, s, n) = s[i].user
        BY <2>3, <3>1, FirstNameIs
      <4>2. FirstName(name, s, n + 1) = s[i].user
        BY <2>3, <3>2, FirstNameIs
      <4>3. QED
        BY <4>1, <4>2
    <3>4. s[i].user # Null
      BY <3>1 DEF Named, IsNullOrEmpty
    <3>5. QED
      BY <3>3, <3>4
  <2>4. QED
    BY <2>1, <2>2, <2>3
<1>4. LastSecret(s, n + 1) =
        IF IsNullOrEmpty(s[n + 1].password) THEN LastSecret(s, n) ELSE s[n + 1].password
  <2>1. CASE ~IsNullOrEmpty(s[n + 1].password)
    <3>1. n + 1 \in Given(s, n + 1) /\ \A j \in Given(s, n + 1) : j <= n + 1
      BY <1>1, <1>2, <2>1
    <3>2. LastSecret(s, n + 1) = s[n + 1].password
      BY <3>1, LastSecretIs
    <3>3. QED
      BY <2>1, <3>2
  <2>2. CASE IsNullOrEmpty(s[n + 1].password)
    <3>1. Given(s, n + 1) = Given(s, n)
      BY <1>1, <2>2
    <3>2. CASE Given(s, n) = {}
      <4>1. LastSecret(s, n) = Null
        BY <3>2, LastSecretIs
      <4>2. LastSecret(s, n + 1) = Null
        BY <3>1, <3>2, LastSecretIs
      <4>3. QED
        BY <2>2, <4>1, <4>2
    <3>3. CASE Given(s, n) # {}
      <4>1. PICK i \in Given(s, n) : \A j \in Given(s, n) : j <= i
        BY <3>3, LastPosition DEF Given
      <4>2. LastSecret(s, n) = s[i].password
        BY <4>1, LastSecretIs
      <4>3. LastSecret(s, n + 1) = s[i].password
        BY <3>1, <4>1, LastSecretIs
      <4>4. QED
        BY <2>2, <4>2, <4>3
    <3>4. QED
      BY <3>2, <3>3
  <2>3. QED
    BY <2>1, <2>2
<1>5. QED
  BY <1>3, <1>4

-----------------------------------------------------------------------------
(* The invariant                                                           *)

\* Nothing was asked at the start.
LEMMA InitEstablishes == Init => CredentialInvariant
<1> SUFFICES ASSUME Init PROVE CredentialInvariant
  OBVIOUS
<1>1. TypeOK
  <2>1. username \in Names /\ user \in Names /\ password \in Secrets
    BY DEF Init, Names, Secrets
  <2>2. path \in BOOLEAN /\ running \in BOOLEAN
    BY DEF Init
  <2>3. commands \in Seq(Helpers) /\ asked \in Seq(Answers)
    BY DEF Init
  <2>4. result = Null /\ threw \in BOOLEAN
    BY DEF Init
  <2>5. QED
    BY <2>1, <2>2, <2>3, <2>4 DEF TypeOK
<1>2. DOMAIN asked = {}
  BY DEF Init
<1>3. LocalsState /\ LoopState /\ KnownUserIsTold
  BY <1>2, ValuesAssumption DEF Init, LocalsState, LoopState, KnownUserIsTold
<1>4. QED
  BY <1>1, <1>3 DEF CredentialInvariant

\* Configuring changes what the next execution starts from, no more.
LEMMA ConfigPreserves ==
  ASSUME CredentialInvariant, NEW config \in Configurations, Config(config)
  PROVE  CredentialInvariant'
<1> USE DEF CredentialInvariant, Config
<1>1. username' \in Names
  BY ConfigurationsAssumption, MostSpecificType DEF TypeOK, Names
<1>2. path' \in BOOLEAN
  BY ConfigurationsAssumption, MostSpecificType DEF TypeOK
<1>3. commands' \in Seq(Helpers)
  BY DEF TypeOK, CommandsOf, Command
<1>4. TypeOK'
  BY <1>1, <1>2, <1>3 DEF TypeOK
<1>5. LocalsState' /\ LoopState' /\ KnownUserIsTold'
  BY DEF LocalsState, LoopState, KnownUserIsTold
<1>6. QED
  BY <1>4, <1>5

\* An execution starts from the configuration.
LEMMA ExecutePreserves ==
  ASSUME CredentialInvariant, Execute
  PROVE  CredentialInvariant'
<1> USE DEF CredentialInvariant, Execute
<1>1. TypeOK' /\ LocalsState' /\ KnownUserIsTold'
  <2>1. TypeOK'
    <3>1. user' \in Names /\ password' \in Secrets
      BY DEF TypeOK, Secrets
    <3>2. asked' \in Seq(Answers) /\ result' = Null
      OBVIOUS
    <3>3. running' \in BOOLEAN /\ threw' \in BOOLEAN
      OBVIOUS
    <3>4. QED
      BY <3>1, <3>2, <3>3 DEF TypeOK
  <2>2. LocalsState' /\ KnownUserIsTold'
    BY DEF LocalsState, KnownUserIsTold
  <2>3. QED
    BY <2>1, <2>2
<1>2. asked' = <<>> /\ Len(asked') = 0 /\ DOMAIN asked' = {}
  OBVIOUS
<1>3. Named(asked', 0) = {} /\ Given(asked', 0) = {}
  BY DEF Named, Given
<1>4. FirstName(username', asked', 0) = username' /\ LastSecret(asked', 0) = Null
  BY <1>3, FirstNameIs, LastSecretIs
<1>5. LoopState'
  BY <1>2, <1>4 DEF LoopState, NameAfter, SecretAfter, CompleteAfter
<1>6. QED
  BY <1>1, <1>5

\* After the answer of one helper the locals are what the answers amount to.
LEMMA AskNextAmounts ==
  ASSUME CredentialInvariant, NEW output \in Outputs, AskNext(output)
  PROVE  /\ user' = NameAfter(Len(asked))'
         /\ password' = SecretAfter(Len(asked))'
         /\ CompleteAfter' = IF Complete(user', password') THEN {Len(asked')} ELSE {}
<1> DEFINE u == LastValue(output, "username")
           p == LastValue(output, "password")
           answer == [told |-> Told(user), user |-> u, password |-> p]
           n == Len(asked)
<1>1. /\ running
      /\ user' = NextUser(u)
      /\ password' = NextPassword(p)
      /\ asked' = Append(asked, answer)
      /\ username' = username
  BY DEF AskNext
<1>2. /\ user = FirstName(username, asked, n)
      /\ password = LastSecret(asked, n)
      /\ \A k \in 1 .. n : ~Complete(FirstName(username, asked, k), LastSecret(asked, k))
  BY <1>1 DEF CredentialInvariant, TypeOK, LoopState, NameAfter, SecretAfter, CompleteAfter
<1>3. /\ n \in Nat
      /\ \A i \in 1 .. n : asked'[i] = asked[i]
      /\ Len(asked') = n + 1
      /\ DOMAIN asked' = 1 .. n + 1
      /\ asked'[n + 1] = answer
  BY <1>1 DEF CredentialInvariant, TypeOK
<1>4. asked'[n + 1].user = u /\ asked'[n + 1].password = p
  BY <1>3
<1> HIDE DEF u, p, answer, n
<1>5. \A k \in 0 .. n :
        /\ FirstName(username', asked', k) = FirstName(username, asked, k)
        /\ LastSecret(asked', k) = LastSecret(asked, k)
  <2> SUFFICES ASSUME NEW k \in 0 .. n
               PROVE  /\ FirstName(username, asked', k) = FirstName(username, asked, k)
                      /\ LastSecret(asked', k) = LastSecret(asked, k)
    BY <1>1
  <2>1. k \in Nat /\ \A i \in 1 .. k : asked'[i] = asked[i]
    BY <1>3
  <2>2. QED
    BY <2>1, EarlierAnswersDecide
<1>6. user' = FirstName(username', asked', n + 1)
  <2>1. FirstName(username, asked', n) = user
    BY <1>1, <1>2, <1>3, <1>5
  <2>2. FirstName(username, asked', n + 1) =
          IF user = Null /\ ~IsNullOrEmpty(u) THEN u ELSE user
    BY <1>3, <1>4, <2>1, OneMoreAnswer
  <2>3. QED
    BY <1>1, <2>2 DEF NextUser
<1>7. password' = LastSecret(asked', n + 1)
  <2>1. LastSecret(asked', n) = password
    BY <1>2, <1>3, <1>5
  <2>2. LastSecret(asked', n + 1) = IF IsNullOrEmpty(p) THEN password ELSE p
    BY <1>3, <1>4, <2>1, OneMoreAnswer
  <2>3. QED
    BY <1>1, <2>2 DEF NextPassword
<1>8. CompleteAfter' = {k \in 1 .. n + 1 : Complete(FirstName(username', asked', k), LastSecret(asked', k))}
  BY <1>3 DEF CompleteAfter, NameAfter, SecretAfter
<1>9. \A k \in 1 .. n : ~Complete(FirstName(username', asked', k), LastSecret(asked', k))
  BY <1>2, <1>3, <1>5
<1>10. CompleteAfter' = IF Complete(user', password') THEN {n + 1} ELSE {}
  BY <1>3, <1>6, <1>7, <1>8, <1>9
<1>11. QED
  BY <1>3, <1>6, <1>7, <1>10 DEF NameAfter, SecretAfter

\* The answer of one helper.
LEMMA AskNextPreserves ==
  ASSUME CredentialInvariant, NEW output \in Outputs, AskNext(output)
  PROVE  CredentialInvariant'
<1> DEFINE u == LastValue(output, "username")
           p == LastValue(output, "password")
           answer == [told |-> Told(user), user |-> u, password |-> p]
<1>1. u \in Names /\ p \in Secrets
  BY LastValueType
<1>2. /\ running
      /\ user' = NextUser(u)
      /\ password' = NextPassword(p)
      /\ asked' = Append(asked, answer)
      /\ \/ result' = [first |-> user', second |-> password'] /\ running' = FALSE /\ Complete(user', password')
         \/ UNCHANGED <<result, running>>
      /\ UNCHANGED <<username, commands, path, threw>>
  BY DEF AskNext
<1> HIDE DEF u, p
<1>3. /\ user \in Names /\ password \in Secrets /\ asked \in Seq(Answers)
      /\ user' \in Names /\ password' \in Secrets /\ answer \in Answers
  BY <1>1, <1>2 DEF CredentialInvariant, TypeOK, NextUser, NextPassword, Told, IsNullOrEmpty,
       Names, Answers
<1>4. /\ DOMAIN asked' = DOMAIN asked \cup {Len(asked) + 1}
      /\ Len(asked) + 1 \notin DOMAIN asked
      /\ asked'[Len(asked) + 1] = answer
      /\ \A i \in DOMAIN asked : i \in Nat /\ i < Len(asked) + 1 /\ asked'[i] = asked[i]
  BY <1>2, <1>3
<1>5. TypeOK'
  <2>1. asked' \in Seq(Answers)
    BY <1>2, <1>3
  <2>2. result' \in [first : Names, second : Secrets] \cup {Null}
    <3>1. CASE result' = [first |-> user', second |-> password']
      <4>1. result' \in [first : Names, second : Secrets]
        BY <3>1, <1>3
      <4>2. QED
        BY <4>1
    <3>2. CASE result' = result
      BY <3>2 DEF CredentialInvariant, TypeOK
    <3>3. QED
      BY <3>1, <3>2, <1>2
  <2>3. QED
    BY <2>1, <2>2, <1>2, <1>3 DEF CredentialInvariant, TypeOK
<1>6. user # Null => user' = user
  BY <1>2 DEF NextUser
<1>7. \A i \in DOMAIN asked' : asked'[i].told \in {Null, user'} \ {Empty}
  BY <1>4, <1>6, ValuesAssumption DEF CredentialInvariant, LocalsState, Told, IsNullOrEmpty
<1>8. user' = Null => \A i \in DOMAIN asked' : IsNullOrEmpty(asked'[i].user)
  BY <1>2, <1>4, <1>6 DEF CredentialInvariant, LocalsState, NextUser, IsNullOrEmpty
<1>9. user' \in Users =>
        \A i \in DOMAIN asked' : asked'[i].told = Null => asked'[i].user \in {Null, Empty, user'}
  <2> SUFFICES ASSUME user' \in Users, NEW i \in DOMAIN asked', asked'[i].told = Null
               PROVE  asked'[i].user \in {Null, Empty, user'}
    OBVIOUS
  <2>1. CASE user = Null
    BY <2>1, <1>2, <1>4 DEF CredentialInvariant, LocalsState, NextUser, IsNullOrEmpty
  <2>2. CASE user # Null
    BY <2>2, <1>4, <1>6, ValuesAssumption
       DEF CredentialInvariant, LocalsState, Told, IsNullOrEmpty
  <2>3. QED
    BY <2>1, <2>2
<1>10. password' # Null => \E i \in DOMAIN asked' : asked'[i].password = password'
  BY <1>2, <1>4 DEF CredentialInvariant, LocalsState, NextPassword, IsNullOrEmpty
<1>11. result' # Null => ~running' /\ result' = [first |-> user', second |-> password'] /\ Complete(user', password')
  BY <1>2 DEF CredentialInvariant, LocalsState
<1>12. KnownUserIsTold'
  <2> SUFFICES ASSUME NEW i \in DOMAIN asked', NEW j \in DOMAIN asked', i < j,
                      asked'[i].told # Null
               PROVE  asked'[j].told = asked'[i].told
    BY DEF KnownUserIsTold
  <2>1. i \in DOMAIN asked
    BY <1>3, <1>4
  <2>2. CASE j \in DOMAIN asked
    BY <2>1, <2>2, <1>4 DEF CredentialInvariant, KnownUserIsTold
  <2>3. CASE j = Len(asked) + 1
    <3>1. asked'[i].told = user /\ user \notin {Null, Empty}
      BY <2>1, <1>4 DEF CredentialInvariant, LocalsState
    <3>2. asked'[j].told = user
      BY <3>1, <2>3, <1>4 DEF Told, IsNullOrEmpty
    <3>3. QED
      BY <3>1, <3>2
  <2>4. QED
    BY <2>2, <2>3, <1>4
<1>13. LoopState'
  BY <1>2, AskNextAmounts DEF CredentialInvariant, LoopState, AskNext
<1>14. QED
  BY <1>5, <1>7, <1>8, <1>9, <1>10, <1>11, <1>12, <1>13 DEF CredentialInvariant, LocalsState

\* The other steps.
LEMMA NextPreserves == CredentialInvariant /\ [Next]_vars => CredentialInvariant'
<1> SUFFICES ASSUME CredentialInvariant, [Next]_vars
             PROVE  CredentialInvariant'
  OBVIOUS
<1> USE DEF CredentialInvariant, TypeOK, LocalsState, LoopState, KnownUserIsTold
<1>1. ASSUME NEW name \in Names, SetUsername(name)
      PROVE  CredentialInvariant'
  BY <1>1 DEF SetUsername
<1>2. CASE GiveUp \/ CommandThrows
  BY <1>2 DEF GiveUp, CommandThrows
<1>3. CASE UNCHANGED vars
  <2>1. LoopState'
    BY <1>3 DEF vars, NameAfter, SecretAfter, CompleteAfter
  <2>2. QED
    BY <1>3, <2>1 DEF vars
<1>4. QED
  BY <1>1, <1>2, <1>3, ConfigPreserves, ExecutePreserves, AskNextPreserves DEF Next

\* The locals of an execution agree with the history of what was asked.
THEOREM CredentialInvariantHolds == Spec => []CredentialInvariant
BY InitEstablishes, NextPreserves, PTL DEF Spec

\* Once a helper was told a username, the later ones are told the same.
THEOREM SameUserThroughout == Spec => []KnownUserIsTold
<1>1. CredentialInvariant => KnownUserIsTold
  BY DEF CredentialInvariant
<1>2. QED
  BY <1>1, CredentialInvariantHolds, PTL

\* Honest helpers: the password returned belongs to the username returned.
THEOREM PasswordBelongsToUser == Spec => []PasswordOfKnownUser
<1>1. CredentialInvariant => PasswordOfKnownUser
  <2> SUFFICES ASSUME CredentialInvariant, result # Null,
                      \A i \in DOMAIN asked : Honest(asked[i])
               PROVE  \E i \in DOMAIN asked :
                         /\ asked[i].password = result.second
                         /\ result.first \in {asked[i].told, asked[i].user}
    BY DEF PasswordOfKnownUser
  <2>1. result = [first |-> user, second |-> password] /\ user \in Users /\ password \notin {Null, Empty}
    BY DEF CredentialInvariant, TypeOK, LocalsState, Complete, IsNullOrEmpty, Names
  <2>2. PICK i \in DOMAIN asked : asked[i].password = password
    BY <2>1 DEF CredentialInvariant, LocalsState
  <2>3. CASE asked[i].told = Null
    BY <2>1, <2>2, <2>3 DEF CredentialInvariant, LocalsState, Honest, IsNullOrEmpty
  <2>4. CASE asked[i].told # Null
    BY <2>1, <2>2, <2>4 DEF CredentialInvariant, LocalsState
  <2>5. QED
    BY <2>3, <2>4
<1>2. QED
  BY <1>1, CredentialInvariantHolds, PTL
-----------------------------------------------------------------------------
\* An execution ends with the first complete answer, or with null when all
\* commands were asked and none completed it.
LEMMA StopsAtFirstComplete ==
  ASSUME CredentialInvariant, [Next]_vars, running, ~running'
  PROVE  IF threw' THEN ThrowsIncomplete' ELSE StopsWhenComplete'
<1>1. ASSUME NEW output \in Outputs, AskNext(output)
      PROVE  StopsWhenComplete' /\ ~threw'
  <2>1. Complete(user', password') /\ result' = [first |-> user', second |-> password']
    BY <1>1 DEF AskNext
  <2>2. user' \in Names /\ password' \in Secrets
    BY <1>1, AskNextPreserves DEF CredentialInvariant, TypeOK
  <2>3. result' # Null
    BY <2>1, <2>2, PairAssumption
  <2>4. CompleteAfter' = {Len(asked')}
    BY <1>1, <2>1, AskNextAmounts
  <2>5. result' = [first |-> NameAfter(Len(asked)), second |-> SecretAfter(Len(asked))]'
    BY <1>1, <2>1, AskNextAmounts
  <2>6. ~threw'
    BY <1>1 DEF AskNext, CredentialInvariant, LoopState
  <2>7. QED
    BY <2>3, <2>4, <2>5, <2>6 DEF StopsWhenComplete
<1>2. CASE GiveUp \/ CommandThrows
  <2>1. CompleteAfter' = CompleteAfter
    BY <1>2 DEF GiveUp, CommandThrows, CompleteAfter, NameAfter, SecretAfter
  <2>2. CompleteAfter' = {} /\ result' = Null
    BY <1>2, <2>1 DEF GiveUp, CommandThrows, CredentialInvariant, LoopState
  <2>3. CASE GiveUp
    BY <2>2, <2>3 DEF GiveUp, CredentialInvariant, LoopState, StopsWhenComplete
  <2>4. CASE CommandThrows
    BY <2>2, <2>4 DEF CommandThrows, ThrowsIncomplete
  <2>5. QED
    BY <1>2, <2>3, <2>4
<1>3. QED
  BY <1>1, <1>2 DEF Next, Config, SetUsername, Execute, vars

\* execute() asks no helper more than it needs, returns what the answers
\* amount to, and null only when all were asked; it throws only while the
\* answer is incomplete (CredentialHelper.kt:113-182).
THEOREM StopsWhenAnswered == Spec => AnswerIsFirstComplete
<1>1. Spec => []CredentialInvariant
  BY CredentialInvariantHolds
<1>2. CredentialInvariant /\ [Next]_vars =>
        [running /\ ~running' =>
            IF threw' THEN ThrowsIncomplete' ELSE StopsWhenComplete']_vars
  BY StopsAtFirstComplete
<1>3. QED
  BY <1>1, <1>2, PTL DEF Spec, AnswerIsFirstComplete
=============================================================================

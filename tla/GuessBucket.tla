------------------------------ MODULE GuessBucket ------------------------------
(***************************************************************************)
(* How often may one voter's code be guessed in one round: the token       *)
(* bucket `otp_guess_state`.  A guess pays a token before the code is      *)
(* compared; a right one forgives the bucket; an administrator may drop    *)
(* it.  A token is worth Interval units and a tick refills one, so the     *)
(* bucket's arithmetic is exact.                                           *)
(***************************************************************************)
EXTENDS Integers, Sequences, FiniteSets

CONSTANTS
    Guesses,        \* calls of /verify-otp that may be under way at once
    FreeGuesses,    \* size of the bucket
    Interval,       \* ticks that refill one guess
    Drops,          \* bound: right guesses and resets
    BucketEnd       \* bound: the clock stops here

ASSUME BucketAssumption ==
    /\ {FreeGuesses, Interval} \subseteq Nat \ {0}
    /\ {Drops, BucketEnd} \subseteq Nat

VARIABLES
    time,
    guessDoc,       \* the otp_guess_state document, or NoGuessDoc
    guesses,        \* Guesses -> the call under way
    drops,          \* how often the document was deleted
    paid,           \* history: when guesses were paid since then
    stale           \* history: one of them was paid by a call that read an earlier document

bucketVars == <<time, guessDoc, guesses, drops, paid, stale>>

NoGuessDoc == [v |-> -1]

GuessDocs == [tokens : Nat, updated : Nat, v : Nat]

GuessCall == [pc : {"idle", "insert", "read", "write", "compare", "forgive"}, at : Nat,
              tries : 0..3, doc : GuessDocs \cup {NoGuessDoc}, old : BOOLEAN]

NoGuess == [pc |-> "idle", at |-> 0, tries |-> 0, doc |-> NoGuessDoc, old |-> FALSE]

\* Faulty: a bucket not looked at for a while is full again.
RefillForgetful(doc) ==
    IF time > doc.updated THEN FreeGuesses * Interval ELSE doc.tokens

Refill(doc) ==
    LET tokens == doc.tokens + (time - doc.updated)
    IN  IF tokens < FreeGuesses * Interval THEN tokens ELSE FreeGuesses * Interval

\* Faulty: the token may go below zero.
EnoughAny(doc) == TRUE

Enough(doc) == Refill(doc) >= Interval

BucketInit ==
    /\ time = 0
    /\ guessDoc = NoGuessDoc
    /\ guesses = [g \in Guesses |-> NoGuess]
    /\ drops = 0
    /\ paid = <<>>
    /\ stale = FALSE

GuessDone(g) == guesses' = [guesses EXCEPT ![g] = NoGuess]

\* There is a live code to compare with; without one the guess is refused and costs nothing.
Guess(g) ==
    /\ guesses[g].pc = "idle"
    /\ guesses' = [guesses EXCEPT ![g].pc = "insert"]
    /\ UNCHANGED <<time, guessDoc, drops, paid, stale>>

Paid(g, doc) ==
    /\ guessDoc' = doc
    /\ paid' = Append(paid, doc.updated)
    /\ stale' = (stale \/ guesses[g].old)
    /\ guesses' = [guesses EXCEPT ![g] = [NoGuess EXCEPT !.pc = "compare"]]

FirstGuess(at) == [tokens |-> (FreeGuesses - 1) * Interval, updated |-> at, v |-> 0]

PayFirst(g) ==
    /\ guesses[g].pc = "insert"
    /\ \/ /\ guessDoc = NoGuessDoc
          /\ Paid(g, FirstGuess(time))
       \/ /\ guessDoc # NoGuessDoc
          /\ guesses' = [guesses EXCEPT ![g].pc = "read"]
          /\ UNCHANGED <<guessDoc, paid, stale>>
    /\ UNCHANGED <<time, drops>>

\* What the call holds is the document with its tokens refilled.
ReadBucket(g) ==
    /\ guesses[g].pc = "read"
    /\ guessDoc # NoGuessDoc => Enough(guessDoc)
    /\ guesses' = [guesses EXCEPT
            ![g].pc = "write", ![g].at = time, ![g].old = FALSE,
            ![g].doc = IF guessDoc = NoGuessDoc THEN NoGuessDoc
                       ELSE [guessDoc EXCEPT !.tokens = Refill(guessDoc)]]
    /\ UNCHANGED <<time, guessDoc, drops, paid, stale>>

GuessRefused(g) ==
    /\ guesses[g].pc = "read"
    /\ guessDoc # NoGuessDoc
    /\ ~Enough(guessDoc)
    /\ GuessDone(g)
    /\ UNCHANGED <<time, guessDoc, drops, paid, stale>>

\* Faulty: the token is taken from whatever document is there.
SameBucketAny(doc) == guessDoc # NoGuessDoc

SameBucket(doc) == guessDoc # NoGuessDoc /\ guessDoc.v = doc.v

Pay(g) ==
    /\ guesses[g].pc = "write"
    /\ \/ /\ guesses[g].doc = NoGuessDoc /\ guessDoc = NoGuessDoc
          /\ Paid(g, FirstGuess(guesses[g].at))
       \/ /\ guesses[g].doc # NoGuessDoc /\ SameBucket(guesses[g].doc)
          /\ Paid(g, [tokens |-> guesses[g].doc.tokens - Interval,
                      updated |-> guesses[g].at, v |-> guesses[g].doc.v + 1])
    /\ UNCHANGED <<time, drops>>

LosePayment(g) ==
    /\ guesses[g].pc = "write"
    /\ IF guesses[g].doc = NoGuessDoc THEN guessDoc # NoGuessDoc
                                      ELSE ~SameBucket(guesses[g].doc)
    /\ guesses' = [guesses EXCEPT ![g] = IF guesses[g].tries = 3 THEN NoGuess
                                         ELSE [guesses[g] EXCEPT !.pc = "read",
                                                  !.tries = guesses[g].tries + 1,
                                                  !.doc = NoGuessDoc, !.at = 0]]
    /\ UNCHANGED <<time, guessDoc, drops, paid, stale>>

WrongCode(g) ==
    /\ guesses[g].pc = "compare"
    /\ GuessDone(g)
    /\ UNCHANGED <<time, guessDoc, drops, paid, stale>>

\* The session is opened and the code deleted before the bucket goes.
RightCode(g) ==
    /\ guesses[g].pc = "compare"
    /\ drops < Drops
    /\ guesses' = [guesses EXCEPT ![g].pc = "forgive"]
    /\ UNCHANGED <<time, guessDoc, drops, paid, stale>>

\* Calls under way may hold what the deleted document said.
DropBucket(calls) ==
    /\ guessDoc' = NoGuessDoc
    /\ paid' = <<>>
    /\ stale' = FALSE
    /\ drops' = drops + 1
    /\ guesses' = [g \in Guesses |-> [calls[g] EXCEPT !.old = calls[g].pc = "write"]]
    /\ UNCHANGED time

\* Success forgives this round's bucket.
Forgive(g) ==
    /\ guesses[g].pc = "forgive"
    /\ DropBucket([guesses EXCEPT ![g] = NoGuess])

\* clear_otp_limit_state, from an administrator's reset or an approved contact change.
ClearBucket ==
    /\ drops < Drops
    /\ DropBucket(guesses)

BucketTick ==
    /\ time < BucketEnd
    /\ time' = time + 1
    /\ UNCHANGED <<guessDoc, guesses, drops, paid, stale>>

BucketNext ==
    \/ BucketTick \/ ClearBucket
    \/ \E g \in Guesses : \/ Guess(g) \/ PayFirst(g) \/ ReadBucket(g) \/ GuessRefused(g)
                          \/ Pay(g) \/ LosePayment(g)
                          \/ WrongCode(g) \/ RightCode(g) \/ Forgive(g)

BucketSpec == BucketInit /\ [][BucketNext]_bucketVars

-----------------------------------------------------------------------------

BucketTypeOK ==
    /\ time \in 0..BucketEnd
    /\ guessDoc \in GuessDocs \cup {NoGuessDoc}
    /\ guesses \in [Guesses -> GuessCall]
    /\ drops \in Nat
    /\ paid \in Seq(Nat)
    /\ stale \in BOOLEAN

\* Parallel guesses cannot overdraw the bucket: any run of payments fits into a full bucket and
\* what was refilled while it lasted.  A call that read a bucket since dropped may still match
\* the version of its successor; only then is a guess had for nothing.
BucketNotOverdrawn ==
    stale \/ \A i, j \in DOMAIN paid :
        i <= j => (j - i + 1) * Interval <= FreeGuesses * Interval + (paid[j] - paid[i])

=============================================================================

----------------------------- MODULE ServicesProofs -----------------------------
(***************************************************************************)
(* Theorems about the services behind the election: the bucket of guesses  *)
(* and the SMS budget that guard the channel of the codes, the bulk        *)
(* campaign, the copies of the database; for any number of requests under  *)
(* way, any sizes and any bounds.                                          *)
(***************************************************************************)
EXTENDS MCServices, AuditChainProofs

-----------------------------------------------------------------------------
(* The bucket.  While no payment was matched against a dropped document, the  *)
(* tokens left and what the payments of any run took fit into a full bucket   *)
(* and the refill of the time since the run began.                            *)
Cost(k) == k * Interval

Full == FreeGuesses * Interval

(* n payments at p[1], p[2], ... and the tokens that are left at a time.       *)
Covers(n, p, tokens, at) == \A i \in 1 .. n : Cost(n - i + 1) + tokens <= Full + (at - p[i])

(* What was paid since the document was inserted, against the document.       *)
BucketCovers ==
    IF guessDoc = NoGuessDoc THEN paid = <<>>
    ELSE Covers(Len(paid), paid, guessDoc.tokens, guessDoc.updated)

(* A call that holds a reading of the present document holds its tokens       *)
(* refilled to the moment it read them.                                       *)
Holds(call) ==
    call.pc = "write" /\ call.doc # NoGuessDoc /\ ~call.old =>
       /\ guessDoc # NoGuessDoc /\ call.doc.v <= guessDoc.v
       /\ call.doc.v = guessDoc.v =>
            call.doc.tokens <= guessDoc.tokens + (call.at - guessDoc.updated)

Solvent(call) == /\ call.at <= time
                 /\ call.pc = "write" /\ call.doc # NoGuessDoc => call.doc.tokens \in Interval .. Full

BucketInv ==
    /\ BucketTypeOK
    /\ guessDoc # NoGuessDoc => guessDoc.updated <= time
    /\ \A g \in Guesses : Solvent(guesses[g])
    /\ ~stale => BucketCovers /\ BucketNotOverdrawn /\ \A g \in Guesses : Holds(guesses[g])

LEMMA BucketConstants ==
    /\ FreeGuesses \in Nat /\ Interval \in Nat /\ Interval > 0 /\ Full \in Nat
    /\ (FreeGuesses - 1) * Interval = Full - Interval /\ Full - Interval \in Nat
<1>1. FreeGuesses \in Nat /\ Interval \in Nat /\ Interval > 0 /\ FreeGuesses > 0
  BY BucketAssumption
<1>2. \A a, b \in Nat : a * b \in Nat
  OBVIOUS
<1>3. FreeGuesses - 1 \in Nat
  BY <1>1
<1>4. (FreeGuesses - 1) * Interval = FreeGuesses * Interval - Interval
  BY <1>1
<1> QED
  BY <1>1, <1>2, <1>3, <1>4 DEF Full

LEMMA OneMore ==
    ASSUME NEW n \in Int PROVE Cost(n + 1) = Cost(n) + Interval /\ Cost(n) \in Int
BY BucketConstants DEF Cost

LEMMA NoneTaken == Cost(1) = Interval
BY BucketConstants DEF Cost

(* A token bucket refills at most to its size and never loses by it.          *)
LEMMA RefillBounds ==
    ASSUME NEW doc \in GuessDocs, time \in Nat, doc.updated <= time
    PROVE  /\ Refill(doc) \in Nat /\ Refill(doc) <= Full
           /\ Refill(doc) <= doc.tokens + (time - doc.updated)
BY BucketConstants DEF Refill, GuessDocs, Full

(* The arithmetic of one more payment: q is p with the time of the payment.   *)
OneMorePaid(n, p, q, at) == /\ \A i \in 1 .. n : p[i] \in Nat /\ q[i] = p[i]
                            /\ q[n + 1] = at

CoversAll(n, q, tokens, at) ==
    \A i \in 1 .. n + 1 : /\ Cost((n + 1) - i + 1) + tokens <= Full + (at - q[i])
                          /\ Cost((n + 1) - i + 1) \in Int /\ q[i] \in Nat
                          /\ Cost((n + 1) - i + 1) <= Full + (at - q[i])

LEMMA CoversMore ==
    ASSUME NEW n \in Nat, NEW p, NEW q, NEW tokens \in Nat, NEW at \in Nat,
           OneMorePaid(n, p, q, at), Covers(n, p, tokens + Interval, at), tokens <= Full - Interval
    PROVE  CoversAll(n, q, tokens, at)
<1> SUFFICES ASSUME NEW i \in 1 .. n + 1
             PROVE  /\ Cost((n + 1) - i + 1) + tokens <= Full + (at - q[i])
                    /\ Cost((n + 1) - i + 1) \in Int /\ q[i] \in Nat
                    /\ Cost((n + 1) - i + 1) <= Full + (at - q[i])
  BY DEF CoversAll
<1>0. Full \in Nat /\ Interval \in Nat
  BY BucketConstants
<1>1. CASE i = n + 1
  <2>1. (n + 1) - i + 1 = 1
    BY <1>1
  <2>2. Cost((n + 1) - i + 1) = Interval /\ q[i] = at
    BY <1>1, <2>1, NoneTaken DEF OneMorePaid
  <2> QED
    BY <1>0, <1>1, <2>2
<1>2. CASE i # n + 1
  <2>1. i \in 1 .. n /\ n - i + 1 \in Int /\ (n + 1) - i + 1 = (n - i + 1) + 1
    BY <1>2
  <2>2. PICK t \in Int : t = Cost(n - i + 1) /\ Cost((n + 1) - i + 1) = t + Interval
    BY <2>1, OneMore
  <2>3. t + (tokens + Interval) <= Full + (at - p[i]) /\ p[i] \in Nat /\ q[i] = p[i]
    BY <2>1, <2>2 DEF OneMorePaid, Covers
  <2> QED
    BY <1>0, <2>2, <2>3
<1> QED
  BY <1>1, <1>2

(* A payment that takes the bucket from what it covered to doc.               *)
LEMMA PaidCovers ==
    ASSUME paid \in Seq(Nat), BucketNotOverdrawn, ~stale,
           NEW doc \in GuessDocs, paid' = Append(paid, doc.updated), guessDoc' = doc, doc # NoGuessDoc,
           doc.tokens <= Full - Interval,
           Covers(Len(paid), paid, doc.tokens + Interval, doc.updated)
    PROVE  BucketCovers' /\ BucketNotOverdrawn'
<1>0. PICK n \in Nat : n = Len(paid)
  OBVIOUS
<1>1. /\ doc.tokens \in Nat /\ doc.updated \in Nat /\ Interval \in Nat /\ Full \in Nat
      /\ Len(paid') = n + 1 /\ \A i \in 1 .. n : paid[i] \in Nat /\ paid'[i] = paid[i]
      /\ paid'[n + 1] = doc.updated /\ DOMAIN paid' = 1 .. n + 1 /\ DOMAIN paid = 1 .. n
  BY <1>0, BucketConstants DEF GuessDocs
<1>2. CoversAll(n, paid', doc.tokens, doc.updated)
  <2>1. OneMorePaid(n, paid, paid', doc.updated)
    BY <1>1 DEF OneMorePaid
  <2> QED
    BY <1>0, <1>1, <2>1, CoversMore
<1>3. \A i \in 1 .. n + 1 :
        /\ Cost((n + 1) - i + 1) + doc.tokens <= Full + (doc.updated - paid'[i])
        /\ Cost((n + 1) - i + 1) \in Int /\ paid'[i] \in Nat
        /\ Cost((n + 1) - i + 1) <= Full + (doc.updated - paid'[i])
  BY <1>2 DEF CoversAll
<1>4. BucketCovers'
  <2>1. \A i \in 1 .. Len(paid') : Cost(Len(paid') - i + 1) + doc.tokens <= Full + (doc.updated - paid'[i])
    BY <1>1, <1>3
  <2> QED
    BY <2>1 DEF BucketCovers, Covers, Full, Cost
<1>5. \A i, j \in 1 .. n + 1 :
        i <= j => Cost(j - i + 1) <= Full + (paid'[j] - paid'[i])
  <2>1. SUFFICES ASSUME NEW i \in 1 .. n + 1, NEW j \in 1 .. n + 1, i <= j
                 PROVE  Cost(j - i + 1) <= Full + (paid'[j] - paid'[i])
    OBVIOUS
  <2>2. CASE j = n + 1
    BY <1>1, <1>3, <2>2
  <2>3. CASE j # n + 1
    <3>1. i \in 1 .. n /\ j \in 1 .. n
      BY <2>1, <2>3
    <3>2. Cost(j - i + 1) <= Full + (paid[j] - paid[i])
      BY <1>1, <2>1, <3>1 DEF BucketNotOverdrawn, Cost, Full
    <3> QED
      BY <1>1, <3>1, <3>2
  <2> QED
    BY <2>2, <2>3
<1>6. BucketNotOverdrawn'
  BY <1>1, <1>5 DEF BucketNotOverdrawn, Cost, Full
<1> QED
  BY <1>4, <1>6

LEMMA DocIsThere == ASSUME NEW doc \in GuessDocs PROVE doc # NoGuessDoc
<1>1. NoGuessDoc.v = -1 /\ doc.v \in Nat
  BY DEF NoGuessDoc, GuessDocs
<1> QED
  BY <1>1

LEMMA NoGuessTyped ==
    /\ NoGuess \in GuessCall /\ NoGuess.pc = "idle" /\ NoGuess.at = 0
    /\ NoGuess.doc = NoGuessDoc /\ NoGuess.tries = 0
<1>1. NoGuessDoc \in GuessDocs \cup {NoGuessDoc}
  OBVIOUS
<1> QED
  BY <1>1 DEF NoGuess, GuessCall

(* A call that moves on without touching the bucket.                          *)
LEMMA CallMoves ==
    ASSUME BucketInv, UNCHANGED <<time, guessDoc, drops, paid, stale>>,
           NEW g \in Guesses, NEW c \in GuessCall, guesses' = [guesses EXCEPT ![g] = c],
           Solvent(c), ~stale => Holds(c)
    PROVE  BucketInv'
<1>1. guesses' \in [Guesses -> GuessCall] /\ guesses'[g] = c
      /\ \A h \in Guesses \ {g} : guesses'[h] = guesses[h]
  BY DEF BucketInv, BucketTypeOK
<1>2. BucketTypeOK'
  BY <1>1 DEF BucketInv, BucketTypeOK
<1>3. \A h \in Guesses : Solvent(guesses[h])'
  BY <1>1 DEF BucketInv, Solvent, Full
<1>4. ASSUME ~stale PROVE \A h \in Guesses : Holds(guesses[h])'
  BY <1>1, <1>4 DEF BucketInv, Holds
<1>5. ASSUME ~stale PROVE BucketCovers' /\ BucketNotOverdrawn'
  BY <1>5 DEF BucketInv, BucketCovers, BucketNotOverdrawn, Covers, Full, Cost
<1> QED
  BY <1>2, <1>3, <1>4, <1>5 DEF BucketInv

(* A call that pays; the payment counts only if it read the document that is  *)
(* still there, or none was.                                                  *)
LEMMA CallPays ==
    ASSUME BucketInv, UNCHANGED <<time, drops>>, NEW g \in Guesses, NEW doc \in GuessDocs, Paid(g, doc),
           doc.updated <= time, doc.tokens <= Full - Interval,
           ~stale /\ ~guesses[g].old =>
              /\ Covers(Len(paid), paid, doc.tokens + Interval, doc.updated)
              /\ guessDoc # NoGuessDoc => guessDoc.v < doc.v
    PROVE  BucketInv'
<1> DEFINE c == [NoGuess EXCEPT !.pc = "compare"]
<1>0. /\ guesses' = [guesses EXCEPT ![g] = c] /\ guessDoc' = doc
      /\ paid' = Append(paid, doc.updated) /\ stale' = (stale \/ guesses[g].old)
  BY DEF Paid
<1>1. c \in GuessCall /\ c.pc = "compare" /\ c.at = 0
  BY NoGuessTyped DEF GuessCall
<1> HIDE DEF c
<1>2. guesses' \in [Guesses -> GuessCall] /\ guesses'[g] = c
      /\ \A h \in Guesses \ {g} : guesses'[h] = guesses[h] /\ guesses[h] \in GuessCall
  BY <1>0, <1>1 DEF BucketInv, BucketTypeOK
<1>3. /\ time \in Nat /\ doc.updated \in Nat /\ paid \in Seq(Nat) /\ stale \in BOOLEAN
      /\ guesses[g].old \in BOOLEAN
  BY BucketAssumption DEF BucketInv, BucketTypeOK, GuessDocs, GuessCall
<1>4. BucketTypeOK'
  <2>1. paid' \in Seq(Nat)
    BY <1>0, <1>3
  <2>2. stale' \in BOOLEAN
    BY <1>0
  <2> QED
    BY <1>0, <1>2, <2>1, <2>2 DEF BucketInv, BucketTypeOK
<1>5. \A h \in Guesses : Solvent(guesses[h])'
  BY <1>1, <1>2, <1>3 DEF BucketInv, Solvent, Full
<1>6. ASSUME ~stale' PROVE BucketCovers' /\ BucketNotOverdrawn' /\ \A h \in Guesses : Holds(guesses[h])'
  <2>1. ~stale /\ ~guesses[g].old
    BY <1>0, <1>6
  <2>2. BucketCovers' /\ BucketNotOverdrawn'
    BY <1>0, <1>3, <2>1, PaidCovers, DocIsThere DEF BucketInv
  <2>3. ASSUME NEW h \in Guesses PROVE Holds(guesses[h])'
    <3>1. CASE h = g
      BY <1>1, <1>2, <3>1 DEF Holds
    <3>2. CASE h # g
      <4>1. Holds(guesses[h]) /\ guesses'[h] = guesses[h] /\ guesses[h] \in GuessCall
        BY <1>2, <2>1, <3>2 DEF BucketInv
      <4>2. ASSUME guesses[h].pc = "write", guesses[h].doc # NoGuessDoc, ~guesses[h].old
            PROVE  guesses[h].doc.v < doc.v
        <5>1. guesses[h].doc \in GuessDocs /\ guessDoc \in GuessDocs
              /\ guesses[h].doc.v <= guessDoc.v /\ guessDoc.v < doc.v
          BY <2>1, <4>1, <4>2 DEF Holds, GuessCall, BucketInv, BucketTypeOK
        <5> QED
          BY <5>1 DEF GuessDocs
      <4>3. ASSUME guesses[h].pc = "write", guesses[h].doc # NoGuessDoc, ~guesses[h].old
            PROVE  guesses[h].doc.v \in Nat /\ doc.v \in Nat
        BY <4>1, <4>3 DEF GuessCall, GuessDocs
      <4> QED
        BY <1>0, <4>1, <4>2, <4>3, DocIsThere DEF Holds
    <3> QED
      BY <3>1, <3>2
  <2> QED
    BY <2>2, <2>3
<1> QED
  BY <1>0, <1>4, <1>5, <1>6 DEF BucketInv

(* The document is dropped, and whoever read it is marked.                    *)
LEMMA BucketDropped ==
    ASSUME BucketInv, NEW rest \in [Guesses -> GuessCall], \A g \in Guesses : Solvent(rest[g]),
           DropBucket(rest)
    PROVE  BucketInv'
<1> DEFINE c(g) == [rest[g] EXCEPT !.old = rest[g].pc = "write"]
<1>1. /\ guessDoc' = NoGuessDoc /\ paid' = <<>> /\ stale' = FALSE /\ drops' = drops + 1
      /\ guesses' = [g \in Guesses |-> c(g)] /\ time' = time
  BY DEF DropBucket
<1>2. \A g \in Guesses : /\ c(g) \in GuessCall /\ c(g).pc = rest[g].pc /\ c(g).at = rest[g].at
                         /\ c(g).doc = rest[g].doc /\ (c(g).pc = "write" => c(g).old)
  BY DEF GuessCall
<1> HIDE DEF c
<1>3. guesses' \in [Guesses -> GuessCall] /\ \A g \in Guesses : guesses'[g] = c(g)
  BY <1>1, <1>2
<1>4. BucketTypeOK'
  <2>1. drops' \in Nat /\ paid' \in Seq(Nat)
    BY <1>1 DEF BucketInv, BucketTypeOK
  <2> QED
    BY <1>1, <1>3, <2>1 DEF BucketInv, BucketTypeOK
<1>5. \A g \in Guesses : Solvent(guesses[g])' /\ Holds(guesses[g])'
  BY <1>1, <1>2, <1>3 DEF Solvent, Holds, Full
<1>6. BucketCovers' /\ BucketNotOverdrawn'
  <2>1. DOMAIN <<>> = {}
    OBVIOUS
  <2> QED
    BY <1>1, <2>1 DEF BucketCovers, BucketNotOverdrawn
<1> QED
  BY <1>1, <1>4, <1>5, <1>6 DEF BucketInv

(* A first guess leaves a bucket that covers itself.                          *)
LEMMA FirstCovers ==
    ASSUME NEW at \in Nat
    PROVE  /\ FirstGuess(at) \in GuessDocs /\ FirstGuess(at).tokens = Full - Interval
           /\ FirstGuess(at).updated = at
<1>1. Full - Interval \in Nat /\ (FreeGuesses - 1) * Interval = Full - Interval
  BY BucketConstants
<1> QED
  BY <1>1 DEF FirstGuess, GuessDocs

LEMMA CoversNothing == ASSUME NEW tokens, NEW at PROVE Covers(Len(<<>>), <<>>, tokens, at)
BY DEF Covers

(* What a later payment leaves covers what the document covered.              *)
LEMMA CoversOn ==
    ASSUME NEW n \in Nat, NEW p \in Seq(Nat), n = Len(p),
           NEW old \in Nat, NEW tokens \in Nat, NEW from \in Nat, NEW at \in Nat,
           Covers(n, p, old, from), tokens <= old + (at - from)
    PROVE  Covers(n, p, tokens, at)
<1> SUFFICES ASSUME NEW i \in 1 .. n PROVE Cost(n - i + 1) + tokens <= Full + (at - p[i])
  BY DEF Covers
<1>0. n - i + 1 \in Int
  OBVIOUS
<1>1. PICK t \in Int : t = Cost(n - i + 1)
  BY <1>0, OneMore
<1>2. p[i] \in Nat /\ Full \in Nat
  BY BucketConstants
<1>3. t + old <= Full + (from - p[i])
  BY <1>1 DEF Covers
<1>4. t + tokens <= Full + (at - p[i])
  BY <1>2, <1>3
<1> QED
  BY <1>1, <1>4

LEMMA BucketStep ==
    ASSUME BucketInv, [BucketNext]_bucketVars
    PROVE  BucketInv'
<1>0. /\ time \in Nat /\ guesses \in [Guesses -> GuessCall] /\ paid \in Seq(Nat)
      /\ guessDoc \in GuessDocs \cup {NoGuessDoc}
      /\ \A g \in Guesses : guesses[g] \in GuessCall /\ Solvent(guesses[g])
  BY BucketAssumption DEF BucketInv, BucketTypeOK
<1>1. CASE BucketTick
  <2>1. UNCHANGED <<guessDoc, guesses, drops, paid, stale>> /\ time' = time + 1 /\ time < BucketEnd
    BY <1>1 DEF BucketTick
  <2>2. BucketTypeOK'
    <3>1. time' \in 0 .. BucketEnd
      BY <1>0, <2>1, BucketAssumption
    <3> QED
      BY <2>1, <3>1 DEF BucketInv, BucketTypeOK
  <2>3. \A g \in Guesses : Solvent(guesses[g])'
    BY <1>0, <2>1 DEF Solvent, GuessCall, Full
  <2>4. guessDoc' # NoGuessDoc => guessDoc'.updated <= time'
    BY <1>0, <2>1 DEF BucketInv, GuessDocs
  <2>5. ~stale' => BucketCovers' /\ BucketNotOverdrawn' /\ \A g \in Guesses : Holds(guesses[g])'
    BY <2>1 DEF BucketInv, BucketCovers, BucketNotOverdrawn, Covers, Full, Cost, Holds
  <2> QED
    BY <2>2, <2>3, <2>4, <2>5 DEF BucketInv
<1>2. CASE ClearBucket
  BY <1>0, <1>2, BucketDropped DEF ClearBucket
(* The steps of a call.                                                       *)
<1>3. ASSUME NEW g \in Guesses, NEW c \in GuessCall, guesses' = [guesses EXCEPT ![g] = c],
             c.pc # "write", c.at <= time, UNCHANGED <<time, guessDoc, drops, paid, stale>>
      PROVE  BucketInv'
  BY <1>3, CallMoves DEF Solvent, Holds
<1>4. ASSUME NEW g \in Guesses, GuessDone(g), UNCHANGED <<time, guessDoc, drops, paid, stale>>
      PROVE  BucketInv'
  <2>1. NoGuess \in GuessCall /\ NoGuess.pc # "write" /\ NoGuess.at <= time
    BY <1>0, NoGuessTyped
  <2> QED
    BY <1>3, <1>4, <2>1 DEF GuessDone
<1>5. ASSUME NEW g \in Guesses, NEW pc \in {"insert", "read", "forgive"},
             guesses' = [guesses EXCEPT ![g].pc = pc], UNCHANGED <<time, guessDoc, drops, paid, stale>>
      PROVE  BucketInv'
  <2> DEFINE c == [guesses[g] EXCEPT !.pc = pc]
  <2>1. c \in GuessCall /\ c.pc # "write" /\ c.at <= time /\ guesses' = [guesses EXCEPT ![g] = c]
    BY <1>0, <1>5 DEF GuessCall, Solvent
  <2> HIDE DEF c
  <2> QED
    BY <1>3, <1>5, <2>1
<1>6. ASSUME NEW g \in Guesses, Guess(g) \/ GuessRefused(g) \/ WrongCode(g) \/ RightCode(g)
      PROVE  BucketInv'
  BY <1>4, <1>5, <1>6 DEF Guess, GuessRefused, WrongCode, RightCode
<1>7. ASSUME NEW g \in Guesses, PayFirst(g)
      PROVE  BucketInv'
  <2>1. CASE guessDoc # NoGuessDoc /\ guesses' = [guesses EXCEPT ![g].pc = "read"]
             /\ UNCHANGED <<guessDoc, paid, stale>>
    BY <1>5, <1>7, <2>1 DEF PayFirst
  <2>2. CASE guessDoc = NoGuessDoc /\ Paid(g, FirstGuess(time))
    <3>1. UNCHANGED <<time, drops>>
      BY <1>7 DEF PayFirst
    <3> DEFINE doc == FirstGuess(time)
    <3>2. doc \in GuessDocs /\ doc.tokens = Full - Interval /\ doc.updated = time
      BY <1>0, FirstCovers
    <3>3. ~stale => Covers(Len(paid), paid, doc.tokens + Interval, doc.updated)
      BY <2>2, CoversNothing DEF BucketInv, BucketCovers
    <3>4. Paid(g, doc)
      BY <2>2
    <3>5. doc.updated <= time /\ doc.tokens <= Full - Interval
      BY <1>0, <3>2, BucketConstants
    <3> HIDE DEF doc
    <3> QED
      BY <2>2, <3>1, <3>2, <3>3, <3>4, <3>5, CallPays
  <2> QED
    BY <1>7, <2>1, <2>2 DEF PayFirst
<1>8. ASSUME NEW g \in Guesses, ReadBucket(g)
      PROVE  BucketInv'
  <2>1. UNCHANGED <<time, guessDoc, drops, paid, stale>> /\ (guessDoc # NoGuessDoc => Enough(guessDoc))
    BY <1>8 DEF ReadBucket
  <2>2. PICK d \in GuessDocs \cup {NoGuessDoc} :
          d = IF guessDoc = NoGuessDoc THEN NoGuessDoc ELSE [guessDoc EXCEPT !.tokens = Refill(guessDoc)]
    <3>1. CASE guessDoc = NoGuessDoc
      BY <3>1
    <3>2. CASE guessDoc # NoGuessDoc
      <4>1. guessDoc \in GuessDocs /\ Refill(guessDoc) \in Nat
        BY <1>0, <3>2, RefillBounds DEF BucketInv
      <4>2. [guessDoc EXCEPT !.tokens = Refill(guessDoc)] \in GuessDocs
        BY <4>1 DEF GuessDocs
      <4> QED
        BY <3>2, <4>2
    <3> QED
      BY <3>1, <3>2
  <2> DEFINE c == [guesses[g] EXCEPT !.pc = "write", !.at = time, !.old = FALSE, !.doc = d]
  <2>3. guesses' = [guesses EXCEPT ![g] = c]
    BY <1>0, <1>8, <2>2 DEF ReadBucket
  <2>4. c \in GuessCall /\ c.at = time /\ c.doc = d /\ c.pc = "write" /\ ~c.old
    BY <1>0 DEF GuessCall
  <2> HIDE DEF c
  <2>5. ASSUME d # NoGuessDoc
        PROVE  /\ guessDoc # NoGuessDoc /\ d.v = guessDoc.v /\ d.tokens \in Nat /\ d.tokens >= Interval
               /\ d.tokens <= Full /\ d.tokens <= guessDoc.tokens + (time - guessDoc.updated)
    <3>1. guessDoc # NoGuessDoc /\ guessDoc \in GuessDocs /\ d = [guessDoc EXCEPT !.tokens = Refill(guessDoc)]
      BY <1>0, <2>2, <2>5
    <3>2. d.v = guessDoc.v /\ d.tokens = Refill(guessDoc)
      BY <3>1 DEF GuessDocs
    <3>3. guessDoc.updated <= time /\ Refill(guessDoc) >= Interval
      BY <2>1, <3>1 DEF BucketInv, Enough
    <3> QED
      BY <1>0, <3>1, <3>2, <3>3, RefillBounds
  <2>6. Solvent(c)
    BY <1>0, <2>4, <2>5 DEF Solvent
  <2>7. Holds(c)
    <3>1. d # NoGuessDoc => d.v <= guessDoc.v
      <4> SUFFICES ASSUME d # NoGuessDoc PROVE d.v <= guessDoc.v
        OBVIOUS
      <4>1. guessDoc \in GuessDocs /\ d.v = guessDoc.v
        BY <1>0, <2>5
      <4> QED
        BY <4>1 DEF GuessDocs
    <3> QED
      BY <2>4, <2>5, <3>1 DEF Holds
  <2> QED
    BY <2>1, <2>3, <2>4, <2>6, <2>7, CallMoves
<1>9. ASSUME NEW g \in Guesses, Pay(g)
      PROVE  BucketInv'
  <2>0. UNCHANGED <<time, drops>> /\ guesses[g].pc = "write" /\ guesses[g].at \in Nat
        /\ guesses[g].at <= time /\ guesses[g].doc \in GuessDocs \cup {NoGuessDoc}
    BY <1>0, <1>9 DEF Pay, Solvent, GuessCall
  <2>1. CASE guesses[g].doc = NoGuessDoc /\ guessDoc = NoGuessDoc /\ Paid(g, FirstGuess(guesses[g].at))
    <3> DEFINE doc == FirstGuess(guesses[g].at)
    <3>2. doc \in GuessDocs /\ doc.tokens = Full - Interval /\ doc.updated = guesses[g].at
      BY <2>0, FirstCovers
    <3>3. ~stale => Covers(Len(paid), paid, doc.tokens + Interval, doc.updated)
      BY <2>1, CoversNothing DEF BucketInv, BucketCovers
    <3>4. Paid(g, doc)
      BY <2>1
    <3>5. doc.updated <= time /\ doc.tokens <= Full - Interval
      BY <2>0, <3>2, BucketConstants
    <3> HIDE DEF doc
    <3> QED
      BY <2>0, <2>1, <3>2, <3>3, <3>4, <3>5, CallPays
  <2>2. CASE guesses[g].doc # NoGuessDoc /\ SameBucket(guesses[g].doc)
             /\ Paid(g, [tokens |-> guesses[g].doc.tokens - Interval,
                         updated |-> guesses[g].at, v |-> guesses[g].doc.v + 1])
    <3>1. PICK r \in GuessDocs : r = guesses[g].doc
      BY <2>0, <2>2
    <3>2. r.tokens \in Nat /\ r.tokens >= Interval /\ r.v \in Nat
      BY <1>0, <2>0, <2>2, <3>1 DEF Solvent, GuessDocs
    <3> DEFINE doc == [tokens |-> r.tokens - Interval, updated |-> guesses[g].at, v |-> r.v + 1]
    <3>3. doc \in GuessDocs /\ doc.tokens = r.tokens - Interval /\ doc.updated = guesses[g].at
          /\ doc.v = r.v + 1
      BY <2>0, <3>2, BucketConstants DEF GuessDocs
    <3>4. Paid(g, doc)
      BY <2>2, <3>1
    <3> HIDE DEF doc
    <3>5. guessDoc # NoGuessDoc /\ guessDoc \in GuessDocs /\ guessDoc.v = r.v
      BY <1>0, <2>2, <3>1 DEF SameBucket
    <3>6. guessDoc.tokens \in Nat /\ guessDoc.updated \in Nat /\ Full \in Nat /\ Interval \in Nat
          /\ Len(paid) \in Nat
      BY <1>0, <3>5, BucketConstants DEF GuessDocs
    <3>7. doc.tokens <= Full - Interval
      <4>1. r.tokens <= Full
        BY <1>0, <2>0, <2>2, <3>1 DEF Solvent
      <4> QED
        BY <3>2, <3>3, <3>6, <4>1
    <3>8. ASSUME ~stale, ~guesses[g].old
          PROVE  Covers(Len(paid), paid, doc.tokens + Interval, doc.updated)
      <4>1. r.tokens <= guessDoc.tokens + (guesses[g].at - guessDoc.updated)
        BY <2>0, <2>2, <3>1, <3>5, <3>8 DEF BucketInv, Holds
      <4>2. Covers(Len(paid), paid, guessDoc.tokens, guessDoc.updated)
        BY <3>5, <3>8 DEF BucketInv, BucketCovers
      <4>3. doc.tokens + Interval = r.tokens /\ doc.updated = guesses[g].at
        BY <3>2, <3>3, <3>6
      <4>4. r.tokens \in Nat /\ guesses[g].at \in Nat /\ guessDoc.tokens \in Nat /\ guessDoc.updated \in Nat
            /\ Len(paid) \in Nat
        BY <2>0, <3>2, <3>6
      <4>5. Covers(Len(paid), paid, r.tokens, guesses[g].at)
        BY <1>0, <4>1, <4>2, <4>4, CoversOn
      <4> QED
        BY <4>3, <4>5
    <3>9. guessDoc.v < doc.v
      BY <3>2, <3>3, <3>5
    <3> QED
      BY <2>0, <3>3, <3>4, <3>7, <3>8, <3>9, CallPays
  <2> QED
    BY <1>9, <2>1, <2>2 DEF Pay
<1>10. ASSUME NEW g \in Guesses, LosePayment(g)
       PROVE  BucketInv'
  <2>1. UNCHANGED <<time, guessDoc, drops, paid, stale>>
    BY <1>10 DEF LosePayment
  <2>2. CASE guesses[g].tries = 3
    BY <1>4, <1>10, <2>1, <2>2 DEF LosePayment, GuessDone
  <2>3. CASE guesses[g].tries # 3
    <3> DEFINE c == [guesses[g] EXCEPT !.pc = "read", !.tries = guesses[g].tries + 1,
                                       !.doc = NoGuessDoc, !.at = 0]
    <3>1. guesses' = [guesses EXCEPT ![g] = c]
      BY <1>10, <2>3 DEF LosePayment
    <3>2. c \in GuessCall /\ c.pc = "read" /\ c.at = 0
      <4>1. guesses[g] \in GuessCall /\ guesses[g].tries \in 0 .. 3
        BY <1>0 DEF GuessCall
      <4>2. PICK t \in 0 .. 3 : t = guesses[g].tries + 1
        BY <2>3, <4>1
      <4>3. c = [guesses[g] EXCEPT !.pc = "read", !.tries = t, !.doc = NoGuessDoc, !.at = 0]
        BY <4>2
      <4>4. NoGuessDoc \in GuessDocs \cup {NoGuessDoc} /\ 0 \in Nat
        OBVIOUS
      <4> QED
        BY <4>1, <4>3, <4>4 DEF GuessCall
    <3> HIDE DEF c
    <3>3. c.pc # "write" /\ c.at <= time
      BY <1>0, <3>2
    <3> QED
      BY <1>3, <2>1, <3>1, <3>2, <3>3
  <2> QED
    BY <2>2, <2>3
<1>11. ASSUME NEW g \in Guesses, Forgive(g)
       PROVE  BucketInv'
  <2> DEFINE rest == [guesses EXCEPT ![g] = NoGuess]
  <2>1. rest \in [Guesses -> GuessCall] /\ rest[g] = NoGuess
        /\ \A h \in Guesses \ {g} : rest[h] = guesses[h]
    BY <1>0, NoGuessTyped
  <2>2. \A h \in Guesses : Solvent(rest[h])
    BY <1>0, <2>1, NoGuessTyped DEF Solvent
  <2>3. DropBucket(rest)
    BY <1>11 DEF Forgive
  <2> HIDE DEF rest
  <2> QED
    BY <2>1, <2>2, <2>3, BucketDropped
<1>12. CASE UNCHANGED bucketVars
  BY <1>12 DEF bucketVars, BucketInv, BucketTypeOK, BucketCovers, BucketNotOverdrawn, Covers, Full, Cost,
     Holds, Solvent
<1> QED
  BY <1>1, <1>2, <1>6, <1>7, <1>8, <1>9, <1>10, <1>11, <1>12 DEF BucketNext

(* However many guesses run at once, and whatever resets and right guesses    *)
(* drop the bucket meanwhile, the guesses paid for in any span fit into a     *)
(* full bucket and its refill over the span (consume_guess).                  *)
THEOREM BucketNeverOverdrawn == BucketSpec => [](BucketTypeOK /\ BucketNotOverdrawn)
<1>1. BucketInit => BucketInv
  <2> SUFFICES ASSUME BucketInit PROVE BucketInv
    OBVIOUS
  <2>1. BucketTypeOK
    <3>1. 0 \in 0 .. BucketEnd /\ <<>> \in Seq(Nat) /\ 0 \in Nat
      BY BucketAssumption
    <3>2. guesses \in [Guesses -> GuessCall]
      BY NoGuessTyped DEF BucketInit
    <3> QED
      BY <3>1, <3>2 DEF BucketInit, BucketTypeOK
  <2>2. \A g \in Guesses : Solvent(guesses[g]) /\ Holds(guesses[g])
    BY NoGuessTyped DEF BucketInit, Solvent, Holds
  <2>3. DOMAIN <<>> = {}
    OBVIOUS
  <2> QED
    BY <2>1, <2>2, <2>3 DEF BucketInit, BucketInv, BucketCovers, BucketNotOverdrawn
<1>2. BucketInv /\ [BucketNext]_bucketVars => BucketInv'
  BY BucketStep
<1>3. BucketInv => BucketTypeOK /\ BucketNotOverdrawn
  BY DEF BucketInv, BucketNotOverdrawn
<1> QED
  BY <1>1, <1>2, <1>3, PTL DEF BucketSpec

-----------------------------------------------------------------------------
(* The budget.  A request that passed the gate may still be counted; the set  *)
(* Owing(1) holds those that may be counted once more, Owing(2) those that    *)
(* may be counted twice more.                                                 *)
Requesting == Cardinality(Payers)

Owing(k) == {p \in Payers : payers[p].pc # "idle" /\ payers[p].counts + k <= SmsPerCode}

SpendingCovered ==
    spent + Cardinality(Owing(1)) + Cardinality(Owing(2)) <= (budget - 1) + SmsPerCode * Requesting

(* Re-sends that passed the reserve and are not counted yet.                  *)
Resending == {p \in Payers : /\ payers[p].pc = "gateway" /\ payers[p].counts = 0
                             /\ payers[p].voter \subseteq served}

Waiting == Holders \ (served \cup PaidFor)

ReserveCovers ==
    (Conservation /\ ~fallback /\ FirstBudget >= Cardinality(Holders) /\ ~outdated) =>
        Left >= Cardinality(Waiting) + Cardinality(Resending) + (1 - Requesting)

AlertsArmed ==
    \A t \in Thresholds : /\ alerts[t] <= rearmed + 1
                          /\ t \notin fired => alerts[t] <= rearmed

(* A threshold that has been passed is in somebody's hands until it fires.    *)
ThresholdsInHand ==
    rearmed = 0 /\ ~toppingUp =>
        \A t \in Thresholds : 100 * Left <= t * budget =>
            t \in fired \/ \E p \in Payers : payers[p].pc = "alert" /\ t \in payers[p].todo

Requested(x) ==
    /\ x.pc = "idle" => x = NoPayer
    /\ x.pc # "idle" => \E v \in Holders : x.voter = {v}
    /\ x.pc = "reserve" => x.counts = 0 /\ x.voter \subseteq served
    /\ x.pc = "alert" => x.counts > 0

OneRequestEach == \A p, q \in Payers : p # q => payers[p].voter \cap payers[q].voter = {}

BudgetTyped == /\ BudgetTypeOK /\ budget >= FirstBudget
               /\ \A p \in Payers : Requested(payers[p])
               /\ OneRequestEach

BudgetInv == BudgetTyped /\ SpendingCovered /\ ReserveCovers /\ AlertsArmed /\ ThresholdsInHand

LEMMA SomePayers ==
    /\ \A S \in SUBSET Payers : IsFiniteSet(S) /\ Cardinality(S) \in Nat /\ Cardinality(S) <= Requesting
    /\ \A S \in SUBSET Holders : IsFiniteSet(S) /\ Cardinality(S) \in Nat
                                 /\ Cardinality(S) <= Cardinality(Holders)
    /\ Requesting \in Nat /\ Requesting > 0 /\ Cardinality(Holders) \in Nat
<1>1. IsFiniteSet(Payers) /\ Payers # {} /\ IsFiniteSet(Holders)
  BY BudgetAssumption
<1>2. \A S \in SUBSET Payers : IsFiniteSet(S) /\ Cardinality(S) \in Nat /\ Cardinality(S) <= Requesting
  BY <1>1, FS_Subset, FS_CardinalityType DEF Requesting
<1>3. \A S \in SUBSET Holders : IsFiniteSet(S) /\ Cardinality(S) \in Nat
                                 /\ Cardinality(S) <= Cardinality(Holders)
  BY <1>1, FS_Subset, FS_CardinalityType
<1>4. Requesting \in Nat /\ Requesting # 0 /\ Cardinality(Holders) \in Nat
  BY <1>1, FS_CardinalityType, FS_EmptySet DEF Requesting
<1> QED
  BY <1>2, <1>3, <1>4

LEMMA Fewer ==
    ASSUME NEW S, IsFiniteSet(S), NEW T \in SUBSET S
    PROVE  /\ Cardinality(T) <= Cardinality(S) /\ Cardinality(T) \in Nat /\ Cardinality(S) \in Nat
           /\ \A x \in S \ T : Cardinality(T) <= Cardinality(S) - 1
<1>1. Cardinality(T) <= Cardinality(S) /\ Cardinality(T) \in Nat /\ Cardinality(S) \in Nat
  BY FS_Subset, FS_CardinalityType
<1>2. ASSUME NEW x \in S \ T PROVE Cardinality(T) <= Cardinality(S) - 1
  <2>1. Cardinality(T) # Cardinality(S)
    BY <1>2, FS_Subset
  <2> QED
    BY <1>1, <2>1
<1> QED
  BY <1>1, <1>2

(* A payer that moves: what the others hold is what they held.                *)
LEMMA PayerMoves ==
    ASSUME BudgetInv, NEW p \in Payers, NEW x \in Payer, payers' = [payers EXCEPT ![p] = x]
    PROVE  /\ payers' \in [Payers -> Payer] /\ payers'[p] = x
           /\ \A q \in Payers \ {p} : payers'[q] = payers[q]
BY DEF BudgetInv, BudgetTyped, BudgetTypeOK

(* A request that may be counted no more often than before.                   *)
LEMMA OwingKept ==
    ASSUME BudgetInv, fallback' = fallback, NEW p \in Payers, NEW x \in Payer,
           payers' = [payers EXCEPT ![p] = x],
           x.pc = "idle" \/ (payers[p].pc # "idle" /\ x.counts >= payers[p].counts)
    PROVE  /\ Owing(1)' \subseteq Owing(1) /\ Owing(2)' \subseteq Owing(2)
           /\ Cardinality(Owing(1)') <= Cardinality(Owing(1)) /\ Cardinality(Owing(1)') \in Nat
           /\ Cardinality(Owing(2)') <= Cardinality(Owing(2)) /\ Cardinality(Owing(2)') \in Nat
           /\ Cardinality(Owing(1)) \in Nat /\ Cardinality(Owing(2)) \in Nat
<1>1. /\ payers' \in [Payers -> Payer] /\ payers'[p] = x
      /\ \A q \in Payers \ {p} : payers'[q] = payers[q]
  BY PayerMoves
<1>2. SmsPerCode' = SmsPerCode /\ SmsPerCode \in Int
  BY DEF SmsPerCode
<1>3. \A q \in Payers : payers[q].counts \in Nat /\ payers'[q].counts \in Nat
  BY <1>1 DEF BudgetInv, BudgetTyped, BudgetTypeOK, Payer
<1>4. Owing(1)' \subseteq Owing(1) /\ Owing(2)' \subseteq Owing(2)
  BY <1>1, <1>2, <1>3 DEF Owing
<1>5. Owing(1) \in SUBSET Payers /\ Owing(2) \in SUBSET Payers
  BY DEF Owing
<1> QED
  BY <1>4, <1>5, SomePayers, Fewer

LEMMA PaidForMembers ==
    \A v : v \in PaidFor <=> \E p \in Payers : payers[p].counts > 0 /\ v \in payers[p].voter
BY DEF PaidFor

(* A request of which nothing more is counted and that leaves served alone.   *)
LEMMA PaidForKept ==
    ASSUME BudgetInv, NEW p \in Payers, NEW x \in Payer, payers' = [payers EXCEPT ![p] = x],
           x.counts > 0 => x.voter = payers[p].voter, x.counts > 0 <=> payers[p].counts > 0
    PROVE  PaidFor' = PaidFor
<1>1. payers'[p] = x /\ \A q \in Payers \ {p} : payers'[q] = payers[q]
  BY PayerMoves
<1>2. \A v : v \in PaidFor' <=> \E q \in Payers : payers'[q].counts > 0 /\ v \in payers'[q].voter
  BY DEF PaidFor
<1>3. \A q \in Payers : payers'[q].counts > 0 <=> payers[q].counts > 0
  BY <1>1
<1>4. \A q \in Payers : payers[q].counts > 0 => payers'[q].voter = payers[q].voter
  BY <1>1
<1> QED
  BY <1>2, <1>3, <1>4, PaidForMembers

(* Nothing fires or is counted, and nothing that was in hand is let go.       *)
LEMMA AlertsKept ==
    ASSUME BudgetInv, UNCHANGED <<budget, spent, fired, alerts, rearmed, toppingUp>>,
           NEW p \in Payers, NEW x \in Payer, payers' = [payers EXCEPT ![p] = x],
           payers[p].pc = "alert" => payers[p].todo = {}
    PROVE  AlertsArmed' /\ ThresholdsInHand'
<1>1. payers'[p] = x /\ \A q \in Payers \ {p} : payers'[q] = payers[q]
  BY PayerMoves
<1>2. AlertsArmed'
  BY DEF BudgetInv, AlertsArmed
<1>3. ThresholdsInHand'
  <2>1. Left' = Left
    BY DEF Left
  <2>2. \A q \in Payers, t \in Thresholds :
          payers[q].pc = "alert" /\ t \in payers[q].todo => payers'[q] = payers[q]
    BY <1>1
  <2> QED
    BY <2>1, <2>2 DEF BudgetInv, ThresholdsInHand
<1> QED
  BY <1>2, <1>3

(* The types after a request moved.                                           *)
LEMMA TypedAfter ==
    ASSUME BudgetInv, UNCHANGED served, NEW p \in Payers, NEW x \in Payer,
           payers' = [payers EXCEPT ![p] = x], Requested(x), x.voter \subseteq payers[p].voter
    PROVE  /\ payers' \in [Payers -> Payer] /\ OneRequestEach'
           /\ \A q \in Payers : Requested(payers[q])'
<1>1. payers' \in [Payers -> Payer] /\ payers'[p] = x /\ \A q \in Payers \ {p} : payers'[q] = payers[q]
  BY PayerMoves
<1>2. OneRequestEach'
  BY <1>1 DEF BudgetInv, BudgetTyped, OneRequestEach
<1>3. \A q \in Payers : Requested(payers[q])'
  BY <1>1 DEF BudgetInv, BudgetTyped, Requested
<1> QED
  BY <1>1, <1>2, <1>3

LEMMA BudgetFacts ==
    ASSUME BudgetInv
    PROVE  /\ budget \in Nat /\ spent \in Nat /\ rearmed \in Nat /\ fallback \in BOOLEAN
           /\ payers \in [Payers -> Payer] /\ served \subseteq Holders /\ SmsPerCode \in 1 .. 2
           /\ Left \in Int /\ Left = budget - spent
           /\ Waiting \in SUBSET Holders /\ Resending \in SUBSET Payers
           /\ \A p \in Payers : payers[p] \in Payer /\ Requested(payers[p])
           /\ NoPayer \in Payer /\ NoPayer.pc = "idle" /\ NoPayer.counts = 0 /\ NoPayer.voter = {}
<1>1. NoPayer \in Payer /\ NoPayer.pc = "idle" /\ NoPayer.counts = 0 /\ NoPayer.voter = {}
  BY DEF NoPayer, Payer, Thresholds
<1> QED
  BY <1>1 DEF BudgetInv, BudgetTyped, BudgetTypeOK, SmsPerCode, Left, Waiting, Resending

(* A request that is not counted, raises no alert and lets no re-send pass:   *)
(* what is left of BudgetInv to show is its own shape.                        *)
LEMMA QuietRequest ==
    ASSUME BudgetInv, UNCHANGED <<fallback, budget, spent, fired, alerts, rearmed, toppingUp, served, outdated>>,
           NEW p \in Payers, NEW x \in Payer, payers' = [payers EXCEPT ![p] = x],
           Requested(x), x.voter \subseteq payers[p].voter,
           x.pc = "idle" \/ (payers[p].pc # "idle" /\ x.counts >= payers[p].counts),
           x.counts > 0 => x.voter = payers[p].voter, x.counts > 0 <=> payers[p].counts > 0,
           payers[p].pc = "alert" => payers[p].todo = {},
           x.pc = "gateway" => x.counts > 0
    PROVE  BudgetInv'
<1>1. BudgetTyped'
  BY TypedAfter DEF BudgetInv, BudgetTyped, BudgetTypeOK
<1>2. SpendingCovered'
  <2>1. /\ Cardinality(Owing(1)') <= Cardinality(Owing(1)) /\ Cardinality(Owing(1)') \in Nat
        /\ Cardinality(Owing(2)') <= Cardinality(Owing(2)) /\ Cardinality(Owing(2)') \in Nat
        /\ Cardinality(Owing(1)) \in Nat /\ Cardinality(Owing(2)) \in Nat
    BY OwingKept
  <2>2. /\ spent + Cardinality(Owing(1)) + Cardinality(Owing(2)) <= (budget - 1) + SmsPerCode * Requesting
        /\ SmsPerCode' = SmsPerCode
    BY DEF BudgetInv, SpendingCovered, SmsPerCode
  <2>3. PICK m \in Int : m = SmsPerCode * Requesting
    BY BudgetFacts, SomePayers
  <2>4. spent + Cardinality(Owing(1)') + Cardinality(Owing(2)') <= (budget - 1) + m
    BY <2>1, <2>2, <2>3, BudgetFacts
  <2> QED
    BY <2>2, <2>3, <2>4 DEF SpendingCovered, Requesting
<1>3. ReserveCovers'
  <2>1. PaidFor' = PaidFor /\ Waiting' = Waiting /\ Left' = Left
    BY PaidForKept DEF Waiting, Left
  <2>2. Resending' \subseteq Resending
    <3>1. payers'[p] = x /\ \A q \in Payers \ {p} : payers'[q] = payers[q]
      BY PayerMoves
    <3>2. p \notin Resending'
      BY <3>1, BudgetFacts DEF Resending, Payer
    <3> QED
      BY <3>1, <3>2 DEF Resending
  <2>3. Cardinality(Resending') <= Cardinality(Resending) /\ Cardinality(Resending') \in Nat
        /\ Cardinality(Resending) \in Nat /\ Cardinality(Waiting) \in Nat
    BY <2>2, SomePayers, BudgetFacts, Fewer
  <2>4. Requesting' = Requesting /\ Requesting \in Nat
    BY SomePayers DEF Requesting
  <2> QED
    BY <2>1, <2>3, <2>4, BudgetFacts DEF BudgetInv, ReserveCovers
<1>4. AlertsArmed' /\ ThresholdsInHand'
  BY AlertsKept
<1> QED
  BY <1>1, <1>2, <1>3, <1>4 DEF BudgetInv

LEMMA QuittingStep ==
    ASSUME BudgetInv, UNCHANGED <<fallback, budget, spent, fired, alerts, rearmed, toppingUp, served, outdated>>,
           NEW p \in Payers, Quit(p), payers[p].pc # "alert", payers[p].counts = 0
    PROVE  BudgetInv'
<1>1. NoPayer \in Payer /\ NoPayer.pc = "idle" /\ NoPayer.counts = 0 /\ NoPayer.voter = {}
  BY BudgetFacts
<1>2. Requested(NoPayer) /\ ~(NoPayer.counts > 0)
  BY <1>1 DEF Requested
<1>3. payers' = [payers EXCEPT ![p] = NoPayer] /\ ~(payers[p].counts > 0)
  BY DEF Quit
<1> QED
  BY <1>1, <1>2, <1>3, QuietRequest

LEMMA CountedStep ==
    ASSUME BudgetInv, NEW p \in Payers, Counted(p)
    PROVE  BudgetInv'
<1> DEFINE x == [payers[p] EXCEPT !.pc = "gateway"]
<1>1. payers[p] \in Payer /\ Requested(payers[p]) /\ payers[p].pc = "alert" /\ payers[p].todo = {}
  BY BudgetFacts DEF Counted
<1>2. /\ x \in Payer /\ x.pc = "gateway" /\ x.counts = payers[p].counts /\ x.voter = payers[p].voter
      /\ x.counts > 0 /\ x.counts \in Nat
  BY <1>1 DEF Payer, Requested
<1>3. payers' = [payers EXCEPT ![p] = x]
  BY DEF Counted
<1> HIDE DEF x
<1>4. Requested(x)
  BY <1>1, <1>2 DEF Requested
<1>5. x.counts >= payers[p].counts /\ payers[p].counts > 0
  BY <1>2
<1> QED
  BY <1>1, <1>2, <1>3, <1>4, <1>5, QuietRequest DEF Counted

LEMMA PassGateStep ==
    ASSUME BudgetInv, NEW p \in Payers, NEW v \in Holders, PassGate(p, v)
    PROVE  BudgetInv'
<1> DEFINE pc == IF Conservation /\ v \in served THEN "reserve" ELSE "gateway"
           x  == [payers[p] EXCEPT !.voter = {v}, !.left = Left, !.pc = pc]
<1>0. UNCHANGED <<fallback, budget, spent, fired, alerts, rearmed, toppingUp, served, outdated>>
      /\ Left > 0 /\ payers[p] = NoPayer /\ \A q \in Payers : v \notin payers[q].voter
  BY BudgetFacts DEF PassGate, HasBudget, Requested
<1>1. /\ x \in Payer /\ x.pc = pc /\ x.counts = 0 /\ x.voter = {v} /\ x.pc # "idle" /\ x.pc # "alert"
      /\ payers' = [payers EXCEPT ![p] = x] /\ payers[p].pc = "idle" /\ payers[p].counts = 0
  <2>1. payers[p] \in Payer /\ Left \in Int /\ payers[p].counts = 0
    BY <1>0, BudgetFacts
  <2>2. pc \in {"reserve", "gateway"}
    OBVIOUS
  <2>3. payers' = [payers EXCEPT ![p] = x]
    BY <2>1 DEF PassGate
  <2> HIDE DEF pc
  <2>4. x \in Payer /\ x.pc = pc /\ x.counts = 0 /\ x.voter = {v}
    BY <2>1, <2>2 DEF Payer
  <2> QED
    BY <1>0, <2>2, <2>3, <2>4, BudgetFacts
<1>2. Requested(x)
  BY <1>1 DEF Requested
<1>3. (x.pc = "gateway" /\ Conservation => v \notin served)
  BY <1>1
<1> HIDE DEF x, pc
<1>4. /\ payers' \in [Payers -> Payer] /\ payers'[p] = x
      /\ \A q \in Payers \ {p} : payers'[q] = payers[q]
  BY <1>1, PayerMoves
<1>5. BudgetTyped'
  <2>1. OneRequestEach'
    BY <1>0, <1>1, <1>4 DEF BudgetInv, BudgetTyped, OneRequestEach
  <2>2. \A q \in Payers : Requested(payers[q])'
    BY <1>0, <1>2, <1>4 DEF BudgetInv, BudgetTyped, Requested
  <2> QED
    BY <1>0, <1>4, <2>1, <2>2 DEF BudgetInv, BudgetTyped, BudgetTypeOK
<1>6. SpendingCovered'
  <2>1. Owing(1)' \in SUBSET Payers /\ Owing(2)' \in SUBSET Payers
    BY DEF Owing
  <2>2. Cardinality(Owing(1)') \in Nat /\ Cardinality(Owing(2)') \in Nat
        /\ Cardinality(Owing(1)') <= Requesting /\ Cardinality(Owing(2)') <= Requesting
    BY <2>1, SomePayers
  <2>3. spent <= budget - 1 /\ Requesting \in Nat
    BY <1>0, BudgetFacts, SomePayers
  <2>4. CASE fallback
    <3>1. SmsPerCode' = 2
      BY <1>0, <2>4 DEF SmsPerCode
    <3> QED
      BY <1>0, <2>2, <2>3, <3>1, BudgetFacts DEF SpendingCovered, Requesting
  <2>5. CASE ~fallback
    <3>1. SmsPerCode' = 1
      BY <1>0, <2>5 DEF SmsPerCode
    <3>2. \A q \in Payers : payers'[q].counts \in Nat
      BY <1>4 DEF Payer
    <3>3. Owing(2)' = {}
      BY <3>1, <3>2 DEF Owing
    <3>4. Cardinality(Owing(2)') = 0
      BY <3>3, FS_EmptySet
    <3> QED
      BY <1>0, <2>2, <2>3, <3>1, <3>4, BudgetFacts DEF SpendingCovered, Requesting
  <2> QED
    BY <2>4, <2>5
<1>7. ReserveCovers'
  <2>1. SUFFICES ASSUME Conservation PROVE ReserveCovers'
    BY DEF ReserveCovers
  <2>2. ~(x.counts > 0) /\ ~(payers[p].counts > 0)
    BY <1>1
  <2>3. PaidFor' = PaidFor
    BY <1>1, <2>2, PaidForKept
  <2>4. Waiting' = Waiting /\ Left' = Left
    BY <1>0, <2>3 DEF Waiting, Left
  <2>5. Resending' = Resending
    BY <1>0, <1>1, <1>3, <1>4, <2>1 DEF Resending
  <2> QED
    BY <1>0, <2>4, <2>5 DEF BudgetInv, ReserveCovers, Requesting
<1>8. AlertsArmed' /\ ThresholdsInHand'
  BY <1>0, <1>1, AlertsKept
<1> QED
  BY <1>5, <1>6, <1>7, <1>8 DEF BudgetInv

LEMMA CheckReserveStep ==
    ASSUME BudgetInv, NEW p \in Payers, CheckReserve(p)
    PROVE  BudgetInv'
<1>0. UNCHANGED <<fallback, budget, spent, fired, alerts, rearmed, toppingUp, served>>
      /\ payers[p].pc = "reserve" /\ payers[p] \in Payer /\ Requested(payers[p])
      /\ payers[p].counts = 0 /\ payers[p].voter \subseteq served
  BY BudgetFacts DEF CheckReserve, Requested
<1>1. CASE ReserveLow(payers[p].left)
  BY <1>0, <1>1, QuittingStep DEF CheckReserve
<1>2. CASE ~ReserveLow(payers[p].left)
  <2> DEFINE x == [payers[p] EXCEPT !.pc = "gateway"]
  <2>1. payers' = [payers EXCEPT ![p] = x] /\ outdated' = (outdated \/ ReserveLow(Left))
    BY <1>2 DEF CheckReserve
  <2>2. x \in Payer /\ x.pc = "gateway" /\ x.counts = 0 /\ x.voter = payers[p].voter
    BY <1>0 DEF Payer
  <2> HIDE DEF x
  <2>3. Requested(x)
    BY <1>0, <2>2 DEF Requested
  <2>4. payers'[p] = x /\ \A q \in Payers \ {p} : payers'[q] = payers[q]
    BY <2>1, <2>2, PayerMoves
  <2>5. BudgetTyped'
    <3>1. outdated' \in BOOLEAN
      BY <2>1
    <3>2. payers' \in [Payers -> Payer] /\ OneRequestEach' /\ \A q \in Payers : Requested(payers[q])'
      BY <1>0, <2>1, <2>2, <2>3, TypedAfter
    <3> QED
      BY <1>0, <3>1, <3>2 DEF BudgetInv, BudgetTyped, BudgetTypeOK
  <2>6. SpendingCovered'
    <3>0. x.counts >= payers[p].counts /\ payers[p].pc # "idle"
      BY <1>0, <2>2
    <3>1. /\ Cardinality(Owing(1)') <= Cardinality(Owing(1)) /\ Cardinality(Owing(1)') \in Nat
          /\ Cardinality(Owing(2)') <= Cardinality(Owing(2)) /\ Cardinality(Owing(2)') \in Nat
          /\ Cardinality(Owing(1)) \in Nat /\ Cardinality(Owing(2)) \in Nat
      BY <1>0, <2>1, <2>2, <3>0, OwingKept
    <3>2. /\ spent + Cardinality(Owing(1)) + Cardinality(Owing(2)) <= (budget - 1) + SmsPerCode * Requesting
          /\ SmsPerCode' = SmsPerCode
      BY <1>0 DEF BudgetInv, SpendingCovered, SmsPerCode
    <3>3. PICK m \in Int : m = SmsPerCode * Requesting
      BY BudgetFacts, SomePayers
    <3>4. spent + Cardinality(Owing(1)') + Cardinality(Owing(2)') <= (budget - 1) + m
      BY <3>1, <3>2, <3>3, BudgetFacts
    <3> QED
      BY <1>0, <3>2, <3>3, <3>4 DEF SpendingCovered, Requesting
  <2>7. ReserveCovers'
    <3>1. SUFFICES ASSUME ~outdated' PROVE ReserveCovers'
      BY DEF ReserveCovers
    <3>2. 5 * Left > 6 * NeverServed
      <4>1. ~ReserveLow(Left)
        BY <2>1, <3>1
      <4>2. Holders \ served \in SUBSET Holders
        OBVIOUS
      <4>3. NeverServed \in Nat
        BY <4>2, SomePayers DEF NeverServed
      <4> QED
        BY <4>1, <4>3, BudgetFacts DEF ReserveLow
    <3>3. ~(x.counts > 0) /\ ~(payers[p].counts > 0)
      BY <1>0, <2>2
    <3>4. PaidFor' = PaidFor
      BY <2>1, <2>2, <3>3, PaidForKept
    <3>5. Waiting' = Waiting /\ Left' = Left
      BY <1>0, <3>4 DEF Waiting, Left
    <3>6. Cardinality(Waiting) <= NeverServed /\ Cardinality(Waiting) \in Nat /\ NeverServed \in Nat
      <4>1. Holders \ served \in SUBSET Holders /\ Waiting \in SUBSET (Holders \ served)
        BY DEF Waiting
      <4> QED
        BY <4>1, SomePayers, Fewer DEF NeverServed
    <3>7. Left >= Cardinality(Waiting) + 1
      BY <3>2, <3>6, BudgetFacts
    <3>8. Resending' \in SUBSET Payers
      BY DEF Resending
    <3>9. Cardinality(Resending') \in Nat /\ Cardinality(Resending') <= Requesting /\ Requesting \in Nat
      BY <3>8, SomePayers
    <3>10. Left >= Cardinality(Waiting) + Cardinality(Resending') + (1 - Requesting)
      BY <3>6, <3>7, <3>9, BudgetFacts
    <3> QED
      BY <3>5, <3>10 DEF ReserveCovers, Requesting
  <2>8. AlertsArmed' /\ ThresholdsInHand'
    BY <1>0, <2>1, <2>2, AlertsKept
  <2> QED
    BY <2>5, <2>6, <2>7, <2>8 DEF BudgetInv
<1> QED
  BY <1>1, <1>2

LEMMA CountSmsStep ==
    ASSUME BudgetInv, NEW p \in Payers, CountSms(p)
    PROVE  BudgetInv'
<1> DEFINE x == [payers[p] EXCEPT !.pc = "alert", !.spent = spent + 1,
                                  !.counts = payers[p].counts + 1, !.todo = Due(spent + 1)]
<1>0. /\ UNCHANGED <<fallback, budget, fired, alerts, rearmed, toppingUp, served, outdated>>
      /\ spent' = spent + 1 /\ payers[p].pc = "gateway" /\ payers[p].counts < SmsPerCode
      /\ payers[p] \in Payer /\ Requested(payers[p]) /\ payers[p].counts \in Nat
      /\ budget \in Nat /\ spent \in Nat /\ SmsPerCode \in 1 .. 2
  BY BudgetFacts DEF CountSms, Payer
<1>1. payers' = [payers EXCEPT ![p] = x]
  BY DEF CountSms
<1>2. PICK n \in 0 .. 2 : n = payers[p].counts + 1
  BY <1>0
<1>3. PICK due \in SUBSET Thresholds : due = Due(spent + 1)
  BY DEF Due
<1>4. x \in Payer /\ x.pc = "alert" /\ x.counts = n /\ x.voter = payers[p].voter /\ x.todo = due
  <2>1. PICK m \in Nat : m = spent + 1
    BY <1>0
  <2> DEFINE y == [payers[p] EXCEPT !.pc = "alert", !.spent = m, !.counts = n, !.todo = due]
  <2>2. x = y
    BY <1>2, <1>3, <2>1
  <2>3. y \in Payer /\ y.pc = "alert" /\ y.counts = n /\ y.voter = payers[p].voter /\ y.todo = due
    BY <1>0, <1>2, <1>3, <2>1 DEF Payer
  <2> HIDE DEF x, y
  <2> QED
    BY <2>2, <2>3
<1> HIDE DEF x
<1>5. payers'[p] = x /\ \A q \in Payers \ {p} : payers'[q] = payers[q]
  BY <1>1, <1>4, PayerMoves
<1>6. n > 0 /\ n = payers[p].counts + 1
  BY <1>0, <1>2
<1>7. BudgetTyped'
  <2>1. Requested(x)
    BY <1>0, <1>4, <1>6 DEF Requested
  <2>2. payers' \in [Payers -> Payer] /\ OneRequestEach' /\ \A q \in Payers : Requested(payers[q])'
    BY <1>0, <1>1, <1>4, <2>1, TypedAfter
  <2> QED
    BY <1>0, <2>2 DEF BudgetInv, BudgetTyped, BudgetTypeOK
<1>8. SpendingCovered'
  <2>0. x.counts >= payers[p].counts /\ payers[p].pc # "idle"
    BY <1>0, <1>4, <1>6
  <2>1. /\ Owing(1)' \subseteq Owing(1) /\ Owing(2)' \subseteq Owing(2)
        /\ Cardinality(Owing(1)') <= Cardinality(Owing(1)) /\ Cardinality(Owing(1)') \in Nat
        /\ Cardinality(Owing(2)') <= Cardinality(Owing(2)) /\ Cardinality(Owing(2)') \in Nat
        /\ Cardinality(Owing(1)) \in Nat /\ Cardinality(Owing(2)) \in Nat
    BY <1>0, <1>1, <1>4, <2>0, OwingKept
  <2>2. SmsPerCode' = SmsPerCode
    BY <1>0 DEF SmsPerCode
  <2>3. \/ p \in Owing(1) \ Owing(1)'
        \/ p \in Owing(2) \ Owing(2)'
    <3>1. CASE payers[p].counts + 2 <= SmsPerCode
      <4>1. p \in Owing(2)
        BY <1>0, <3>1 DEF Owing
      <4>2. ~(n + 2 <= SmsPerCode)
        BY <1>0, <1>6
      <4>3. p \notin Owing(2)'
        BY <1>4, <1>5, <2>2, <4>2 DEF Owing
      <4> QED
        BY <4>1, <4>3
    <3>2. CASE ~(payers[p].counts + 2 <= SmsPerCode)
      <4>1. payers[p].counts + 1 <= SmsPerCode /\ ~(n + 1 <= SmsPerCode)
        BY <1>0, <1>6, <3>2
      <4>2. p \in Owing(1)
        BY <1>0, <4>1 DEF Owing
      <4>3. p \notin Owing(1)'
        BY <1>4, <1>5, <2>2, <4>1 DEF Owing
      <4> QED
        BY <4>2, <4>3
    <3> QED
      BY <3>1, <3>2
  <2>4. Owing(1) \in SUBSET Payers /\ Owing(2) \in SUBSET Payers
    BY DEF Owing
  <2>5. \/ Cardinality(Owing(1)') <= Cardinality(Owing(1)) - 1
        \/ Cardinality(Owing(2)') <= Cardinality(Owing(2)) - 1
    <3>1. IsFiniteSet(Owing(1)) /\ IsFiniteSet(Owing(2))
      BY <2>4, SomePayers
    <3> QED
      BY <2>1, <2>3, <3>1, Fewer
  <2>6. PICK m \in Int : m = SmsPerCode * Requesting
    BY BudgetFacts, SomePayers
  <2>7. spent + Cardinality(Owing(1)) + Cardinality(Owing(2)) <= (budget - 1) + m
    BY <2>6 DEF BudgetInv, SpendingCovered
  <2>8. (spent + 1) + Cardinality(Owing(1)') + Cardinality(Owing(2)') <= (budget - 1) + m
    BY <1>0, <2>1, <2>5, <2>7
  <2> QED
    BY <1>0, <2>2, <2>6, <2>8 DEF SpendingCovered, Requesting
<1>9. ReserveCovers'
  <2>1. SUFFICES ASSUME Conservation, ~fallback, FirstBudget >= Cardinality(Holders), ~outdated
                 PROVE  Left' >= Cardinality(Waiting') + Cardinality(Resending') + (1 - Requesting)
    BY <1>0 DEF ReserveCovers, Requesting
  <2>2. payers[p].counts = 0 /\ n = 1
    BY <1>0, <1>6, <2>1 DEF SmsPerCode
  <2>3. Left >= Cardinality(Waiting) + Cardinality(Resending) + (1 - Requesting)
    BY <2>1 DEF BudgetInv, ReserveCovers
  <2>4. Left' = Left - 1 /\ Left \in Int
    BY <1>0 DEF Left
  <2>5. PICK v \in Holders : payers[p].voter = {v}
    BY <1>0 DEF Requested
  <2>6. \A u : u \in PaidFor' <=> u \in PaidFor \/ u = v
    <3>1. \A u : u \in PaidFor' <=> \E q \in Payers : payers'[q].counts > 0 /\ u \in payers'[q].voter
      BY DEF PaidFor
    <3>2. payers'[p].counts > 0 /\ payers'[p].voter = {v} /\ ~(payers[p].counts > 0)
      BY <1>4, <1>5, <1>6, <2>2, <2>5
    <3> QED
      BY <1>5, <3>1, <3>2, PaidForMembers
  <2>7. Waiting' = Waiting \ {v}
    BY <1>0, <2>6 DEF Waiting
  <2>8. Resending' = Resending \ {p}
    BY <1>0, <1>4, <1>5 DEF Resending
  <2>9. IsFiniteSet(Waiting) /\ IsFiniteSet(Resending) /\ Cardinality(Waiting) \in Nat
        /\ Cardinality(Resending) \in Nat /\ Requesting \in Nat
    BY SomePayers, BudgetFacts
  <2>10. Cardinality(Waiting \ {v}) = (IF v \in Waiting THEN Cardinality(Waiting) - 1 ELSE Cardinality(Waiting))
         /\ Cardinality(Resending \ {p})
              = (IF p \in Resending THEN Cardinality(Resending) - 1 ELSE Cardinality(Resending))
    BY <2>9, FS_RemoveElement
  <2>11. v \in Waiting \/ p \in Resending
    <3>1. CASE v \in served
      BY <1>0, <2>2, <2>5, <3>1 DEF Resending
    <3>2. CASE v \notin served
      <4>1. v \notin PaidFor
        <5>1. ASSUME NEW q \in Payers, payers[q].counts > 0, v \in payers[q].voter PROVE FALSE
          <6>1. q # p
            BY <2>2, <5>1
          <6> QED
            BY <2>5, <5>1, <6>1 DEF BudgetInv, BudgetTyped, OneRequestEach
        <5> QED
          BY <5>1, PaidForMembers
      <4> QED
        BY <3>2, <4>1 DEF Waiting
    <3> QED
      BY <3>1, <3>2
  <2>12. Cardinality(Waiting \ {v}) + Cardinality(Resending \ {p})
           <= Cardinality(Waiting) + Cardinality(Resending) - 1
         /\ Cardinality(Waiting \ {v}) \in Int /\ Cardinality(Resending \ {p}) \in Int
    BY <2>9, <2>10, <2>11
  <2> QED
    BY <2>3, <2>4, <2>7, <2>8, <2>9, <2>12
<1>10. AlertsArmed'
  BY <1>0 DEF BudgetInv, AlertsArmed
<1>11. ThresholdsInHand'
  <2>1. SUFFICES ASSUME rearmed = 0, ~toppingUp, NEW t \in Thresholds, 100 * (budget - (spent + 1)) <= t * budget,
                        t \notin fired
                 PROVE  \E q \in Payers : payers'[q].pc = "alert" /\ t \in payers'[q].todo
    BY <1>0 DEF ThresholdsInHand, Left
  <2>2. t \in due
    BY <1>3, <2>1 DEF Due
  <2> QED
    BY <1>4, <1>5, <2>2
<1> QED
  BY <1>7, <1>8, <1>9, <1>10, <1>11 DEF BudgetInv

LEMMA RaiseAlertStep ==
    ASSUME BudgetInv, NEW p \in Payers, RaiseAlert(p)
    PROVE  BudgetInv'
<1>0. /\ UNCHANGED <<fallback, budget, spent, rearmed, toppingUp, served, outdated>>
      /\ payers[p].pc = "alert" /\ payers[p] \in Payer /\ Requested(payers[p])
      /\ alerts \in [Thresholds -> Nat] /\ fired \subseteq Thresholds /\ rearmed \in Nat
  BY BudgetFacts DEF RaiseAlert, BudgetInv, BudgetTyped, BudgetTypeOK
<1>1. PICK t \in payers[p].todo : Alert(t) /\ payers' = [payers EXCEPT ![p].todo = payers[p].todo \ {t}]
  BY DEF RaiseAlert
<1> DEFINE x == [payers[p] EXCEPT !.todo = payers[p].todo \ {t}]
<1>2. payers' = [payers EXCEPT ![p] = x]
  BY <1>1
<1>3. /\ x \in Payer /\ x.pc = "alert" /\ x.counts = payers[p].counts /\ x.voter = payers[p].voter
      /\ x.todo = payers[p].todo \ {t} /\ t \in Thresholds /\ x.counts \in Nat
  BY <1>0, <1>1 DEF Payer
<1> HIDE DEF x
<1>4. payers'[p] = x /\ \A q \in Payers \ {p} : payers'[q] = payers[q]
  BY <1>2, <1>3, PayerMoves
<1>5. /\ fired' = fired \cup {t} /\ alerts' \in [Thresholds -> Nat]
      /\ \A u \in Thresholds : alerts'[u] = IF u = t /\ t \notin fired THEN alerts[u] + 1 ELSE alerts[u]
  <2>1. CASE t \in fired
    BY <1>0, <1>1, <2>1 DEF Alert
  <2>2. CASE t \notin fired
    BY <1>0, <1>1, <1>3, <2>2 DEF Alert
  <2> QED
    BY <2>1, <2>2
<1>6. BudgetTyped'
  <2>1. Requested(x)
    BY <1>0, <1>3 DEF Requested
  <2>2. payers' \in [Payers -> Payer] /\ OneRequestEach' /\ \A q \in Payers : Requested(payers[q])'
    BY <1>0, <1>2, <1>3, <2>1, TypedAfter
  <2> QED
    BY <1>0, <1>3, <1>5, <2>2 DEF BudgetInv, BudgetTyped, BudgetTypeOK
<1>7. SpendingCovered'
  <2>0. x.counts >= payers[p].counts /\ payers[p].pc # "idle"
    BY <1>0, <1>3
  <2>1. /\ Cardinality(Owing(1)') <= Cardinality(Owing(1)) /\ Cardinality(Owing(1)') \in Nat
        /\ Cardinality(Owing(2)') <= Cardinality(Owing(2)) /\ Cardinality(Owing(2)') \in Nat
        /\ Cardinality(Owing(1)) \in Nat /\ Cardinality(Owing(2)) \in Nat
    BY <1>0, <1>2, <1>3, <2>0, OwingKept
  <2>2. /\ spent + Cardinality(Owing(1)) + Cardinality(Owing(2)) <= (budget - 1) + SmsPerCode * Requesting
        /\ SmsPerCode' = SmsPerCode
    BY <1>0 DEF BudgetInv, SpendingCovered, SmsPerCode
  <2>3. PICK m \in Int : m = SmsPerCode * Requesting
    BY BudgetFacts, SomePayers
  <2>4. spent + Cardinality(Owing(1)') + Cardinality(Owing(2)') <= (budget - 1) + m
    BY <2>1, <2>2, <2>3, BudgetFacts
  <2> QED
    BY <1>0, <2>2, <2>3, <2>4 DEF SpendingCovered, Requesting
<1>8. ReserveCovers'
  <2>1. PaidFor' = PaidFor
    BY <1>2, <1>3, PaidForKept
  <2>2. Waiting' = Waiting /\ Left' = Left /\ Resending' = Resending
    BY <1>0, <1>3, <1>4, <2>1 DEF Waiting, Left, Resending
  <2> QED
    BY <1>0, <2>2 DEF BudgetInv, ReserveCovers, Requesting
<1>9. AlertsArmed'
  <2>1. \A u \in Thresholds : alerts[u] \in Nat /\ alerts[u] <= rearmed + 1
                              /\ (u \notin fired => alerts[u] <= rearmed)
    BY <1>0 DEF BudgetInv, AlertsArmed
  <2> QED
    BY <1>0, <1>5, <2>1 DEF AlertsArmed
<1>10. ThresholdsInHand'
  <2>1. Left' = Left
    BY <1>0 DEF Left
  <2>2. \A q \in Payers, u \in Thresholds :
          payers[q].pc = "alert" /\ u \in payers[q].todo => u = t \/ (payers'[q].pc = "alert" /\ u \in payers'[q].todo)
    BY <1>3, <1>4
  <2> QED
    BY <1>0, <1>5, <2>1, <2>2 DEF BudgetInv, ThresholdsInHand
<1> QED
  BY <1>6, <1>7, <1>8, <1>9, <1>10 DEF BudgetInv

(* The voter is served.  What was paid for is now had: nobody starts or stops *)
(* waiting, and at most more re-sends than before become first sends.         *)
LEMMA ServedStep ==
    ASSUME BudgetInv, NEW p \in Payers, Served(p)
    PROVE  BudgetInv'
<1>0. /\ UNCHANGED <<fallback, budget, spent, fired, alerts, rearmed, toppingUp, outdated>>
      /\ payers[p].pc = "gateway" /\ payers[p].counts > 0 /\ served' = served \cup payers[p].voter
      /\ payers' = [payers EXCEPT ![p] = NoPayer]
      /\ payers[p] \in Payer /\ Requested(payers[p])
      /\ NoPayer \in Payer /\ NoPayer.pc = "idle" /\ NoPayer.counts = 0 /\ NoPayer.voter = {}
  BY BudgetFacts DEF Served, Quit
<1>1. /\ payers' \in [Payers -> Payer] /\ payers'[p] = NoPayer
      /\ \A q \in Payers \ {p} : payers'[q] = payers[q]
  BY <1>0, PayerMoves
<1>2. PICK v \in Holders : payers[p].voter = {v}
  BY <1>0 DEF Requested
<1>3. \A q \in Payers \ {p} : v \notin payers[q].voter
  BY <1>2 DEF BudgetInv, BudgetTyped, OneRequestEach
<1>4. \A q \in Payers \ {p} : payers[q] \in Payer /\ Requested(payers[q])
  BY BudgetFacts
<1>5. BudgetTyped'
  <2>1. OneRequestEach'
    BY <1>0, <1>1 DEF BudgetInv, BudgetTyped, OneRequestEach
  <2>2. \A q \in Payers : Requested(payers[q])'
    BY <1>0, <1>1, <1>4 DEF Requested
  <2>3. served' \subseteq Holders
    BY <1>0, <1>2, BudgetFacts
  <2> QED
    BY <1>0, <1>1, <2>1, <2>2, <2>3 DEF BudgetInv, BudgetTyped, BudgetTypeOK
<1>6. SpendingCovered'
  <2>1. /\ Cardinality(Owing(1)') <= Cardinality(Owing(1)) /\ Cardinality(Owing(1)') \in Nat
        /\ Cardinality(Owing(2)') <= Cardinality(Owing(2)) /\ Cardinality(Owing(2)') \in Nat
        /\ Cardinality(Owing(1)) \in Nat /\ Cardinality(Owing(2)) \in Nat
    BY <1>0, OwingKept
  <2>2. /\ spent + Cardinality(Owing(1)) + Cardinality(Owing(2)) <= (budget - 1) + SmsPerCode * Requesting
        /\ SmsPerCode' = SmsPerCode
    BY <1>0 DEF BudgetInv, SpendingCovered, SmsPerCode
  <2>3. PICK m \in Int : m = SmsPerCode * Requesting
    BY BudgetFacts, SomePayers
  <2>4. spent + Cardinality(Owing(1)') + Cardinality(Owing(2)') <= (budget - 1) + m
    BY <2>1, <2>2, <2>3, BudgetFacts
  <2> QED
    BY <1>0, <2>2, <2>3, <2>4 DEF SpendingCovered, Requesting
<1>7. ReserveCovers'
  <2>1. \A u : u \in PaidFor' <=> u \in PaidFor /\ u # v
    <3>1. \A u : u \in PaidFor' <=> \E q \in Payers : payers'[q].counts > 0 /\ u \in payers'[q].voter
      BY DEF PaidFor
    <3> QED
      BY <1>0, <1>1, <1>2, <1>3, <3>1, PaidForMembers
  <2>2. v \in PaidFor
    BY <1>0, <1>2, PaidForMembers
  <2>3. Waiting' = Waiting
    BY <1>0, <1>2, <2>1, <2>2 DEF Waiting
  <2>4. Resending' = Resending
    <3>1. p \notin Resending /\ p \notin Resending'
      BY <1>0, <1>1 DEF Resending
    <3>2. ASSUME NEW q \in Payers \ {p} PROVE q \in Resending' <=> q \in Resending
      BY <1>0, <1>1, <1>2, <1>3 DEF Resending
    <3> QED
      BY <3>1, <3>2 DEF Resending
  <2>5. Left' = Left
    BY <1>0 DEF Left
  <2> QED
    BY <1>0, <2>3, <2>4, <2>5 DEF BudgetInv, ReserveCovers, Requesting
<1>8. AlertsArmed' /\ ThresholdsInHand'
  BY <1>0, AlertsKept
<1> QED
  BY <1>5, <1>6, <1>7, <1>8 DEF BudgetInv

(* A top-up.  Until the alerts are re-armed nothing is said of the thresholds. *)
LEMMA SaveBudgetStep ==
    ASSUME BudgetInv, SaveBudget
    PROVE  BudgetInv'
<1>0. /\ UNCHANGED <<fallback, spent, fired, alerts, rearmed, served, payers, outdated>>
      /\ budget' = budget + TopUp /\ toppingUp' = TRUE
      /\ TopUp \in Nat /\ FirstBudget \in Nat /\ budget \in Nat /\ spent \in Nat
  BY BudgetFacts, BudgetAssumption DEF SaveBudget
<1>1. BudgetTyped'
  <2>1. budget' \in Nat /\ budget' >= FirstBudget
    BY <1>0 DEF BudgetInv, BudgetTyped
  <2> QED
    BY <1>0, <2>1 DEF BudgetInv, BudgetTyped, BudgetTypeOK, OneRequestEach, Requested
<1>2. SpendingCovered'
  <2>1. Owing(1)' = Owing(1) /\ Owing(2)' = Owing(2) /\ SmsPerCode' = SmsPerCode
    BY <1>0 DEF Owing, SmsPerCode
  <2>2. Owing(1) \in SUBSET Payers /\ Owing(2) \in SUBSET Payers
    BY DEF Owing
  <2>3. Cardinality(Owing(1)) \in Nat /\ Cardinality(Owing(2)) \in Nat
    BY <2>2, SomePayers
  <2>4. PICK m \in Int : m = SmsPerCode * Requesting
    BY BudgetFacts, SomePayers
  <2>5. spent + Cardinality(Owing(1)) + Cardinality(Owing(2)) <= (budget - 1) + m
    BY <2>4 DEF BudgetInv, SpendingCovered
  <2>6. spent + Cardinality(Owing(1)) + Cardinality(Owing(2)) <= ((budget + TopUp) - 1) + m
    BY <1>0, <2>3, <2>5
  <2> QED
    BY <1>0, <2>1, <2>4, <2>6 DEF SpendingCovered, Requesting
<1>3. ReserveCovers'
  <2>1. Waiting' = Waiting /\ Resending' = Resending /\ Left' = Left + TopUp
    BY <1>0 DEF Waiting, PaidFor, Resending, Left
  <2>2. Cardinality(Waiting) \in Nat /\ Cardinality(Resending) \in Nat /\ Requesting \in Nat
    BY SomePayers, BudgetFacts
  <2> QED
    BY <1>0, <2>1, <2>2, BudgetFacts DEF BudgetInv, ReserveCovers, Requesting
<1>4. AlertsArmed' /\ ThresholdsInHand'
  BY <1>0 DEF BudgetInv, AlertsArmed, ThresholdsInHand
<1> QED
  BY <1>1, <1>2, <1>3, <1>4 DEF BudgetInv

(* A step that leaves the counter and the requests alone.                     *)
LEMMA SettingsKept ==
    ASSUME BudgetInv, UNCHANGED <<fallback, budget, spent, served, payers, outdated>>
    PROVE  SpendingCovered' /\ ReserveCovers' /\ OneRequestEach'
           /\ \A p \in Payers : Requested(payers[p])'
BY DEF BudgetInv, BudgetTyped, SpendingCovered, ReserveCovers, OneRequestEach, Requested, Owing,
       SmsPerCode, Requesting, Waiting, PaidFor, Resending, Left

LEMMA RearmStep ==
    ASSUME BudgetInv, Rearm
    PROVE  BudgetInv'
<1>0. /\ UNCHANGED <<fallback, budget, spent, alerts, served, payers, outdated>>
      /\ toppingUp' = FALSE /\ fired' = {} /\ rearmed' = rearmed + 1 /\ rearmed \in Nat
  BY BudgetFacts DEF Rearm
<1>1. BudgetTyped'
  <2>1. BudgetTypeOK'
    <3>1. BudgetTypeOK /\ rearmed' \in Nat
      BY <1>0 DEF BudgetInv, BudgetTyped
    <3>3. fired' \subseteq Thresholds
      BY <1>0
    <3>4. toppingUp' \in BOOLEAN
      BY <1>0
    <3>2. payers' \in [Payers -> Payer]
      BY <1>0, BudgetFacts
    <3> QED
      BY <1>0, <3>1, <3>2, <3>3, <3>4 DEF BudgetTypeOK
  <2>2. budget' >= FirstBudget
    BY <1>0 DEF BudgetInv, BudgetTyped
  <2> QED
    BY <1>0, <2>1, <2>2, SettingsKept DEF BudgetTyped
<1>2. AlertsArmed'
  <2>1. \A t \in Thresholds : alerts[t] \in Nat /\ alerts[t] <= rearmed + 1
    BY DEF BudgetInv, BudgetTyped, BudgetTypeOK, AlertsArmed
  <2> QED
    BY <1>0, <2>1 DEF AlertsArmed
<1>3. ThresholdsInHand'
  <2>1. rearmed' # 0
    BY <1>0
  <2> QED
    BY <2>1 DEF ThresholdsInHand
<1> QED
  BY <1>0, <1>1, <1>2, <1>3, SettingsKept DEF BudgetInv

(* Nobody asks for a code and nothing is spent.                               *)
LEMMA AtRest ==
    ASSUME BudgetTyped, spent = 0, \A p \in Payers : payers[p] = NoPayer
    PROVE  SpendingCovered /\ ReserveCovers
<1>1. NoPayer.pc = "idle"
  BY DEF NoPayer
<1>2. Owing(1) = {} /\ Owing(2) = {} /\ Resending = {}
  BY <1>1 DEF Owing, Resending
<1>3. Cardinality(Owing(1)) = 0 /\ Cardinality(Owing(2)) = 0 /\ Cardinality(Resending) = 0
  BY <1>2, FS_EmptySet
<1>4. budget \in Nat /\ FirstBudget \in Nat /\ FirstBudget > 0 /\ budget >= FirstBudget
  BY BudgetAssumption DEF BudgetTyped, BudgetTypeOK
<1>5. PICK n \in Nat : n = Requesting
  BY SomePayers
<1>6. n > 0
  BY <1>5, SomePayers
<1>7. SpendingCovered
  <2>1. SmsPerCode = 1 \/ SmsPerCode = 2
    BY DEF SmsPerCode
  <2>2. 0 <= (budget - 1) + SmsPerCode * n
    BY <1>4, <2>1
  <2> QED
    BY <1>3, <1>5, <2>2 DEF SpendingCovered
<1>8. ReserveCovers
  <2>1. Waiting \in SUBSET Holders
    BY DEF Waiting
  <2>2. Cardinality(Waiting) \in Nat /\ Cardinality(Waiting) <= Cardinality(Holders)
        /\ Cardinality(Holders) \in Nat
    BY <2>1, SomePayers
  <2>3. Left = budget
    BY <1>4 DEF Left
  <2> QED
    BY <1>3, <1>4, <1>5, <1>6, <2>2, <2>3 DEF ReserveCovers
<1> QED
  BY <1>7, <1>8

LEMMA ChooseFallbackStep ==
    ASSUME BudgetInv, ChooseFallback
    PROVE  BudgetInv'
<1>0. /\ UNCHANGED <<budget, spent, fired, alerts, rearmed, toppingUp, served, payers, outdated>>
      /\ spent' = 0 /\ (\A p \in Payers : payers'[p] = NoPayer) /\ fallback' \in BOOLEAN
  BY DEF ChooseFallback
<1>1. BudgetTyped'
  BY <1>0 DEF BudgetInv, BudgetTyped, BudgetTypeOK, OneRequestEach, Requested
<1>2. SpendingCovered' /\ ReserveCovers'
  <2>1. NoPayer.pc = "idle"
    BY DEF NoPayer
  <2>2. Owing(1)' = {} /\ Owing(2)' = {} /\ Resending' = {}
    BY <1>0, <2>1 DEF Owing, Resending
  <2>3. Cardinality(Owing(1)') = 0 /\ Cardinality(Owing(2)') = 0 /\ Cardinality(Resending') = 0
    BY <2>2, FS_EmptySet
  <2>4. budget' \in Nat /\ FirstBudget \in Nat /\ FirstBudget > 0 /\ budget' >= FirstBudget
    BY <1>1, BudgetAssumption DEF BudgetTyped, BudgetTypeOK
  <2>5. PICK n \in Nat : n = Requesting
    BY SomePayers
  <2>6. n > 0 /\ Requesting' = n
    BY <2>5, SomePayers DEF Requesting
  <2>7. SpendingCovered'
    <3>1. SmsPerCode' = 1 \/ SmsPerCode' = 2
      BY DEF SmsPerCode
    <3>2. 0 <= (budget' - 1) + SmsPerCode' * n
      BY <2>4, <3>1
    <3> QED
      BY <1>0, <2>3, <2>6, <3>2 DEF SpendingCovered
  <2>8. ReserveCovers'
    <3>1. Waiting' \in SUBSET Holders
      BY DEF Waiting
    <3>2. Cardinality(Waiting') \in Nat /\ Cardinality(Waiting') <= Cardinality(Holders)
          /\ Cardinality(Holders) \in Nat
      BY <3>1, SomePayers
    <3>3. Left' = budget'
      BY <1>0, <2>4 DEF Left
    <3> QED
      BY <2>3, <2>4, <2>6, <3>2, <3>3 DEF ReserveCovers
  <2> QED
    BY <2>7, <2>8
<1>3. AlertsArmed' /\ ThresholdsInHand'
  BY <1>0 DEF BudgetInv, AlertsArmed, ThresholdsInHand, Left
<1> QED
  BY <1>1, <1>2, <1>3 DEF BudgetInv

LEMMA BudgetStarts == BudgetInit => BudgetInv
<1> SUFFICES ASSUME BudgetInit PROVE BudgetInv
  OBVIOUS
<1>1. NoPayer \in Payer /\ NoPayer.pc = "idle" /\ NoPayer.voter = {}
  BY DEF NoPayer, Payer, Thresholds
<1>2. \A p \in Payers : payers[p] = NoPayer
  BY DEF BudgetInit
<1>3. FirstBudget \in Nat /\ FirstBudget > 0
  BY BudgetAssumption
<1>4. BudgetTyped
  <2>1. BudgetTypeOK
    BY <1>1, <1>3 DEF BudgetInit, BudgetTypeOK
  <2>2. \A p \in Payers : Requested(payers[p])
    BY <1>1, <1>2 DEF Requested
  <2>3. OneRequestEach
    BY <1>1, <1>2 DEF OneRequestEach
  <2> QED
    BY <1>3, <2>1, <2>2, <2>3 DEF BudgetTyped, BudgetInit
<1>5. SpendingCovered /\ ReserveCovers
  BY <1>2, <1>4, AtRest DEF BudgetInit
<1>6. AlertsArmed
  BY DEF BudgetInit, AlertsArmed
<1>7. ThresholdsInHand
  <2>1. \A t \in Thresholds : t = 50 \/ t = 25 \/ t = 10
    BY DEF Thresholds
  <2>2. Left = FirstBudget
    BY <1>3 DEF BudgetInit, Left
  <2>3. \A t \in Thresholds : ~(100 * FirstBudget <= t * FirstBudget)
    BY <1>3, <2>1
  <2> QED
    BY <2>2, <2>3 DEF ThresholdsInHand, BudgetInit
<1> QED
  BY <1>4, <1>5, <1>6, <1>7 DEF BudgetInv

LEMMA BudgetInvMeans == BudgetInv => BudgetTypeOK /\ BudgetKept
<1> SUFFICES ASSUME BudgetInv PROVE BudgetTypeOK /\ BudgetKept
  OBVIOUS
<1>1. OverspendBounded
  <2>1. Owing(1) \in SUBSET Payers /\ Owing(2) \in SUBSET Payers
    BY DEF Owing
  <2>2. Cardinality(Owing(1)) \in Nat /\ Cardinality(Owing(2)) \in Nat
    BY <2>1, SomePayers
  <2>3. PICK m \in Int : m = SmsPerCode * Requesting
    BY BudgetFacts, SomePayers
  <2>4. spent <= (budget - 1) + m
    BY <2>2, <2>3, BudgetFacts DEF BudgetInv, SpendingCovered
  <2>5. spent <= budget + m - 1
    BY <2>4, BudgetFacts
  <2> QED
    BY <2>3, <2>5 DEF OverspendBounded, Requesting
<1>2. ReserveKept
  <2>1. Cardinality(Resending) \in Nat /\ Cardinality(Waiting) \in Nat /\ Requesting \in Nat
    BY SomePayers, BudgetFacts
  <2>2. Waiting = Holders \ (served \cup PaidFor) /\ Requesting = Cardinality(Payers)
    BY DEF Waiting, Requesting
  <2> QED
    BY <2>1, <2>2, BudgetFacts DEF BudgetInv, ReserveCovers, ReserveKept
<1>3. AlertOnce
  <2>1. \A t \in Thresholds : alerts[t] \in Nat /\ rearmed \in Nat
    BY DEF BudgetInv, BudgetTyped, BudgetTypeOK
  <2> QED
    BY <2>1 DEF BudgetInv, AlertsArmed, AlertOnce
<1>4. NoThresholdMissed
  BY DEF BudgetInv, ThresholdsInHand, NoThresholdMissed
<1> QED
  BY <1>1, <1>2, <1>3, <1>4 DEF BudgetInv, BudgetTyped, BudgetKept

(* sms_budget_gate, count_sms and _budget_alerts together: parallel requests  *)
(* overshoot the budget by no more than they can be counted for, a re-send    *)
(* leaves a code for everyone who has had none unless it passed on an old     *)
(* reading of the counter, and each alert is given once and none is missed.   *)
THEOREM BudgetAlwaysKept == BudgetSpec => [](BudgetTypeOK /\ BudgetKept)
<1>1. BudgetInit => BudgetInv
  BY BudgetStarts
<1>2. BudgetInv /\ [BudgetNext]_budgetVars => BudgetInv'
  <2> SUFFICES ASSUME BudgetInv, [BudgetNext]_budgetVars PROVE BudgetInv'
    OBVIOUS
  <2>1. CASE SaveBudget
    BY <2>1, SaveBudgetStep
  <2>2. CASE Rearm
    BY <2>2, RearmStep
  <2>3. CASE ChooseFallback
    BY <2>3, ChooseFallbackStep
  <2>4. ASSUME NEW p \in Payers, NEW v \in Holders, PassGate(p, v) PROVE BudgetInv'
    BY <2>4, PassGateStep
  <2>5. ASSUME NEW p \in Payers, CheckReserve(p) PROVE BudgetInv'
    BY <2>5, CheckReserveStep
  <2>6. ASSUME NEW p \in Payers, CountSms(p) PROVE BudgetInv'
    BY <2>6, CountSmsStep
  <2>7. ASSUME NEW p \in Payers, RaiseAlert(p) PROVE BudgetInv'
    BY <2>7, RaiseAlertStep
  <2>8. ASSUME NEW p \in Payers, Counted(p) PROVE BudgetInv'
    BY <2>8, CountedStep
  <2>9. ASSUME NEW p \in Payers, Served(p) PROVE BudgetInv'
    BY <2>9, ServedStep
  <2>10. ASSUME NEW p \in Payers, NotSent(p) PROVE BudgetInv'
    <3>1. payers[p].pc # "alert"
      BY <2>10 DEF NotSent
    <3> QED
      BY <2>10, <3>1, QuittingStep DEF NotSent
  <2>11. CASE UNCHANGED budgetVars
    <3>1. UNCHANGED <<fallback, budget, spent, fired, alerts, rearmed, toppingUp, served, payers, outdated>>
      BY <2>11 DEF budgetVars
    <3>2. BudgetTypeOK' /\ AlertsArmed' /\ ThresholdsInHand'
      BY <3>1 DEF BudgetInv, BudgetTyped, BudgetTypeOK, AlertsArmed, ThresholdsInHand, Left
    <3> QED
      BY <3>1, <3>2, SettingsKept DEF BudgetInv, BudgetTyped
  <2> QED
    BY <2>1, <2>2, <2>3, <2>4, <2>5, <2>6, <2>7, <2>8, <2>9, <2>10, <2>11 DEF BudgetNext
<1> QED
  BY <1>1, <1>2, BudgetInvMeans, PTL DEF BudgetSpec

-----------------------------------------------------------------------------
(* The bulk campaign (SmsCampaign).                                            *)

Held(s) == tasks[s].batch \cup {r \in Rows : \E o \in Outcomes : <<r, o>> \in tasks[s].answer}

\* A row in hand waits for its message or its answer; only a row a process died with, or that was
\* counted while it was sent, says otherwise.
InHand(r) == rows[r] \in {"sending", "ambiguous"} /\ (~untold => rows[r] = "sending")

HandKept(s) ==
    /\ tasks[s].answer = {} \/ \E r \in Rows, o \in Outcomes : tasks[s].answer = {<<r, o>>}
    /\ \A r \in tasks[s].batch : reached[r] = 0 /\ InHand(r)
    /\ \A r \in Rows, o \in Outcomes : <<r, o>> \in tasks[s].answer =>
          /\ InHand(r) /\ (o = "failed" => reached[r] = 0)
          /\ tasks[s].inc[o] > 0 /\ r \notin tasks[s].batch
    /\ tasks[s].pc # "send" => tasks[s].inc = NoCounts /\ tasks[s].answer = {}
    /\ s \notin alive => tasks[s] = NoTask

HandsKept == \A s \in Servers : HandKept(s)

\* No row is in the hands of two processes.
Apart == \A s, t \in Servers : s # t => Held(s) \cap Held(t) = {}

RowsKept ==
    /\ \A r \in Rows : reached[r] <= 1 /\ (rows[r] \in {"none", "pending", "failed"} => reached[r] = 0)
    /\ (status = "none" \/ admin.pc \in {"insert", "rows"}) => \A r \in Rows : rows[r] = "none"

AdminKept ==
    /\ admin.server \subseteq alive
    /\ admin.pc = "idle" \/ \E s \in Servers : admin.server = {s}
    /\ admin.pc \in {"requeue", "campaign"} => retries < Retries
    /\ admin.pc = "rows" => status # "none"

\* What the processes have counted and not yet told, as a set; and the rows whose answer is not written.
Tokens(o) == {t \in Servers \X (Nat \ {0}) : t[2] <= tasks[t[1]].inc[o]}

Unwritten(o) == {r \in Rows : \E s \in Servers : <<r, o>> \in tasks[s].answer}

Outstanding(o) == IF o = "failed" /\ admin.pc = "campaign" THEN admin.n ELSE 0

Balanced(o) ==
    /\ IsFiniteSet(Tokens(o))
    /\ ~untold => counts[o] + Cardinality(Tokens(o))
                     = Cardinality(RowsIn(o)) + Cardinality(Unwritten(o)) + Outstanding(o)

CountsKept == \A o \in Outcomes : Balanced(o)

CampaignInv == CampaignTypeOK /\ HandsKept /\ Apart /\ RowsKept /\ AdminKept /\ CountsKept

-----------------------------------------------------------------------------

Retask(s, d) == d \in Task /\ tasks' = [tasks EXCEPT ![s] = d]

LEMMA CampaignBounds ==
    /\ IsFiniteSet(Servers) /\ IsFiniteSet(Rows) /\ Deaths \in Nat /\ Retries \in Nat /\ Batch \in Nat
    /\ Outcomes = {"sent", "failed", "ambiguous"}
BY CampaignAssumption DEF Outcomes

LEMMA RestingTask ==
    /\ NoCounts \in [Outcomes -> Nat] /\ \A o \in Outcomes : NoCounts[o] = 0
    /\ NoTask \in Task /\ NoTask.pc = "none" /\ NoTask.batch = {} /\ NoTask.answer = {} /\ NoTask.inc = NoCounts
    /\ \A p \in {"look", "claim"} :
          LET d == [NoTask EXCEPT !.pc = p]
          IN  d \in Task /\ d.pc = p /\ d.batch = {} /\ d.answer = {} /\ d.inc = NoCounts
    /\ NoAdmin \in Admin /\ NoAdmin.pc = "idle" /\ NoAdmin.server = {} /\ NoAdmin.n = 0
BY DEF NoCounts, NoTask, Task, NoAdmin, Admin

LEMMA TaskFields ==
    ASSUME CampaignTypeOK, NEW s \in Servers
    PROVE  /\ tasks[s] \in Task
           /\ tasks[s].pc \in {"none", "start", "look", "claim", "send", "report"}
           /\ tasks[s].batch \subseteq Rows /\ tasks[s].answer \subseteq Rows \X Outcomes
           /\ tasks[s].inc \in [Outcomes -> Nat]
           /\ \A p \in {"none", "start", "look", "claim", "send", "report"} :
                LET d == [tasks[s] EXCEPT !.pc = p]
                IN  d \in Task /\ d.pc = p /\ d.batch = tasks[s].batch /\ d.answer = tasks[s].answer
                    /\ d.inc = tasks[s].inc
BY DEF CampaignTypeOK, Task

\* The task of another process does not notice what becomes of rows it does not hold.
LEMMA OtherHands ==
    ASSUME NEW t \in Servers, HandKept(t), tasks[t] \in Task, tasks'[t] = tasks[t], untold => untold',
           t \notin alive' => t \notin alive \/ tasks[t] = NoTask,
           \A r \in Held(t) : reached'[r] = reached[r] /\ InHand(r)'
    PROVE  HandKept(t)'
<1>1. \A r \in tasks[t].batch : r \in Held(t)
  BY DEF Held
<1>2. \A r \in Rows, o \in Outcomes : <<r, o>> \in tasks[t].answer => r \in Held(t)
  BY DEF Held
<1> QED
  BY <1>1, <1>2 DEF HandKept

LEMMA HeldInHand ==
    ASSUME HandsKept, NEW s \in Servers
    PROVE  \A r \in Held(s) : InHand(r)
BY DEF HandsKept, HandKept, Held

\* Steps that neither answer nor count: what is in hand stays apart, what is counted stays.
LEMMA QuietTask ==
    ASSUME CampaignTypeOK, HandsKept, Apart, NEW s \in Servers, NEW d, Retask(s, d), s \in alive, alive' = alive,
           d.batch \subseteq tasks[s].batch, d.answer = tasks[s].answer, d.inc = tasks[s].inc,
           d.pc = "send" \/ tasks[s].pc # "send",
           rows' = rows, reached' = reached, untold' = untold
    PROVE  HandsKept' /\ Apart'
<1>1. tasks'[s] = d /\ \A t \in Servers \ {s} : tasks'[t] = tasks[t]
  BY DEF Retask, CampaignTypeOK
<1>2. \A r \in Rows : InHand(r)' <=> InHand(r)
  BY DEF InHand
<1>3. HandKept(s)'
  <2>1. HandKept(s)
    BY DEF HandsKept
  <2>2. tasks'[s].answer = {} \/ \E r \in Rows, o \in Outcomes : tasks'[s].answer = {<<r, o>>}
    BY <1>1, <2>1 DEF HandKept
  <2>3. \A r \in tasks'[s].batch : reached'[r] = 0 /\ InHand(r)'
    BY <1>1, <1>2, <2>1, TaskFields DEF HandKept
  <2>4. \A r \in Rows, o \in Outcomes : <<r, o>> \in tasks'[s].answer =>
            /\ InHand(r)' /\ (o = "failed" => reached'[r] = 0)
            /\ tasks'[s].inc[o] > 0 /\ r \notin tasks'[s].batch
    BY <1>1, <1>2, <2>1 DEF HandKept
  <2>5. tasks'[s].pc # "send" => tasks'[s].inc = NoCounts /\ tasks'[s].answer = {}
    BY <1>1, <2>1 DEF HandKept
  <2>6. s \in alive'
    OBVIOUS
  <2> QED
    BY <2>2, <2>3, <2>4, <2>5, <2>6 DEF HandKept
<1>4. \A t \in Servers \ {s} : HandKept(t)'
  <2> SUFFICES ASSUME NEW t \in Servers \ {s} PROVE HandKept(t)'
    OBVIOUS
  <2>1. tasks[t] \in Task /\ HandKept(t)
    BY TaskFields DEF HandsKept
  <2>2. \A r \in Held(t) : reached'[r] = reached[r] /\ InHand(r)'
    BY <1>2, <2>1, HeldInHand, TaskFields DEF Held
  <2> QED
    BY <1>1, <2>1, <2>2, OtherHands
<1>5. HandsKept'
  BY <1>3, <1>4 DEF HandsKept
<1>6. \A t \in Servers : Held(t)' \subseteq Held(t)
  BY <1>1 DEF Held
<1> QED
  BY <1>5, <1>6 DEF Apart

LEMMA SameTokens ==
    ASSUME \A t \in Servers : tasks'[t].inc = tasks[t].inc
    PROVE  \A o \in Outcomes : Tokens(o)' = Tokens(o)
BY DEF Tokens

LEMMA SameWaiting ==
    ASSUME \A t \in Servers : tasks'[t].answer = tasks[t].answer
    PROVE  \A o \in Outcomes : Unwritten(o)' = Unwritten(o)
BY DEF Unwritten

\* Nothing that is counted moves.
LEMMA BalanceStays ==
    ASSUME CountsKept, \A t \in Servers : tasks'[t].inc = tasks[t].inc /\ tasks'[t].answer = tasks[t].answer,
           counts' = counts, untold => untold',
           \A o \in Outcomes : RowsIn(o)' = RowsIn(o) /\ Outstanding(o)' = Outstanding(o)
    PROVE  CountsKept'
<1> SUFFICES ASSUME NEW o \in Outcomes PROVE Balanced(o)'
  BY DEF CountsKept
<1>1. Tokens(o)' = Tokens(o) /\ Unwritten(o)' = Unwritten(o)
  BY SameTokens, SameWaiting
<1> QED
  BY <1>1 DEF CountsKept, Balanced

-----------------------------------------------------------------------------
(* The steps that move no row. *)

QuietMove(s, d) ==
    /\ Retask(s, d) /\ s \in alive
    /\ d.batch \subseteq tasks[s].batch /\ d.answer = tasks[s].answer /\ d.inc = tasks[s].inc
    /\ d.pc = "send" \/ tasks[s].pc # "send"

QuietOne(s) == BeginRun(s) \/ Look(s) \/ BatchClaimed(s) \/ Finish(s) \/ Report(s)

LEMMA Resting ==
    ASSUME CampaignTypeOK, HandsKept, NEW s \in Servers, tasks[s].pc # "none"
    PROVE  s \in alive /\ (tasks[s].pc # "send" => tasks[s].inc = NoCounts /\ tasks[s].answer = {})
BY RestingTask DEF HandsKept, HandKept

LEMMA QuietOnes ==
    ASSUME CampaignTypeOK, HandsKept, NEW s \in Servers, QuietOne(s)
    PROVE  \E d : QuietMove(s, d)
<1> DEFINE D(p) == [tasks[s] EXCEPT !.pc = p]
           C == [NoTask EXCEPT !.pc = "claim"]
<1>1. \A p \in {"none", "look", "send", "report"} :
         /\ D(p) \in Task /\ D(p).pc = p /\ D(p).batch = tasks[s].batch /\ D(p).answer = tasks[s].answer
         /\ D(p).inc = tasks[s].inc
  BY DEF CampaignTypeOK, Task
<1>2. C \in Task /\ C.pc = "claim" /\ C.batch = {} /\ C.answer = {} /\ C.inc = NoCounts
  BY RestingTask
<1>3. CASE BeginRun(s)
  <2>1. Retask(s, D("look"))
    BY <1>1, <1>3 DEF BeginRun, Retask, CampaignTypeOK
  <2> QED
    BY <1>1, <1>3, <2>1, Resting DEF QuietMove, BeginRun
<1>4. CASE Look(s)
  <2>1. tasks[s].pc = "look" /\ tasks[s].inc = NoCounts /\ tasks[s].answer = {} /\ s \in alive
    BY <1>4, Resting DEF Look
  <2>2. CASE status = "running"
    <3>1. Retask(s, C)
      BY <1>2, <1>4, <2>2 DEF Look, Retask
    <3> QED
      BY <1>2, <2>1, <3>1 DEF QuietMove
  <2>3. CASE status # "running"
    <3>1. Retask(s, NoTask)
      BY <1>4, <2>3, RestingTask DEF Look, Retask
    <3> QED
      BY <2>1, <3>1, RestingTask DEF QuietMove
  <2> QED
    BY <2>2, <2>3
<1>5. CASE BatchClaimed(s)
  <2>1. Retask(s, D("send"))
    BY <1>1, <1>5 DEF BatchClaimed, Retask, CampaignTypeOK
  <2> QED
    BY <1>1, <1>5, <2>1, Resting DEF QuietMove, BatchClaimed
<1>6. CASE Finish(s)
  <2>1. CASE status = "running"
    <3>1. Retask(s, D("report"))
      BY <1>1, <1>6, <2>1 DEF Finish, Retask, CampaignTypeOK
    <3> QED
      BY <1>1, <1>6, <3>1, Resting DEF QuietMove, Finish
  <2>2. CASE status # "running"
    <3>1. Retask(s, D("none"))
      BY <1>1, <1>6, <2>2 DEF Finish, Retask, CampaignTypeOK
    <3> QED
      BY <1>1, <1>6, <3>1, Resting DEF QuietMove, Finish
  <2> QED
    BY <2>1, <2>2
<1>7. CASE Report(s)
  <2>1. Retask(s, NoTask)
    BY <1>7, RestingTask DEF Report, Retask
  <2>2. tasks[s].pc = "report" /\ tasks[s].inc = NoCounts /\ tasks[s].answer = {} /\ s \in alive
    BY <1>7, Resting DEF Report
  <2> QED
    BY <2>1, <2>2, RestingTask DEF QuietMove
<1> QED
  BY <1>3, <1>4, <1>5, <1>6, <1>7 DEF QuietOne

LEMMA Starting ==
    ASSUME CampaignTypeOK, HandsKept, NEW s \in Servers, s \in alive, StartTask(s)
    PROVE  tasks' = tasks \/ \E d : QuietMove(s, d)
<1>1. CASE tasks[s].pc = "none"
  <2> DEFINE d == [tasks[s] EXCEPT !.pc = "start"]
  <2>1. d \in Task /\ d.batch = tasks[s].batch /\ d.answer = tasks[s].answer /\ d.inc = tasks[s].inc
    BY TaskFields
  <2>2. Retask(s, d)
    BY <1>1, <2>1 DEF StartTask, Retask, CampaignTypeOK
  <2> QED
    BY <1>1, <2>1, <2>2 DEF QuietMove
<1>2. CASE tasks[s].pc # "none"
  BY <1>2 DEF StartTask
<1> QED
  BY <1>1, <1>2

\* A step that changes no row, no message and no counter.
LEMMA QuietKeeps ==
    ASSUME CampaignInv, tasks' = tasks \/ \E s \in Servers : \E d : QuietMove(s, d),
           UNCHANGED <<counts, rows, alive, reached, untold>>, \A o \in Outcomes : Outstanding(o)' = Outstanding(o)
    PROVE  HandsKept' /\ Apart' /\ CountsKept' /\ tasks' \in [Servers -> Task]
<1>1. CASE tasks' = tasks
  <2>1. HandsKept'
    <3> SUFFICES ASSUME NEW t \in Servers PROVE HandKept(t)'
      BY DEF HandsKept
    <3>1. HandKept(t)
      BY DEF CampaignInv, HandsKept
    <3> QED
      BY <1>1, <3>1 DEF HandKept, InHand
  <2>3. Apart'
    BY <1>1 DEF CampaignInv, Apart, Held
  <2>2. CountsKept'
    BY <1>1, BalanceStays DEF CampaignInv, RowsIn
  <2> QED
    BY <1>1, <2>1, <2>2, <2>3 DEF CampaignInv, CampaignTypeOK
<1>2. CASE \E s \in Servers : \E d : QuietMove(s, d)
  <2> PICK s \in Servers : \E d : QuietMove(s, d)
    BY <1>2
  <2>1. PICK d : QuietMove(s, d)
    OBVIOUS
  <2>2. HandsKept' /\ Apart'
    BY <2>1, QuietTask DEF CampaignInv, QuietMove
  <2>3. \A t \in Servers : tasks'[t].inc = tasks[t].inc /\ tasks'[t].answer = tasks[t].answer
    BY <2>1 DEF QuietMove, Retask, CampaignInv, CampaignTypeOK
  <2>4. CountsKept'
    BY <2>3, BalanceStays DEF CampaignInv, RowsIn
  <2>5. tasks' \in [Servers -> Task]
    BY <2>1 DEF QuietMove, Retask, CampaignInv, CampaignTypeOK
  <2> QED
    BY <2>2, <2>4, <2>5
<1> QED
  BY <1>1, <1>2

LEMMA QuietTaskStep ==
    ASSUME CampaignInv, NEW s \in Servers, QuietOne(s)
    PROVE  CampaignInv'
<1>1. UNCHANGED <<counts, rows, alive, admin, reached, deaths, retries, untold>>
  BY DEF QuietOne, BeginRun, Look, BatchClaimed, Finish, Report
<1>2. HandsKept' /\ Apart' /\ CountsKept' /\ tasks' \in [Servers -> Task]
  BY <1>1, QuietOnes, QuietKeeps DEF CampaignInv, Outstanding
<1>3. status' \in Going \cup {"none", "done", "cancelled"} /\ (status' = "none" => status = "none")
  BY DEF CampaignInv, CampaignTypeOK, QuietOne, BeginRun, Look, BatchClaimed, Finish, Report, Going
<1>4. CampaignTypeOK'
  BY <1>1, <1>2, <1>3 DEF CampaignInv, CampaignTypeOK
<1>5. RowsKept' /\ AdminKept'
  BY <1>1, <1>3 DEF CampaignInv, RowsKept, AdminKept
<1> QED
  BY <1>2, <1>4, <1>5 DEF CampaignInv

QuietAdmin(s) == SendCampaign(s) \/ InsertCampaign \/ StartCampaign \/ CancelCampaign \/ RetryFailed(s)

LEMMA QuietAdminStep ==
    ASSUME CampaignInv, NEW s, QuietAdmin(s)
    PROVE  CampaignInv'
<1>1. UNCHANGED <<counts, rows, alive, reached, deaths, retries, untold>>
  BY DEF QuietAdmin, SendCampaign, InsertCampaign, StartCampaign, CancelCampaign, RetryFailed
<1>2. tasks' = tasks \/ \E t \in Servers : \E d : QuietMove(t, d)
  <2>1. CASE StartCampaign
    <3>1. PICK t \in Servers : admin.server = {t}
      BY <2>1 DEF StartCampaign, CampaignInv, AdminKept
    <3>2. StartTask(t) /\ t \in alive
      BY <2>1, <3>1 DEF StartCampaign, CampaignInv, AdminKept
    <3> QED
      BY <3>2, Starting DEF CampaignInv
  <2>2. CASE ~StartCampaign
    BY <2>2 DEF QuietAdmin, SendCampaign, InsertCampaign, CancelCampaign, RetryFailed
  <2> QED
    BY <2>1, <2>2
<1>3. (admin.pc # "campaign" /\ admin'.pc # "campaign") \/ admin' = admin
  BY RestingTask DEF QuietAdmin, SendCampaign, InsertCampaign, StartCampaign, CancelCampaign, RetryFailed,
       AdminCall, CampaignInv, CampaignTypeOK, Admin
<1>4. HandsKept' /\ Apart' /\ CountsKept' /\ tasks' \in [Servers -> Task]
  BY <1>1, <1>2, <1>3, QuietKeeps DEF Outstanding
<1>5. /\ status' \in Going \cup {"none", "done", "cancelled"} /\ admin' \in Admin
      /\ (status' = "none" \/ admin'.pc \in {"insert", "rows"}) => (status = "none" \/ admin.pc \in {"insert", "rows"})
  <2> USE RestingTask DEF CampaignInv, CampaignTypeOK
  <2>1. CASE SendCampaign(s)
    BY <2>1 DEF SendCampaign, AdminCall, Admin
  <2>2. CASE InsertCampaign
    BY <2>2 DEF InsertCampaign, Admin, Going
  <2>3. CASE StartCampaign
    BY <2>3 DEF StartCampaign
  <2>4. CASE CancelCampaign
    BY <2>4 DEF CancelCampaign
  <2>5. CASE RetryFailed(s)
    BY <2>5 DEF RetryFailed, AdminCall, Admin
  <2> QED
    BY <2>1, <2>2, <2>3, <2>4, <2>5 DEF QuietAdmin
<1>6. CampaignTypeOK'
  BY <1>1, <1>4, <1>5 DEF CampaignInv, CampaignTypeOK
<1>7. RowsKept'
  BY <1>1, <1>5 DEF CampaignInv, RowsKept
<1>8. AdminKept'
  <2> USE <1>1, RestingTask DEF CampaignInv, CampaignTypeOK, AdminKept
  <2>1. CASE SendCampaign(s)
    BY <2>1 DEF SendCampaign, AdminCall, NoAdmin
  <2>2. CASE InsertCampaign
    BY <2>2 DEF InsertCampaign, Admin
  <2>3. CASE StartCampaign
    BY <2>3 DEF StartCampaign
  <2>4. CASE CancelCampaign
    BY <2>4 DEF CancelCampaign
  <2>5. CASE RetryFailed(s)
    BY <2>5 DEF RetryFailed, AdminCall, NoAdmin
  <2> QED
    BY <2>1, <2>2, <2>3, <2>4, <2>5 DEF QuietAdmin
<1> QED
  BY <1>4, <1>6, <1>7, <1>8 DEF CampaignInv

-----------------------------------------------------------------------------
(* The administrator moves rows. *)

LEMMA RowsTurn ==
    ASSUME CampaignInv, UNCHANGED <<tasks, alive, reached, untold>>, \A r \in Rows : InHand(r) => InHand(r)'
    PROVE  HandsKept' /\ Apart' /\ \A o \in Outcomes : Tokens(o)' = Tokens(o) /\ Unwritten(o)' = Unwritten(o)
<1>1. \A t \in Servers : HandKept(t)'
  <2> SUFFICES ASSUME NEW t \in Servers PROVE HandKept(t)'
    OBVIOUS
  <2>1. tasks[t] \in Task /\ HandKept(t)
    BY TaskFields DEF CampaignInv, HandsKept
  <2>2. \A r \in Held(t) : r \in Rows /\ InHand(r)
    BY HeldInHand, TaskFields DEF CampaignInv, Held
  <2> QED
    BY <2>1, <2>2, OtherHands
<1>2. Apart'
  BY DEF CampaignInv, Apart, Held
<1>3. \A o \in Outcomes : Tokens(o)' = Tokens(o) /\ Unwritten(o)' = Unwritten(o)
  BY SameTokens, SameWaiting
<1> QED
  BY <1>1, <1>2, <1>3 DEF HandsKept

LEMMA RowsFinite == \A st : RowsIn(st) \subseteq Rows /\ IsFiniteSet(RowsIn(st)) /\ Cardinality(RowsIn(st)) \in Nat
BY CampaignBounds, FS_Subset, FS_CardinalityType DEF RowsIn

LEMMA InsertRowsStep ==
    ASSUME CampaignInv, InsertRows
    PROVE  CampaignInv'
<1>1. /\ UNCHANGED <<status, counts, tasks, alive, reached, deaths, retries, untold>>
      /\ \A r \in Rows : rows[r] = "none" /\ rows'[r] = "pending"
      /\ rows' \in [Rows -> Outcomes \cup {"none", "pending", "sending"}]
      /\ admin' \in Admin /\ admin'.pc = "start" /\ admin.pc = "rows" /\ admin'.server = admin.server
  BY DEF InsertRows, CampaignInv, RowsKept, CampaignTypeOK, Admin
<1>2. HandsKept' /\ Apart' /\ \A o \in Outcomes : Tokens(o)' = Tokens(o) /\ Unwritten(o)' = Unwritten(o)
  BY <1>1, RowsTurn DEF InHand
<1>3. \A o \in Outcomes : RowsIn(o) = {} /\ RowsIn(o)' = {}
  BY <1>1 DEF RowsIn, Outcomes
<1>4. CountsKept'
  BY <1>1, <1>2, <1>3 DEF CampaignInv, CountsKept, Balanced, Outstanding
<1>5. RowsKept' /\ AdminKept'
  <2>1. status # "none"
    BY DEF InsertRows, CampaignInv, AdminKept
  <2> QED
    BY <1>1, <2>1 DEF CampaignInv, RowsKept, AdminKept
<1> QED
  BY <1>1, <1>2, <1>4, <1>5 DEF CampaignInv, CampaignTypeOK

LEMMA RequeueRowsStep ==
    ASSUME CampaignInv, RequeueRows
    PROVE  CampaignInv'
<1>1. /\ UNCHANGED <<status, counts, tasks, alive, reached, deaths, retries, untold>>
      /\ \A r \in Rows : rows'[r] = IF rows[r] = "failed" THEN "pending" ELSE rows[r]
      /\ rows' \in [Rows -> Outcomes \cup {"none", "pending", "sending"}] /\ admin.pc = "requeue"
  BY DEF RequeueRows, RetriedRows, Requeued, RowsIn, CampaignInv, CampaignTypeOK
<1>2. \/ RowsIn("failed") = {} /\ admin' = NoAdmin
      \/ /\ admin' \in Admin /\ admin'.pc = "campaign" /\ admin'.server = admin.server
         /\ admin'.n = Cardinality(RowsIn("failed"))
  BY RowsFinite DEF RequeueRows, RetriedRows, CampaignInv, CampaignTypeOK, Admin
<1>3. HandsKept' /\ Apart' /\ \A o \in Outcomes : Tokens(o)' = Tokens(o) /\ Unwritten(o)' = Unwritten(o)
  BY <1>1, RowsTurn DEF InHand
<1>4. RowsIn("failed")' = {} /\ RowsIn("sent")' = RowsIn("sent") /\ RowsIn("ambiguous")' = RowsIn("ambiguous")
  BY <1>1 DEF RowsIn
<1>5. CountsKept'
  <2>1. Cardinality({}) = 0
    BY FS_EmptySet
  <2>2. \A o \in Outcomes : Outstanding(o) = 0
    BY <1>1 DEF Outstanding
  <2>3. Outstanding("sent")' = 0 /\ Outstanding("ambiguous")' = 0 /\ Outstanding("failed")' = Cardinality(RowsIn("failed"))
    BY <1>2, <2>1, RestingTask DEF Outstanding
  <2>4. Balanced("sent")' /\ Balanced("ambiguous")'
    BY <1>1, <1>3, <1>4, <2>2, <2>3 DEF CampaignInv, CountsKept, Balanced, Outcomes
  <2>5. Cardinality(Unwritten("failed")) \in Nat
    <3>1. Unwritten("failed") \subseteq Rows
      BY DEF Unwritten
    <3> QED
      BY <3>1, CampaignBounds, FS_Subset, FS_CardinalityType
  <2>6. Balanced("failed")'
    <3>1. Balanced("failed") /\ Tokens("failed")' = Tokens("failed") /\ Unwritten("failed")' = Unwritten("failed")
      BY <1>3 DEF CampaignInv, CountsKept, Outcomes
    <3>2. Outstanding("failed") = 0
      BY <2>2 DEF Outcomes
    <3>3. Cardinality(RowsIn("failed")) + Cardinality(Unwritten("failed")) + 0
            = Cardinality({}) + Cardinality(Unwritten("failed")) + Cardinality(RowsIn("failed"))
      BY <2>1, <2>5, RowsFinite
    <3> QED
      BY <1>1, <1>4, <2>3, <3>1, <3>2, <3>3 DEF Balanced
  <2> QED
    BY <2>4, <2>6, CampaignBounds DEF CountsKept
<1>6. RowsKept'
  BY <1>1, <1>2, RestingTask DEF CampaignInv, CampaignTypeOK, RowsKept
<1>7. AdminKept'
  BY <1>1, <1>2, RestingTask DEF CampaignInv, AdminKept
<1>8. CampaignTypeOK'
  BY <1>1, <1>2, RestingTask DEF CampaignInv, CampaignTypeOK
<1> QED
  BY <1>3, <1>5, <1>6, <1>7, <1>8 DEF CampaignInv

LEMMA RequeueCampaignStep ==
    ASSUME CampaignInv, RequeueCampaign
    PROVE  CampaignInv'
<1>1. /\ UNCHANGED <<rows, tasks, alive, reached, deaths, untold>> /\ status' = "queued"
      /\ admin' \in Admin /\ admin'.pc = "start" /\ admin'.server = admin.server
      /\ admin.pc = "campaign" /\ admin.n \in Nat
      /\ counts' \in [Outcomes -> Int] /\ counts'["failed"] = counts["failed"] - admin.n
      /\ counts'["sent"] = counts["sent"] /\ counts'["ambiguous"] = counts["ambiguous"]
  BY CampaignBounds DEF RequeueCampaign, CampaignInv, CampaignTypeOK, Admin
<1>2. retries' = retries + 1 /\ retries < Retries
  BY DEF RequeueCampaign, CampaignInv, AdminKept
<1>3. HandsKept' /\ Apart' /\ \A o \in Outcomes : Tokens(o)' = Tokens(o) /\ Unwritten(o)' = Unwritten(o)
  BY <1>1, RowsTurn DEF InHand
<1>4. CountsKept'
  <2>1. \A o \in Outcomes : RowsIn(o)' = RowsIn(o) /\ Outstanding(o)' = 0
    BY <1>1 DEF RowsIn, Outstanding
  <2>2. Outstanding("sent") = 0 /\ Outstanding("ambiguous") = 0 /\ Outstanding("failed") = admin.n
    BY <1>1 DEF Outstanding
  <2>3. Balanced("sent")' /\ Balanced("ambiguous")'
    BY <1>1, <1>3, <2>1, <2>2 DEF CampaignInv, CountsKept, Balanced, Outcomes
  <2>4. Balanced("failed")'
    <3>1. Balanced("failed") /\ Tokens("failed")' = Tokens("failed") /\ Unwritten("failed")' = Unwritten("failed")
          /\ RowsIn("failed")' = RowsIn("failed") /\ Outstanding("failed")' = 0
      BY <1>3, <2>1 DEF CampaignInv, CountsKept, Outcomes
    <3>2. Cardinality(RowsIn("failed")) \in Nat /\ Cardinality(Unwritten("failed")) \in Nat
      <4>1. Unwritten("failed") \subseteq Rows
        BY DEF Unwritten
      <4> QED
        BY <4>1, RowsFinite, CampaignBounds, FS_Subset, FS_CardinalityType
    <3>3. Cardinality(Tokens("failed")) \in Nat /\ counts["failed"] \in Int
      BY <3>1, FS_CardinalityType DEF Balanced, CampaignInv, CampaignTypeOK, Outcomes
    <3>4. ASSUME ~untold PROVE counts["failed"] + Cardinality(Tokens("failed"))
                                 = Cardinality(RowsIn("failed")) + Cardinality(Unwritten("failed")) + admin.n
      BY <3>1, <3>4, <2>2 DEF Balanced
    <3>5. ASSUME ~untold PROVE counts'["failed"] + Cardinality(Tokens("failed"))
                                 = Cardinality(RowsIn("failed")) + Cardinality(Unwritten("failed")) + 0
      BY <1>1, <3>2, <3>3, <3>4, <3>5
    <3> QED
      BY <1>1, <3>1, <3>5 DEF Balanced
  <2> QED
    BY <2>3, <2>4, CampaignBounds DEF CountsKept
<1>5. RowsKept' /\ AdminKept'
  BY <1>1 DEF CampaignInv, RowsKept, AdminKept
<1>6. CampaignTypeOK'
  BY <1>1, <1>2, CampaignBounds DEF CampaignInv, CampaignTypeOK, Going
<1> QED
  BY <1>3, <1>4, <1>5, <1>6 DEF CampaignInv

-----------------------------------------------------------------------------
(* The task of one process: one row passes through its hands. *)

LEMMA OneHand ==
    ASSUME CampaignInv, NEW s \in Servers, NEW r \in Rows, s \in alive, UNCHANGED <<alive, untold>>,
           \A t \in Servers \ {s} : tasks'[t] = tasks[t] /\ r \notin Held(t),
           \A q \in Rows \ {r} : reached'[q] = reached[q] /\ rows'[q] = rows[q],
           HandKept(s)', Held(s)' \subseteq Held(s) \cup {r}
    PROVE  HandsKept' /\ Apart'
<1>1. \A t \in Servers \ {s} : HandKept(t)'
  <2> SUFFICES ASSUME NEW t \in Servers \ {s} PROVE HandKept(t)'
    OBVIOUS
  <2>1. tasks[t] \in Task /\ HandKept(t)
    BY TaskFields DEF CampaignInv, HandsKept
  <2>2. \A q \in Held(t) : q \in Rows \ {r} /\ InHand(q)
    BY HeldInHand, TaskFields DEF CampaignInv, Held
  <2>3. \A q \in Held(t) : reached'[q] = reached[q] /\ InHand(q)'
    BY <2>2 DEF InHand
  <2> QED
    BY <2>1, <2>3, OtherHands
<1>2. \A t \in Servers \ {s} : Held(t)' = Held(t)
  BY DEF Held
<1>3. Apart'
  <2> SUFFICES ASSUME NEW t \in Servers, NEW u \in Servers, t # u PROVE Held(t)' \cap Held(u)' = {}
    BY DEF Apart
  <2>1. Held(t) \cap Held(u) = {}
    BY DEF CampaignInv, Apart
  <2>2. CASE t = s
    BY <1>2, <2>1, <2>2
  <2>3. CASE u = s
    BY <1>2, <2>1, <2>3
  <2>4. CASE t # s /\ u # s
    BY <1>2, <2>1, <2>4
  <2> QED
    BY <2>2, <2>3, <2>4
<1> QED
  BY <1>1, <1>3 DEF HandsKept

LEMMA CountsNat ==
    ASSUME CampaignInv, NEW o \in Outcomes
    PROVE  /\ Unwritten(o) \subseteq Rows /\ IsFiniteSet(Unwritten(o)) /\ Cardinality(Unwritten(o)) \in Nat
           /\ IsFiniteSet(Tokens(o)) /\ Cardinality(Tokens(o)) \in Nat
           /\ IsFiniteSet(RowsIn(o)) /\ Cardinality(RowsIn(o)) \in Nat
           /\ counts[o] \in Int /\ Outstanding(o) \in Nat
<1>1. Unwritten(o) \subseteq Rows
  BY DEF Unwritten
<1>2. IsFiniteSet(Unwritten(o)) /\ Cardinality(Unwritten(o)) \in Nat
  BY <1>1, CampaignBounds, FS_Subset, FS_CardinalityType
<1>3. IsFiniteSet(Tokens(o)) /\ Cardinality(Tokens(o)) \in Nat
  BY FS_CardinalityType DEF CampaignInv, CountsKept, Balanced
<1>4. counts[o] \in Int /\ Outstanding(o) \in Nat
  BY DEF CampaignInv, CampaignTypeOK, Outstanding, Admin
<1> QED
  BY <1>1, <1>2, <1>3, <1>4, RowsFinite

LEMMA ClaimRowStep ==
    ASSUME CampaignInv, NEW s \in Servers, ClaimRow(s)
    PROVE  CampaignInv'
<1>1. PICK r \in RowsIn("pending") \ tasks[s].batch :
         /\ rows' = Claimed(r)
         /\ tasks' = [tasks EXCEPT ![s].batch = @ \cup {r}]
  BY DEF ClaimRow
<1> DEFINE d == [tasks[s] EXCEPT !.batch = tasks[s].batch \cup {r}]
<1>2. r \in Rows /\ rows[r] = "pending" /\ reached[r] = 0 /\ tasks[s].pc = "claim"
  BY <1>1 DEF RowsIn, ClaimRow, CampaignInv, RowsKept
<1>3. /\ d \in Task /\ d.pc = "claim" /\ d.batch = tasks[s].batch \cup {r} /\ d.answer = tasks[s].answer
      /\ d.inc = tasks[s].inc
  BY <1>2 DEF CampaignInv, CampaignTypeOK, Task
<1>4. tasks' = [tasks EXCEPT ![s] = d]
  BY <1>1 DEF CampaignInv, CampaignTypeOK
<1> HIDE DEF d
<1>5. s \in alive /\ tasks[s].inc = NoCounts /\ tasks[s].answer = {} /\ HandKept(s)
  BY <1>2, Resting DEF CampaignInv, HandsKept
<1>6. /\ UNCHANGED <<status, counts, alive, admin, reached, deaths, retries, untold>>
      /\ rows'[r] = "sending" /\ (\A q \in Rows \ {r} : rows'[q] = rows[q])
      /\ rows' \in [Rows -> Outcomes \cup {"none", "pending", "sending"}]
      /\ tasks'[s] = d /\ (\A t \in Servers \ {s} : tasks'[t] = tasks[t]) /\ tasks' \in [Servers -> Task]
  <2>1. UNCHANGED <<status, counts, alive, admin, reached, deaths, retries, untold>>
    BY DEF ClaimRow
  <2>2. rows \in [Rows -> Outcomes \cup {"none", "pending", "sending"}] /\ rows' = [rows EXCEPT ![r] = "sending"]
    BY <1>1 DEF Claimed, CampaignInv, CampaignTypeOK
  <2>3. tasks \in [Servers -> Task]
    BY DEF CampaignInv, CampaignTypeOK
  <2>4. rows'[r] = "sending" /\ \A q \in Rows \ {r} : rows'[q] = rows[q]
    BY <1>2, <2>2
  <2>5. rows' \in [Rows -> Outcomes \cup {"none", "pending", "sending"}]
    BY <1>2, <2>2
  <2>6. tasks'[s] = d /\ (\A t \in Servers \ {s} : tasks'[t] = tasks[t]) /\ tasks' \in [Servers -> Task]
    BY <1>3, <1>4, <2>3
  <2> QED
    BY <2>1, <2>4, <2>5, <2>6
<1>7. \A t \in Servers : r \notin Held(t)
  BY <1>2, HeldInHand DEF CampaignInv, InHand
<1>8. HandKept(s)'
  <2>1. \A q \in tasks'[s].batch : reached'[q] = 0 /\ InHand(q)'
    <3>1. reached'[r] = 0 /\ InHand(r)'
      BY <1>2, <1>6 DEF InHand
    <3>2. \A q \in tasks[s].batch : q \in Rows \ {r} /\ reached[q] = 0 /\ InHand(q)
      BY <1>1, <1>5, TaskFields DEF HandKept, CampaignInv
    <3>3. \A q \in tasks[s].batch : reached'[q] = 0 /\ InHand(q)'
      BY <1>6, <3>2 DEF InHand
    <3>4. tasks'[s].batch = tasks[s].batch \cup {r}
      BY <1>3, <1>6
    <3> QED
      BY <3>1, <3>3, <3>4
  <2> QED
    BY <1>3, <1>5, <1>6, <2>1 DEF HandKept
<1>9. Held(s)' \subseteq Held(s) \cup {r}
  BY <1>3, <1>6 DEF Held
<1>10. HandsKept' /\ Apart'
  BY <1>2, <1>5, <1>6, <1>7, <1>8, <1>9, OneHand
<1>11. CountsKept'
  <2>1. \A o \in Outcomes : RowsIn(o)' = RowsIn(o) /\ Outstanding(o)' = Outstanding(o)
    BY <1>2, <1>6 DEF RowsIn, Outstanding, Outcomes
  <2>2. \A t \in Servers : tasks'[t].inc = tasks[t].inc /\ tasks'[t].answer = tasks[t].answer
    BY <1>3, <1>6
  <2> QED
    BY <1>6, <2>1, <2>2, BalanceStays DEF CampaignInv
<1>12. RowsKept'
  BY <1>2, <1>6 DEF CampaignInv, RowsKept
<1>13. AdminKept' /\ CampaignTypeOK'
  BY <1>6 DEF CampaignInv, AdminKept, CampaignTypeOK
<1> QED
  BY <1>10, <1>11, <1>12, <1>13 DEF CampaignInv

LEMMA SendRowStep ==
    ASSUME CampaignInv, NEW s \in Servers, SendRow(s)
    PROVE  CampaignInv'
<1>1. PICK r \in tasks[s].batch, o \in Outcomes :
         /\ reached' = [reached EXCEPT ![r] = IF o = "failed" THEN @ ELSE @ + 1]
         /\ tasks' = [tasks EXCEPT ![s].batch = @ \ {r}, ![s].answer = {<<r, o>>}, ![s].inc[o] = @ + 1]
  BY DEF SendRow
<1> DEFINE i == [tasks[s].inc EXCEPT ![o] = tasks[s].inc[o] + 1]
           d == [[[tasks[s] EXCEPT !.batch = tasks[s].batch \ {r}] EXCEPT !.answer = {<<r, o>>}] EXCEPT !.inc = i]
<1>2. r \in Rows /\ tasks[s].pc = "send" /\ tasks[s].answer = {} /\ HandKept(s) /\ s \in alive
  BY <1>1, TaskFields, Resting DEF SendRow, CampaignInv, HandsKept
<1>3. reached[r] = 0 /\ InHand(r) /\ r \in Held(s)
  BY <1>1, <1>2 DEF HandKept, Held
<1>4. /\ tasks[s].inc \in [Outcomes -> Nat] /\ i \in [Outcomes -> Nat] /\ i[o] = tasks[s].inc[o] + 1
      /\ \A p \in Outcomes \ {o} : i[p] = tasks[s].inc[p]
  <2>1. tasks[s].inc \in [Outcomes -> Nat]
    BY TaskFields DEF CampaignInv
  <2> QED
    BY <2>1
<1> HIDE DEF i
<1>5. d \in Task /\ d.pc = "send" /\ d.batch = tasks[s].batch \ {r} /\ d.answer = {<<r, o>>} /\ d.inc = i
  <2>1. tasks[s] \in Task
    BY TaskFields DEF CampaignInv
  <2>2. tasks[s].batch \ {r} \in SUBSET Rows
    BY <2>1 DEF Task
  <2>3. {<<r, o>>} \in SUBSET (Rows \X Outcomes)
    BY <1>2
  <2>4. d \in Task
    BY <1>4, <2>1, <2>2, <2>3 DEF Task
  <2>5. d.pc = "send" /\ d.batch = tasks[s].batch \ {r} /\ d.answer = {<<r, o>>} /\ d.inc = i
    BY <1>2, <2>1 DEF Task
  <2> QED
    BY <2>4, <2>5
<1>6. tasks' = [tasks EXCEPT ![s] = d]
  BY <1>1, <1>2 DEF CampaignInv, CampaignTypeOK, i
<1> HIDE DEF d
<1>7. /\ UNCHANGED <<status, counts, rows, alive, admin, deaths, retries, untold>>
      /\ reached' \in [Rows -> Nat] /\ reached'[r] <= 1 /\ (o = "failed" => reached'[r] = 0)
      /\ (\A q \in Rows \ {r} : reached'[q] = reached[q])
  <2>1. UNCHANGED <<status, counts, rows, alive, admin, deaths, retries, untold>>
    BY DEF SendRow
  <2>2. reached \in [Rows -> Nat]
    BY DEF CampaignInv, CampaignTypeOK
  <2>3. CASE o = "failed"
    <3>1. reached' = [reached EXCEPT ![r] = reached[r]]
      BY <1>1, <2>3
    <3> QED
      BY <1>2, <1>3, <2>1, <2>2, <3>1
  <2>4. CASE o # "failed"
    <3>1. reached' = [reached EXCEPT ![r] = reached[r] + 1]
      BY <1>1, <2>4
    <3> QED
      BY <1>2, <1>3, <2>1, <2>2, <2>4, <3>1
  <2> QED
    BY <2>3, <2>4
<1>8. tasks'[s] = d /\ (\A t \in Servers \ {s} : tasks'[t] = tasks[t]) /\ tasks' \in [Servers -> Task]
  BY <1>5, <1>6 DEF CampaignInv, CampaignTypeOK
<1>9. \A t \in Servers \ {s} : r \notin Held(t)
  BY <1>3 DEF CampaignInv, Apart
<1>10. HandKept(s)'
  <2>1. \A q \in tasks'[s].batch : reached'[q] = 0 /\ InHand(q)'
    <3>1. \A q \in tasks[s].batch \ {r} : q \in Rows \ {r} /\ reached[q] = 0 /\ InHand(q)
      BY <1>2, TaskFields DEF HandKept, CampaignInv
    <3>2. \A q \in tasks[s].batch \ {r} : reached'[q] = 0 /\ InHand(q)'
      BY <1>7, <3>1 DEF InHand
    <3>3. tasks'[s].batch = tasks[s].batch \ {r}
      BY <1>5, <1>8
    <3> QED
      BY <3>2, <3>3
  <2>2. \A q \in Rows, p \in Outcomes : <<q, p>> \in tasks'[s].answer => q = r /\ p = o
    BY <1>5, <1>8
  <2>3. InHand(r)' /\ tasks'[s].inc[o] > 0 /\ r \notin tasks'[s].batch
    BY <1>3, <1>4, <1>5, <1>7, <1>8 DEF InHand
  <2>4. tasks'[s].answer = {<<r, o>>} /\ tasks'[s].pc = "send" /\ s \in alive'
    BY <1>2, <1>5, <1>7, <1>8
  <2> QED
    BY <1>2, <1>7, <2>1, <2>2, <2>3, <2>4 DEF HandKept
<1>11. Held(s)' \subseteq Held(s) \cup {r}
  BY <1>5, <1>8 DEF Held
<1>12. HandsKept' /\ Apart'
  BY <1>2, <1>7, <1>8, <1>9, <1>10, <1>11, OneHand
<1>13. \A p \in Outcomes \ {o} : Tokens(p)' = Tokens(p) /\ Unwritten(p)' = Unwritten(p)
  <2>1. \A p \in Outcomes \ {o}, t \in Servers : tasks'[t].inc[p] = tasks[t].inc[p]
    BY <1>4, <1>5, <1>8
  <2>2. \A p \in Outcomes \ {o}, q \in Rows, t \in Servers : <<q, p>> \in tasks'[t].answer <=> <<q, p>> \in tasks[t].answer
    BY <1>2, <1>5, <1>8
  <2> QED
    BY <2>1, <2>2 DEF Tokens, Unwritten
<1>14. Unwritten(o)' = Unwritten(o) \cup {r} /\ r \notin Unwritten(o)
  <2>1. \A q \in Rows, t \in Servers : <<q, o>> \in tasks'[t].answer <=> <<q, o>> \in tasks[t].answer \/ (t = s /\ q = r)
    BY <1>2, <1>5, <1>8
  <2>2. \A t \in Servers : <<r, o>> \notin tasks[t].answer
    BY <1>2, <1>9 DEF Held
  <2> QED
    BY <1>2, <2>1, <2>2 DEF Unwritten
<1>15. Tokens(o)' = Tokens(o) \cup {<<s, i[o]>>} /\ <<s, i[o]>> \notin Tokens(o)
  <2>1. \A t \in Servers \ {s} : tasks'[t].inc[o] = tasks[t].inc[o]
    BY <1>8
  <2>2. tasks'[s].inc[o] = tasks[s].inc[o] + 1 /\ tasks[s].inc[o] \in Nat
    BY <1>4, <1>5, <1>8
  <2>3. ASSUME NEW t \in Servers, NEW n \in Nat \ {0}
        PROVE  n <= tasks'[t].inc[o] <=> (n <= tasks[t].inc[o] \/ (t = s /\ n = i[o]))
    BY <1>4, <2>1, <2>2, <2>3
  <2>4. <<s, i[o]>> \in Servers \X (Nat \ {0}) /\ ~(i[o] <= tasks[s].inc[o])
    BY <1>4, <2>2
  <2> QED
    BY <2>3, <2>4 DEF Tokens
<1>16. CountsKept'
  <2>1. \A p \in Outcomes : RowsIn(p)' = RowsIn(p) /\ Outstanding(p)' = Outstanding(p)
    BY <1>7 DEF RowsIn, Outstanding
  <2>2. \A p \in Outcomes \ {o} : Balanced(p)'
    BY <1>7, <1>13, <2>1 DEF CampaignInv, CountsKept, Balanced
  <2>3. IsFiniteSet(Tokens(o)') /\ Cardinality(Tokens(o)') = Cardinality(Tokens(o)) + 1
    <3> DEFINE T == Tokens(o)
               x == <<s, i[o]>>
    <3>1. IsFiniteSet(T) /\ x \notin T /\ Cardinality(T) \in Nat
      BY <1>15, CountsNat
    <3>2. Tokens(o)' = T \cup {x}
      BY <1>15
    <3> HIDE DEF T, x
    <3>3. IsFiniteSet(T \cup {x}) /\ Cardinality(T \cup {x}) = Cardinality(T) + 1
      BY <3>1, FS_AddElement
    <3> QED
      BY <3>2, <3>3 DEF T
  <2>4. Cardinality(Unwritten(o)') = Cardinality(Unwritten(o)) + 1
    BY <1>14, CountsNat, FS_AddElement
  <2>5. ~untold => counts[o] + Cardinality(Tokens(o)) = Cardinality(RowsIn(o)) + Cardinality(Unwritten(o)) + Outstanding(o)
    BY DEF CampaignInv, CountsKept, Balanced
  <2>6. ~untold => counts[o] + (Cardinality(Tokens(o)) + 1) = Cardinality(RowsIn(o)) + (Cardinality(Unwritten(o)) + 1) + Outstanding(o)
    BY <2>5, CountsNat
  <2>7. Balanced(o)'
    BY <1>7, <2>1, <2>3, <2>4, <2>6 DEF Balanced
  <2> QED
    BY <2>2, <2>7 DEF CountsKept
<1>17. RowsKept'
  BY <1>3, <1>7 DEF CampaignInv, RowsKept, InHand
<1>18. AdminKept' /\ CampaignTypeOK'
  BY <1>7, <1>8 DEF CampaignInv, AdminKept, CampaignTypeOK
<1> QED
  BY <1>12, <1>16, <1>17, <1>18 DEF CampaignInv

LEMMA RecordRowStep ==
    ASSUME CampaignInv, NEW s \in Servers, RecordRow(s)
    PROVE  CampaignInv'
<1>1. tasks[s].pc = "send" /\ HandKept(s) /\ s \in alive /\ tasks[s] \in Task
  BY Resting, TaskFields DEF RecordRow, CampaignInv, HandsKept
<1>2. PICK r \in Rows, o \in Outcomes : tasks[s].answer = {<<r, o>>} /\ rows' = [rows EXCEPT ![r] = o]
  <2>1. PICK ans \in tasks[s].answer : rows' = [rows EXCEPT ![ans[1]] = ans[2]]
    BY DEF RecordRow
  <2>2. PICK r \in Rows, o \in Outcomes : tasks[s].answer = {<<r, o>>}
    BY <1>1, <2>1 DEF HandKept
  <2>3. ans = <<r, o>>
    BY <2>1, <2>2
  <2> QED
    BY <2>1, <2>2, <2>3
<1> DEFINE d == [tasks[s] EXCEPT !.answer = {}]
<1>3. /\ d \in Task /\ d.pc = "send" /\ d.batch = tasks[s].batch /\ d.answer = {} /\ d.inc = tasks[s].inc
  BY <1>1 DEF Task
<1>4. tasks' = [tasks EXCEPT ![s] = d]
  BY DEF RecordRow, CampaignInv, CampaignTypeOK
<1> HIDE DEF d
<1>5. InHand(r) /\ (o = "failed" => reached[r] = 0) /\ r \notin tasks[s].batch /\ r \in Held(s)
  BY <1>1, <1>2 DEF HandKept, Held
<1>6. UNCHANGED <<status, counts, alive, admin, reached, deaths, retries, untold>>
  BY DEF RecordRow
<1>7. /\ rows'[r] = o /\ (\A q \in Rows \ {r} : rows'[q] = rows[q])
      /\ rows' \in [Rows -> Outcomes \cup {"none", "pending", "sending"}]
  <2>1. rows \in [Rows -> Outcomes \cup {"none", "pending", "sending"}]
    BY DEF CampaignInv, CampaignTypeOK
  <2> QED
    BY <1>2, <2>1
<1>8. tasks'[s] = d /\ (\A t \in Servers \ {s} : tasks'[t] = tasks[t]) /\ tasks' \in [Servers -> Task]
  BY <1>3, <1>4 DEF CampaignInv, CampaignTypeOK
<1>9. \A t \in Servers \ {s} : r \notin Held(t)
  BY <1>5 DEF CampaignInv, Apart
<1>10. HandKept(s)'
  <2>1. \A q \in tasks[s].batch : q \in Rows \ {r} /\ reached[q] = 0 /\ InHand(q)
    BY <1>1, <1>5 DEF HandKept, Task
  <2>2. \A q \in tasks'[s].batch : reached'[q] = 0 /\ InHand(q)'
    BY <1>3, <1>6, <1>7, <1>8, <2>1 DEF InHand
  <2>3. tasks'[s].answer = {} /\ tasks'[s].pc = "send" /\ s \in alive'
    BY <1>1, <1>3, <1>6, <1>8
  <2> QED
    BY <2>2, <2>3 DEF HandKept
<1>11. Held(s)' \subseteq Held(s) \cup {r}
  BY <1>3, <1>8 DEF Held
<1>12. HandsKept' /\ Apart'
  BY <1>1, <1>6, <1>7, <1>8, <1>9, <1>10, <1>11, OneHand
<1>13. \A p \in Outcomes : Tokens(p)' = Tokens(p)
  BY <1>3, <1>8, SameTokens
<1>14. \A p \in Outcomes \ {o} : Unwritten(p)' = Unwritten(p)
  <2>1. \A p \in Outcomes \ {o}, q \in Rows, t \in Servers : <<q, p>> \in tasks'[t].answer <=> <<q, p>> \in tasks[t].answer
    BY <1>2, <1>3, <1>8
  <2> QED
    BY <2>1 DEF Unwritten
<1>15. Unwritten(o)' = Unwritten(o) \ {r} /\ r \in Unwritten(o)
  <2>1. \A t \in Servers \ {s} : <<r, o>> \notin tasks[t].answer
    BY <1>9 DEF Held
  <2>2. \A q \in Rows, t \in Servers : <<q, o>> \in tasks'[t].answer <=> <<q, o>> \in tasks[t].answer /\ q # r
    BY <1>2, <1>3, <1>8, <2>1
  <2>3. <<r, o>> \in tasks[s].answer
    BY <1>2
  <2> QED
    BY <2>2, <2>3 DEF Unwritten
<1>16. CountsKept'
  <2>1. \A p \in Outcomes : Outstanding(p)' = Outstanding(p)
    BY <1>6 DEF Outstanding
  <2>2. CASE untold
    BY <1>6, <1>13, <2>2 DEF CampaignInv, CountsKept, Balanced
  <2>3. CASE ~untold
    <3>1. rows[r] = "sending" /\ ~untold'
      BY <1>5, <1>6, <2>3 DEF InHand
    <3>2. \A p \in Outcomes \ {o} : RowsIn(p)' = RowsIn(p)
      BY <1>7, <3>1 DEF RowsIn, Outcomes
    <3>3. RowsIn(o)' = RowsIn(o) \cup {r} /\ r \notin RowsIn(o)
      BY <1>7, <3>1 DEF RowsIn, Outcomes
    <3>4. \A p \in Outcomes \ {o} : Balanced(p)'
      BY <1>6, <1>13, <1>14, <2>1, <3>2 DEF CampaignInv, CountsKept, Balanced
    <3>5. Cardinality(RowsIn(o)') = Cardinality(RowsIn(o)) + 1
      BY <3>3, CountsNat, FS_AddElement
    <3>6. Cardinality(Unwritten(o)') = Cardinality(Unwritten(o)) - 1
      BY <1>15, CountsNat, FS_RemoveElement
    <3>7. counts[o] + Cardinality(Tokens(o)) = Cardinality(RowsIn(o)) + Cardinality(Unwritten(o)) + Outstanding(o)
      BY <2>3 DEF CampaignInv, CountsKept, Balanced
    <3>8. counts[o] + Cardinality(Tokens(o)) = (Cardinality(RowsIn(o)) + 1) + (Cardinality(Unwritten(o)) - 1) + Outstanding(o)
      BY <3>7, CountsNat
    <3>9. Tokens(o)' = Tokens(o) /\ Outstanding(o)' = Outstanding(o) /\ IsFiniteSet(Tokens(o))
      BY <1>13, <2>1, CountsNat
    <3>10. Balanced(o)'
      BY <1>6, <3>5, <3>6, <3>8, <3>9 DEF Balanced
    <3> QED
      BY <3>4, <3>10 DEF CountsKept
  <2> QED
    BY <2>2, <2>3
<1>17. RowsKept'
  <2>1. rows[r] \in {"sending", "ambiguous"}
    BY <1>5 DEF InHand
  <2> QED
    BY <1>5, <1>6, <1>7, <2>1 DEF CampaignInv, RowsKept, Outcomes
<1>18. AdminKept' /\ CampaignTypeOK'
  BY <1>6, <1>7, <1>8 DEF CampaignInv, AdminKept, CampaignTypeOK
<1> QED
  BY <1>12, <1>16, <1>17, <1>18 DEF CampaignInv

\* What one process has counted is told at once.
LEMMA TokensTold ==
    ASSUME CampaignTypeOK, NEW s \in Servers, NEW o \in Outcomes, IsFiniteSet(Tokens(o)),
           \A t \in Servers \ {s} : tasks'[t] = tasks[t], tasks'[s].inc = NoCounts
    PROVE  /\ IsFiniteSet(Tokens(o)')
           /\ Cardinality(Tokens(o)') = Cardinality(Tokens(o)) - tasks[s].inc[o]
<1> DEFINE n == tasks[s].inc[o]
           N == {s} \X (1 .. n)
<1>1. n \in Nat
  <2>1. tasks[s].inc \in [Outcomes -> Nat]
    BY TaskFields
  <2> QED
    BY <2>1
<1>2. tasks'[s].inc[o] = 0
  BY RestingTask
<1>3. Tokens(o)' = Tokens(o) \ N /\ N \subseteq Tokens(o)
  <2>1. \A t \in Servers \ {s}, k \in Nat \ {0} : k <= tasks'[t].inc[o] <=> k <= tasks[t].inc[o]
    OBVIOUS
  <2>2. \A k \in Nat \ {0} : ~(k <= tasks'[s].inc[o]) /\ (k <= tasks[s].inc[o] <=> k \in 1 .. n)
    BY <1>1, <1>2
  <2> QED
    BY <2>1, <2>2 DEF Tokens
<1> HIDE DEF n
<1>4. IsFiniteSet(N) /\ Cardinality(N) = n
  <2>1. IsFiniteSet({s}) /\ Cardinality({s}) = 1
    BY FS_Singleton
  <2>2. IsFiniteSet(1 .. n) /\ Cardinality(1 .. n) = n
    BY <1>1, FS_Interval
  <2>3. IsFiniteSet({s} \X (1 .. n)) /\ Cardinality({s} \X (1 .. n)) = Cardinality({s}) * Cardinality(1 .. n)
    BY <2>1, <2>2, FS_Product
  <2>4. Cardinality({s}) * Cardinality(1 .. n) = 1 * n
    BY <2>1, <2>2
  <2>5. 1 * n = n
    BY <1>1
  <2> QED
    BY <2>3, <2>4, <2>5
<1> HIDE DEF N
<1>5. IsFiniteSet(Tokens(o) \ N) /\ Cardinality(Tokens(o) \ N) = Cardinality(Tokens(o)) - Cardinality(Tokens(o) \cap N)
  BY <1>4, FS_Difference
<1>6. Tokens(o) \cap N = N
  BY <1>3
<1> QED
  BY <1>3, <1>4, <1>5, <1>6 DEF n

LEMMA CountRowsStep ==
    ASSUME CampaignInv, NEW s \in Servers, CountRows(s)
    PROVE  CampaignInv'
<1> DEFINE d == [NoTask EXCEPT !.pc = "look"]
<1>1. d \in Task /\ d.pc = "look" /\ d.batch = {} /\ d.answer = {} /\ d.inc = NoCounts
  BY RestingTask
<1>2. tasks' = [tasks EXCEPT ![s] = d] /\ tasks[s].answer = {} /\ s \in alive
  BY Resting DEF CountRows, CampaignInv
<1> HIDE DEF d
<1>3. UNCHANGED <<status, rows, alive, admin, reached, deaths, retries, untold>>
  BY DEF CountRows
<1>4. \A o \in Outcomes : counts'[o] = counts[o] + tasks[s].inc[o] /\ tasks[s].inc[o] \in Nat
  <2>1. tasks[s].inc \in [Outcomes -> Nat]
    BY TaskFields DEF CampaignInv
  <2> QED
    BY <2>1 DEF CountRows, Told
<1>5. counts' \in [Outcomes -> Int]
  <2>1. counts' = [o \in Outcomes |-> counts[o] + tasks[s].inc[o]]
    BY DEF CountRows, Told
  <2>2. \A o \in Outcomes : counts[o] + tasks[s].inc[o] \in Int
    BY <1>4, CountsNat
  <2> QED
    BY <2>1, <2>2
<1>6. tasks'[s] = d /\ (\A t \in Servers \ {s} : tasks'[t] = tasks[t]) /\ tasks' \in [Servers -> Task]
  BY <1>1, <1>2 DEF CampaignInv, CampaignTypeOK
<1>7. HandKept(s)'
  BY <1>1, <1>2, <1>3, <1>6 DEF HandKept
<1>8. HandsKept' /\ Apart'
  <2>1. \A t \in Servers \ {s} : HandKept(t)'
    <3> SUFFICES ASSUME NEW t \in Servers \ {s} PROVE HandKept(t)'
      OBVIOUS
    <3>1. tasks[t] \in Task /\ HandKept(t)
      BY TaskFields DEF CampaignInv, HandsKept
    <3>2. \A q \in Held(t) : reached'[q] = reached[q] /\ InHand(q)'
      BY <1>3, HeldInHand DEF CampaignInv, InHand
    <3> QED
      BY <1>3, <1>6, <3>1, <3>2, OtherHands
  <2>2. \A t \in Servers : Held(t)' \subseteq Held(t)
    BY <1>1, <1>6 DEF Held
  <2> QED
    BY <1>7, <2>1, <2>2 DEF HandsKept, CampaignInv, Apart
<1>9. \A o \in Outcomes : Unwritten(o)' = Unwritten(o)
  BY <1>1, <1>2, <1>6, SameWaiting
<1>10. CountsKept'
  <2> SUFFICES ASSUME NEW o \in Outcomes PROVE Balanced(o)'
    BY DEF CountsKept
  <2>1. IsFiniteSet(Tokens(o)') /\ Cardinality(Tokens(o)') = Cardinality(Tokens(o)) - tasks[s].inc[o]
    BY <1>1, <1>6, CountsNat, TokensTold DEF CampaignInv
  <2>2. ~untold => counts[o] + Cardinality(Tokens(o)) = Cardinality(RowsIn(o)) + Cardinality(Unwritten(o)) + Outstanding(o)
    BY DEF CampaignInv, CountsKept, Balanced
  <2>3. counts'[o] + Cardinality(Tokens(o)') = counts[o] + Cardinality(Tokens(o))
    BY <1>4, <2>1, CountsNat
  <2>4. RowsIn(o)' = RowsIn(o) /\ Outstanding(o)' = Outstanding(o) /\ Unwritten(o)' = Unwritten(o)
    BY <1>3, <1>9 DEF RowsIn, Outstanding
  <2> QED
    BY <1>3, <2>1, <2>2, <2>3, <2>4 DEF Balanced
<1>11. RowsKept' /\ AdminKept' /\ CampaignTypeOK'
  BY <1>3, <1>5, <1>6 DEF CampaignInv, RowsKept, AdminKept, CampaignTypeOK
<1> QED
  BY <1>8, <1>10, <1>11 DEF CampaignInv

-----------------------------------------------------------------------------
(* Processes die and start. *)

LEMMA DieStep ==
    ASSUME CampaignInv, NEW s \in Servers, Die(s)
    PROVE  CampaignInv'
<1>1. /\ UNCHANGED <<status, counts, rows, reached, retries>> /\ deaths' \in 0 .. Deaths
      /\ alive' = alive \ {s} /\ s \in alive
      /\ admin' = (IF s \in admin.server THEN NoAdmin ELSE admin)
      /\ untold' = (untold \/ tasks[s].inc # NoCounts \/ s \in admin.server)
      /\ untold \in BOOLEAN /\ untold' \in BOOLEAN
  BY CampaignBounds DEF Die, CampaignInv, CampaignTypeOK
<1>2. tasks'[s] = NoTask /\ (\A t \in Servers \ {s} : tasks'[t] = tasks[t]) /\ tasks' \in [Servers -> Task]
  BY RestingTask DEF Die, CampaignInv, CampaignTypeOK
<1>3. untold => untold'
  BY <1>1
<1>4. HandKept(s)'
  BY <1>1, <1>2, RestingTask DEF HandKept
<1>5. HandsKept' /\ Apart'
  <2>1. \A t \in Servers \ {s} : HandKept(t)'
    <3> SUFFICES ASSUME NEW t \in Servers \ {s} PROVE HandKept(t)'
      OBVIOUS
    <3>1. tasks[t] \in Task /\ HandKept(t)
      BY TaskFields DEF CampaignInv, HandsKept
    <3>2. \A q \in Held(t) : reached'[q] = reached[q] /\ InHand(q)'
      BY <1>1, <1>3, HeldInHand DEF CampaignInv, InHand
    <3> QED
      BY <1>1, <1>2, <1>3, <3>1, <3>2, OtherHands
  <2>2. \A t \in Servers : Held(t)' \subseteq Held(t)
    BY <1>2, RestingTask DEF Held
  <2> QED
    BY <1>4, <2>1, <2>2 DEF HandsKept, CampaignInv, Apart
<1>6. CountsKept'
  <2> SUFFICES ASSUME NEW o \in Outcomes PROVE Balanced(o)'
    BY DEF CountsKept
  <2>1. IsFiniteSet(Tokens(o)') /\ Cardinality(Tokens(o)') = Cardinality(Tokens(o)) - tasks[s].inc[o]
    BY <1>2, RestingTask, CountsNat, TokensTold DEF CampaignInv
  <2>2. CASE untold'
    BY <2>1, <2>2 DEF Balanced
  <2>3. CASE ~untold'
    <3>1. ~untold /\ tasks[s].inc = NoCounts /\ admin' = admin
      BY <1>1, <2>3
    <3>2. tasks[s].inc[o] = 0
      BY <3>1, RestingTask
    <3>3. Cardinality(Tokens(o)') = Cardinality(Tokens(o))
      BY <2>1, <3>2, CountsNat
    <3>4. tasks[s].answer = {}
      <4>1. \A p \in Outcomes : ~(tasks[s].inc[p] > 0)
        BY <3>1, RestingTask
      <4>2. HandKept(s)
        BY DEF CampaignInv, HandsKept
      <4> QED
        BY <4>1, <4>2 DEF HandKept
    <3>5. Unwritten(o)' = Unwritten(o)
      <4>1. \A t \in Servers : tasks'[t].answer = tasks[t].answer
        BY <1>2, <3>4, RestingTask
      <4> QED
        BY <4>1, SameWaiting
    <3>6. RowsIn(o)' = RowsIn(o) /\ Outstanding(o)' = Outstanding(o)
      BY <1>1, <3>1 DEF RowsIn, Outstanding
    <3>7. counts[o] + Cardinality(Tokens(o)) = Cardinality(RowsIn(o)) + Cardinality(Unwritten(o)) + Outstanding(o)
      BY <3>1 DEF CampaignInv, CountsKept, Balanced
    <3> QED
      BY <1>1, <2>1, <3>3, <3>5, <3>6, <3>7 DEF Balanced
  <2> QED
    BY <2>2, <2>3
<1>7. RowsKept'
  BY <1>1, RestingTask DEF CampaignInv, RowsKept
<1>8. AdminKept'
  BY <1>1, RestingTask DEF CampaignInv, AdminKept
<1>9. CampaignTypeOK'
  BY <1>1, <1>2, RestingTask DEF CampaignInv, CampaignTypeOK
<1> QED
  BY <1>5, <1>6, <1>7, <1>8, <1>9 DEF CampaignInv

LEMMA BootTask ==
    ASSUME CampaignInv, NEW s \in Servers, s \notin alive, StartTask(s)
    PROVE  /\ tasks' \in [Servers -> Task] /\ \A t \in Servers \ {s} : tasks'[t] = tasks[t]
           /\ tasks'[s].batch = {} /\ tasks'[s].answer = {} /\ tasks'[s].inc = NoCounts /\ tasks[s] = NoTask
<1> DEFINE d == [NoTask EXCEPT !.pc = "start"]
<1>1. tasks[s] = NoTask
  BY DEF CampaignInv, HandsKept, HandKept
<1>2. d \in Task /\ d.batch = {} /\ d.answer = {} /\ d.inc = NoCounts
  BY RestingTask DEF NoTask, Task
<1>3. tasks' = [tasks EXCEPT ![s] = d]
  BY <1>1, RestingTask DEF StartTask, CampaignInv, CampaignTypeOK
<1> QED
  BY <1>1, <1>2, <1>3 DEF CampaignInv, CampaignTypeOK

LEMMA BootStep ==
    ASSUME CampaignInv, NEW s \in Servers, Boot(s)
    PROVE  CampaignInv'
<1> DEFINE stuck == RowsIn("sending")
<1>1. s \notin alive /\ alive' = alive \cup {s} /\ UNCHANGED <<status, admin, reached, deaths, retries>>
  BY DEF Boot
<1>2. CASE status \in Going
  <2>1. /\ rows' = [r \in Rows |-> IF r \in stuck THEN "ambiguous" ELSE rows[r]]
        /\ counts' = [counts EXCEPT !["ambiguous"] = counts["ambiguous"] + Cardinality(stuck)]
        /\ untold' = (untold \/ \E q \in alive : tasks[q].batch # {} \/ tasks[q].answer # {})
        /\ StartTask(s)
    BY <1>2 DEF Boot, Resumed, StuckRowsBecome
  <2>2. /\ tasks' \in [Servers -> Task] /\ (\A t \in Servers \ {s} : tasks'[t] = tasks[t])
        /\ tasks'[s].batch = {} /\ tasks'[s].answer = {} /\ tasks'[s].inc = NoCounts /\ tasks[s] = NoTask
    BY <1>1, <2>1, BootTask
  <2>3. \A t \in Servers : t \notin alive => tasks[t].batch = {} /\ tasks[t].answer = {}
    BY RestingTask DEF CampaignInv, HandsKept, HandKept
  <2>4. \A r \in Rows : rows'[r] = IF rows[r] = "sending" THEN "ambiguous" ELSE rows[r]
    BY <2>1 DEF RowsIn
  <2>5. HandKept(s)'
    BY <1>1, <2>2 DEF HandKept
  <2>6. HandsKept' /\ Apart'
    <3>1. \A t \in Servers \ {s} : HandKept(t)'
      <4> SUFFICES ASSUME NEW t \in Servers \ {s} PROVE HandKept(t)'
        OBVIOUS
      <4>1. tasks[t] \in Task /\ HandKept(t)
        BY TaskFields DEF CampaignInv, HandsKept
      <4>2. ASSUME NEW q \in Held(t) PROVE reached'[q] = reached[q] /\ InHand(q)'
        <5>1. t \in alive /\ (tasks[t].batch # {} \/ tasks[t].answer # {})
          BY <2>3 DEF Held
        <5>2. q \in Rows /\ InHand(q) /\ untold'
          BY <2>1, <5>1, HeldInHand, TaskFields DEF Held, CampaignInv
        <5> QED
          BY <1>1, <2>4, <5>2 DEF InHand
      <4>3. untold => untold'
        BY <2>1
      <4> QED
        BY <1>1, <2>2, <4>1, <4>2, <4>3, OtherHands
    <3>2. \A t \in Servers : Held(t)' \subseteq Held(t)
      BY <2>2 DEF Held
    <3> QED
      BY <2>5, <3>1, <3>2 DEF HandsKept, CampaignInv, Apart
  <2>7. counts' \in [Outcomes -> Int] /\ counts'["ambiguous"] = counts["ambiguous"] + Cardinality(stuck)
        /\ counts'["sent"] = counts["sent"] /\ counts'["failed"] = counts["failed"]
    BY <2>1, RowsFinite, CampaignBounds DEF CampaignInv, CampaignTypeOK
  <2>8. \A o \in Outcomes : Tokens(o)' = Tokens(o) /\ Unwritten(o)' = Unwritten(o)
    <3>1. \A t \in Servers : tasks'[t].inc = tasks[t].inc /\ tasks'[t].answer = tasks[t].answer
      BY <2>2, RestingTask
    <3> QED
      BY <3>1, SameTokens, SameWaiting
  <2>9. CountsKept'
    <3>1. \A o \in Outcomes : Outstanding(o)' = Outstanding(o)
      BY <1>1 DEF Outstanding
    <3>2. RowsIn("sent")' = RowsIn("sent") /\ RowsIn("failed")' = RowsIn("failed")
      BY <2>4 DEF RowsIn
    <3>3. RowsIn("ambiguous")' = RowsIn("ambiguous") \cup stuck /\ RowsIn("ambiguous") \cap stuck = {}
      BY <2>4 DEF RowsIn
    <3>4. untold => untold'
      BY <2>1
    <3>5. Balanced("sent")' /\ Balanced("failed")'
      BY <2>7, <2>8, <3>1, <3>2, <3>4 DEF CampaignInv, CountsKept, Balanced, Outcomes
    <3>6. Cardinality(RowsIn("ambiguous")') = Cardinality(RowsIn("ambiguous")) + Cardinality(stuck)
      <4>1. Cardinality(RowsIn("ambiguous") \cap stuck) = 0
        BY <3>3, FS_EmptySet
      <4>2. Cardinality(RowsIn("ambiguous") \cup stuck)
              = Cardinality(RowsIn("ambiguous")) + Cardinality(stuck) - Cardinality(RowsIn("ambiguous") \cap stuck)
        BY RowsFinite, FS_Union
      <4>3. Cardinality(RowsIn("ambiguous")) \in Nat /\ Cardinality(stuck) \in Nat
        BY RowsFinite
      <4>4. Cardinality(RowsIn("ambiguous") \cup stuck) = Cardinality(RowsIn("ambiguous")) + Cardinality(stuck)
        BY <4>1, <4>2, <4>3
      <4> QED
        BY <3>3, <4>4
    <3>7. Balanced("ambiguous") /\ Tokens("ambiguous")' = Tokens("ambiguous")
          /\ Unwritten("ambiguous")' = Unwritten("ambiguous") /\ Outstanding("ambiguous")' = Outstanding("ambiguous")
      BY <2>8, <3>1 DEF CampaignInv, CountsKept, Outcomes
    <3>8. /\ Cardinality(Tokens("ambiguous")) \in Nat /\ Cardinality(Unwritten("ambiguous")) \in Nat
          /\ counts["ambiguous"] \in Int /\ Outstanding("ambiguous") \in Nat /\ Cardinality(stuck) \in Nat
          /\ Cardinality(RowsIn("ambiguous")) \in Nat
      BY CountsNat, RowsFinite, CampaignBounds
    <3>9. ASSUME ~untold'
          PROVE  counts'["ambiguous"] + Cardinality(Tokens("ambiguous"))
                   = Cardinality(RowsIn("ambiguous")') + Cardinality(Unwritten("ambiguous")) + Outstanding("ambiguous")
      <4>1. counts["ambiguous"] + Cardinality(Tokens("ambiguous"))
              = Cardinality(RowsIn("ambiguous")) + Cardinality(Unwritten("ambiguous")) + Outstanding("ambiguous")
        BY <3>4, <3>7, <3>9 DEF Balanced
      <4> QED
        BY <2>7, <3>6, <3>8, <4>1
    <3>10. Balanced("ambiguous")'
      BY <3>7, <3>9 DEF Balanced
    <3> QED
      BY <3>5, <3>10, CampaignBounds DEF CountsKept
  <2>10. RowsKept'
    BY <1>1, <2>4 DEF CampaignInv, RowsKept
  <2>11. AdminKept'
    BY <1>1 DEF CampaignInv, AdminKept
  <2>12. CampaignTypeOK'
    <3>1. rows' \in [Rows -> Outcomes \cup {"none", "pending", "sending"}]
      BY <2>1, CampaignBounds DEF CampaignInv, CampaignTypeOK
    <3> QED
      BY <1>1, <2>1, <2>2, <2>7, <3>1 DEF CampaignInv, CampaignTypeOK
  <2> QED
    BY <2>6, <2>9, <2>10, <2>11, <2>12 DEF CampaignInv
<1>3. CASE status \notin Going
  <2>1. UNCHANGED <<rows, counts, untold, tasks>>
    BY <1>3 DEF Boot, Resumed
  <2>2. HandsKept'
    <3> SUFFICES ASSUME NEW t \in Servers PROVE HandKept(t)'
      BY DEF HandsKept
    <3>1. HandKept(t)
      BY DEF CampaignInv, HandsKept
    <3> QED
      BY <1>1, <2>1, <3>1 DEF HandKept, InHand
  <2>3. Apart'
    BY <2>1 DEF CampaignInv, Apart, Held
  <2>4. CountsKept'
    BY <1>1, <2>1, BalanceStays DEF CampaignInv, RowsIn, Outstanding
  <2>5. RowsKept' /\ AdminKept' /\ CampaignTypeOK'
    BY <1>1, <2>1 DEF CampaignInv, RowsKept, AdminKept, CampaignTypeOK
  <2> QED
    BY <2>2, <2>3, <2>4, <2>5 DEF CampaignInv
<1> QED
  BY <1>2, <1>3

-----------------------------------------------------------------------------

LEMMA CampaignStart == CampaignInit => CampaignInv
<1> SUFFICES ASSUME CampaignInit PROVE CampaignInv
  OBVIOUS
<1>1. /\ status = "none" /\ counts = NoCounts /\ rows = [r \in Rows |-> "none"] /\ alive = {} /\ admin = NoAdmin
      /\ tasks = [s \in Servers |-> NoTask] /\ reached = [r \in Rows |-> 0] /\ deaths = 0 /\ retries = 0
      /\ untold = FALSE
  BY DEF CampaignInit
<1>2. CampaignTypeOK
  <2>1. status \in Going \cup {"none", "done", "cancelled"} /\ alive \subseteq Servers /\ untold \in BOOLEAN
    BY <1>1
  <2>2. deaths \in 0 .. Deaths /\ retries \in 0 .. Retries
    BY <1>1, CampaignBounds
  <2>3. counts \in [Outcomes -> Int]
    BY <1>1, RestingTask
  <2>4. tasks \in [Servers -> Task] /\ admin \in Admin
    BY <1>1, RestingTask
  <2>5. rows \in [Rows -> Outcomes \cup {"none", "pending", "sending"}] /\ reached \in [Rows -> Nat]
    BY <1>1
  <2> QED
    BY <2>1, <2>2, <2>3, <2>4, <2>5 DEF CampaignTypeOK
<1>3. HandsKept /\ Apart
  BY <1>1, RestingTask DEF HandsKept, HandKept, Apart, Held
<1>4. RowsKept /\ AdminKept
  BY <1>1, RestingTask DEF RowsKept, AdminKept
<1>5. CountsKept
  <2> SUFFICES ASSUME NEW o \in Outcomes PROVE Balanced(o)
    BY DEF CountsKept
  <2>1. Tokens(o) = {} /\ RowsIn(o) = {} /\ Unwritten(o) = {} /\ Outstanding(o) = 0 /\ counts[o] = 0
    BY <1>1, RestingTask DEF Tokens, RowsIn, Unwritten, Outstanding, Outcomes
  <2>2. IsFiniteSet({}) /\ Cardinality({}) = 0
    BY FS_EmptySet
  <2> QED
    BY <2>1, <2>2 DEF Balanced
<1> QED
  BY <1>2, <1>3, <1>4, <1>5 DEF CampaignInv

\* Once all is told, nothing is left between the counters and the rows.
LEMMA CampaignSettles == CampaignInv => CampaignSound
<1> SUFFICES ASSUME CampaignInv PROVE CampaignSound
  OBVIOUS
<1>1. NeverSentTwice
  BY DEF CampaignInv, RowsKept, NeverSentTwice
<1>2. CountersAgree
  <2> SUFFICES ASSUME ~untold, admin.pc = "idle", \A s \in Servers : tasks[s].inc = NoCounts, NEW o \in Outcomes
               PROVE  counts[o] = Cardinality(RowsIn(o))
    BY DEF CountersAgree
  <2>1. Tokens(o) = {}
    BY RestingTask DEF Tokens
  <2>2. Unwritten(o) = {}
    BY RestingTask DEF Unwritten, CampaignInv, HandsKept, HandKept
  <2>3. Outstanding(o) = 0 /\ Cardinality({}) = 0
    BY FS_EmptySet DEF Outstanding
  <2>4. counts[o] + Cardinality(Tokens(o)) = Cardinality(RowsIn(o)) + Cardinality(Unwritten(o)) + Outstanding(o)
    BY DEF CampaignInv, CountsKept, Balanced
  <2>5. counts[o] + 0 = Cardinality(RowsIn(o)) + 0 + 0
    BY <2>1, <2>2, <2>3, <2>4
  <2> QED
    BY <2>5, CountsNat
<1> QED
  BY <1>1, <1>2 DEF CampaignSound

\* Whatever dies, starts, overlaps, is cancelled or retried: a student is not sent a campaign's message
\* twice, and once all is told the counters agree with the rows (_run_sms_campaign, _resume_sms_campaigns).
THEOREM CampaignHolds == CampaignSpec => [](CampaignTypeOK /\ CampaignSound)
<1>1. CampaignInit => CampaignInv
  BY CampaignStart
<1>2. CampaignInv /\ [CampaignNext]_campaignVars => CampaignInv'
  <2> SUFFICES ASSUME CampaignInv, [CampaignNext]_campaignVars PROVE CampaignInv'
    OBVIOUS
  <2>1. CASE UNCHANGED campaignVars
    <3>1. HandsKept' /\ Apart' /\ CountsKept'
      BY <2>1, QuietKeeps DEF campaignVars, Outstanding
    <3>2. CampaignTypeOK' /\ RowsKept' /\ AdminKept'
      BY <2>1 DEF campaignVars, CampaignInv, CampaignTypeOK, RowsKept, AdminKept
    <3> QED
      BY <3>1, <3>2 DEF CampaignInv
  <2>2. CASE AdminStep \/ CancelCampaign
    <3>1. CASE InsertRows
      BY <3>1, InsertRowsStep
    <3>2. CASE RequeueRows
      BY <3>2, RequeueRowsStep
    <3>3. CASE RequeueCampaign
      BY <3>3, RequeueCampaignStep
    <3>4. CASE InsertCampaign \/ StartCampaign \/ CancelCampaign
      BY <3>4, QuietAdminStep DEF QuietAdmin
    <3> QED
      BY <2>2, <3>1, <3>2, <3>3, <3>4 DEF AdminStep
  <2>3. CASE \E s \in Servers : SendCampaign(s) \/ RetryFailed(s) \/ TaskStep(s) \/ Die(s) \/ Boot(s)
    <3>1. PICK s \in Servers : SendCampaign(s) \/ RetryFailed(s) \/ TaskStep(s) \/ Die(s) \/ Boot(s)
      BY <2>3
    <3>2. CASE SendCampaign(s) \/ RetryFailed(s)
      BY <3>2, QuietAdminStep DEF QuietAdmin
    <3>3. CASE TaskStep(s)
      BY <3>3, QuietTaskStep, ClaimRowStep, SendRowStep, RecordRowStep, CountRowsStep DEF TaskStep, QuietOne
    <3>4. CASE Die(s) \/ Boot(s)
      BY <3>4, DieStep, BootStep
    <3> QED
      BY <3>1, <3>2, <3>3, <3>4
  <2> QED
    BY <2>1, <2>2, <2>3 DEF CampaignNext
<1>3. CampaignInv => CampaignTypeOK /\ CampaignSound
  BY CampaignSettles DEF CampaignInv
<1> QED
  BY <1>1, <1>2, <1>3, PTL DEF CampaignSpec

-----------------------------------------------------------------------------
(* The copies of the database: the mirror (Mirror).                            *)

\* The sync finds the digest that is remembered, and leaves the collection alone.
Skipping == ~sync.whole /\ remembered.digest = sync.digest

Copying == {"prune", "upsert", "events", "mark", "save"}

CopyKept ==
    /\ (sync.pc \in {"idle", "digest", "prune"} \/ (sync.pc \in {"events", "mark", "save"} /\ Skipping))
         /\ ~shaky /\ remembered.digest \in MirrorVersions => copy = remembered.digest
    /\ sync.pc \in {"prune", "upsert"} => ~Skipping
    /\ sync.pc \in Copying => sync.digest \in MirrorVersions /\ (~sync.moved => live = sync.digest)
    /\ sync.pc = "upsert" /\ ~sync.moved => \A d \in MirrorDocs : live[d] = 0 => copy[d] = 0
    /\ sync.pc \in {"events", "mark", "save"} /\ ~Skipping /\ ~sync.moved => copy = sync.digest

EventsKept ==
    /\ \A e \in liveEvents : e <= now
    /\ remembered.mark <= now /\ sync.mark <= now
    /\ \A e \in liveEvents : e < remembered.mark - MirrorOverlap => e \in copyEvents
    /\ sync.pc \in {"digest", "prune", "upsert", "events", "mark"} => sync.mark = remembered.mark
    /\ sync.pc = "mark" =>
         /\ sync.since <= now /\ now <= sync.since + Slowness
         /\ \A e \in liveEvents : e \in copyEvents \/ e >= sync.since - EventLateness
    /\ sync.pc = "save" => \A e \in liveEvents : e < sync.mark - MirrorOverlap => e \in copyEvents

MirrorInv == MirrorTypeOK /\ CopyKept /\ EventsKept

MirrorPcs == {"idle", "digest", "prune", "upsert", "events", "mark", "save"}

LEMMA MirrorBounds ==
    /\ MirrorWrites \in Nat /\ MirrorSeconds \in Nat /\ EventLateness \in Nat /\ MirrorOverlap \in Nat
    /\ Slowness \in Nat /\ MirrorSeconds > 0 /\ MirrorResets \in Nat /\ Timeouts \in Nat
    /\ EventLateness + Slowness <= MirrorOverlap
BY MirrorAssumption

LEMMA NoSyncFields ==
    /\ NoSync \in Sync /\ NoSync.pc = "idle" /\ NoSync.whole = FALSE /\ NoSync.digest = NoDigest /\ NoSync.mark = 0
    /\ NoSync.since = 0 /\ NoSync.moved = FALSE /\ NoDigest \in Digests
BY DEF NoSync, Sync, Digests

LEMMA SyncFields ==
    ASSUME MirrorTypeOK
    PROVE  /\ sync \in Sync /\ sync.pc \in MirrorPcs /\ sync.whole \in BOOLEAN /\ sync.digest \in Digests
           /\ sync.mark \in {0} \cup EventIds /\ sync.mark \in Nat /\ sync.since \in Nat /\ sync.moved \in BOOLEAN
           /\ remembered.digest \in Digests /\ remembered.mark \in {0} \cup EventIds /\ remembered.mark \in Nat
           /\ now \in Nat /\ \A e \in liveEvents : e \in Nat
BY MirrorBounds DEF MirrorTypeOK, Sync, MirrorPcs, EventIds

\* The clock goes on, the application's events come and go.
LEMMA EventStep ==
    ASSUME MirrorInv, Pass \/ (\E e \in EventIds : AppendEvent(e)) \/ DeleteEvents
    PROVE  MirrorInv'
<1>1. UNCHANGED <<live, copy, copyEvents, writes, remembered, sync, shaky, timeouts>>
  BY DEF Pass, AppendEvent, DeleteEvents
<1>2. CopyKept'
  BY <1>1 DEF MirrorInv, CopyKept, Skipping
<1>3. CASE Pass
  <2>1. now' = now + 1 /\ now' \in 1 .. MirrorSeconds /\ UNCHANGED <<liveEvents, mirrorResets>>
        /\ (sync.pc = "mark" => now < sync.since + Slowness)
    BY <1>3, MirrorBounds DEF Pass, MirrorInv, MirrorTypeOK
  <2>2. EventsKept'
    BY <1>1, <2>1, SyncFields, MirrorBounds DEF MirrorInv, EventsKept
  <2> QED
    BY <1>1, <1>2, <2>1, <2>2 DEF MirrorInv, MirrorTypeOK
<1>4. CASE \E e \in EventIds : AppendEvent(e)
  <2>1. PICK e \in EventIds : AppendEvent(e)
    BY <1>4
  <2>2. liveEvents' = liveEvents \cup {e} /\ e <= now /\ e >= now - EventLateness /\ UNCHANGED <<now, mirrorResets>>
        /\ e \in Nat
    BY <2>1, MirrorBounds, SyncFields DEF AppendEvent, EventIds, MirrorInv
  <2>3. \A x \in liveEvents' : x = e \/ x \in liveEvents
    BY <2>2
  <2>4. EventsKept'
    BY <1>1, <2>2, <2>3, SyncFields, MirrorBounds DEF MirrorInv, EventsKept
  <2>5. liveEvents' \subseteq EventIds
    BY <2>2 DEF MirrorInv, MirrorTypeOK
  <2> QED
    BY <1>1, <1>2, <2>2, <2>4, <2>5 DEF MirrorInv, MirrorTypeOK
<1>5. CASE DeleteEvents
  <2>1. liveEvents' = {} /\ UNCHANGED now /\ mirrorResets' \in 0 .. MirrorResets
    BY <1>5, MirrorBounds DEF DeleteEvents, MirrorInv, MirrorTypeOK
  <2>2. EventsKept'
    BY <1>1, <2>1 DEF MirrorInv, EventsKept
  <2> QED
    BY <1>1, <1>2, <2>1, <2>2 DEF MirrorInv, MirrorTypeOK
<1> QED
  BY <1>3, <1>4, <1>5

\* A document moves: the sync that has taken its digest is told.
LEMMA DocumentStep ==
    ASSUME MirrorInv, \E d \in MirrorDocs : WriteDoc(d) \/ DeleteDoc(d)
    PROVE  MirrorInv'
<1>1. /\ UNCHANGED <<now, copy, liveEvents, copyEvents, remembered, shaky, mirrorResets, timeouts>> /\ Moving
      /\ writes' \in 0 .. MirrorWrites /\ live' \in MirrorVersions
  <2> PICK d \in MirrorDocs : WriteDoc(d) \/ DeleteDoc(d)
    OBVIOUS
  <2>1. CASE WriteDoc(d)
    BY <2>1, MirrorBounds DEF WriteDoc, MirrorInv, MirrorTypeOK, MirrorVersions
  <2>2. CASE DeleteDoc(d)
    BY <2>2, MirrorBounds DEF DeleteDoc, MirrorInv, MirrorTypeOK, MirrorVersions
  <2> QED
    BY <2>1, <2>2
<1>2. /\ sync' \in Sync /\ sync'.pc = sync.pc /\ sync'.whole = sync.whole /\ sync'.digest = sync.digest
      /\ sync'.mark = sync.mark /\ sync'.since = sync.since /\ (sync.pc \in Copying => sync'.moved)
  <2> DEFINE b == sync.pc \in Copying
  <2>1. sync' = [sync EXCEPT !.moved = b] /\ sync \in Sync
    BY <1>1, SyncFields DEF Moving, MirrorInv, Copying
  <2>2. b \in BOOLEAN /\ (sync.pc \in Copying => b = TRUE)
    OBVIOUS
  <2> HIDE DEF b
  <2> QED
    BY <2>1, <2>2 DEF Sync
<1>3. CopyKept'
  BY <1>1, <1>2 DEF MirrorInv, CopyKept, Skipping, Copying
<1>4. EventsKept'
  BY <1>1, <1>2 DEF MirrorInv, EventsKept
<1> QED
  BY <1>1, <1>2, <1>3, <1>4 DEF MirrorInv, MirrorTypeOK

LEMMA BeginSyncStep ==
    ASSUME MirrorInv, \E whole \in BOOLEAN : BeginSync(whole)
    PROVE  MirrorInv'
<1>1. PICK whole \in BOOLEAN : BeginSync(whole)
  OBVIOUS
<1>2. UNCHANGED <<now, live, copy, liveEvents, copyEvents, writes, remembered, shaky, mirrorResets, timeouts>>
      /\ sync.pc = "idle"
  BY <1>1 DEF BeginSync
<1>3. sync' \in Sync /\ sync'.pc = "digest" /\ sync'.mark = remembered.mark
  BY <1>1, SyncFields, NoSyncFields DEF BeginSync, MirrorInv, Sync
<1>4. CopyKept'
  BY <1>2, <1>3 DEF MirrorInv, CopyKept, Copying
<1>5. EventsKept'
  BY <1>2, <1>3 DEF MirrorInv, EventsKept
<1> QED
  BY <1>2, <1>3, <1>4, <1>5 DEF MirrorInv, MirrorTypeOK

LEMMA TakeDigestStep ==
    ASSUME MirrorInv, TakeDigest
    PROVE  MirrorInv'
<1>1. UNCHANGED <<now, live, copy, liveEvents, copyEvents, writes, remembered, shaky, mirrorResets, timeouts>>
      /\ sync.pc = "digest"
  BY DEF TakeDigest
<1>2. live \in MirrorVersions /\ live \in Digests
  BY DEF MirrorInv, MirrorTypeOK, Digests
<1>3. /\ sync' \in Sync /\ sync'.whole = sync.whole /\ sync'.digest = live /\ sync'.mark = sync.mark
      /\ sync'.moved = FALSE
      /\ sync'.pc = IF sync.whole \/ remembered.digest # live THEN "prune" ELSE "events"
  BY <1>2, SyncFields DEF TakeDigest, MirrorInv, Sync
<1>4. CopyKept'
  BY <1>1, <1>2, <1>3, SyncFields DEF MirrorInv, CopyKept, Skipping, Copying
<1>5. EventsKept'
  BY <1>1, <1>3 DEF MirrorInv, EventsKept
<1> QED
  BY <1>1, <1>3, <1>4, <1>5 DEF MirrorInv, MirrorTypeOK

LEMMA PruneStep ==
    ASSUME MirrorInv, Prune
    PROVE  MirrorInv'
<1>1. UNCHANGED <<now, live, liveEvents, copyEvents, writes, remembered, shaky, mirrorResets, timeouts>>
      /\ sync.pc = "prune"
  BY DEF Prune
<1>2. /\ sync' \in Sync /\ sync'.pc = "upsert" /\ sync'.whole = sync.whole /\ sync'.digest = sync.digest
      /\ sync'.mark = sync.mark /\ sync'.moved = sync.moved
  BY SyncFields DEF Prune, MirrorInv, Sync
<1>3. copy' \in MirrorVersions /\ \A d \in MirrorDocs : live[d] = 0 => copy'[d] = 0
  <2>1. copy' = [d \in MirrorDocs |-> IF d \in Keep THEN copy[d] ELSE 0]
    BY DEF Prune
  <2>2. copy \in [MirrorDocs -> 0 .. MirrorWrites] /\ 0 \in 0 .. MirrorWrites
    BY MirrorBounds DEF MirrorInv, MirrorTypeOK, MirrorVersions
  <2> QED
    BY <2>1, <2>2 DEF Keep, MirrorVersions
<1>4. CopyKept'
  BY <1>1, <1>2, <1>3 DEF MirrorInv, CopyKept, Skipping, Copying
<1>5. EventsKept'
  BY <1>1, <1>2 DEF MirrorInv, EventsKept
<1> QED
  BY <1>1, <1>2, <1>3, <1>4, <1>5 DEF MirrorInv, MirrorTypeOK

LEMMA UpsertStep ==
    ASSUME MirrorInv, Upsert
    PROVE  MirrorInv'
<1>1. UNCHANGED <<now, live, liveEvents, copyEvents, writes, remembered, shaky, mirrorResets, timeouts>>
      /\ sync.pc = "upsert"
  BY DEF Upsert
<1>2. /\ sync' \in Sync /\ sync'.pc = "events" /\ sync'.whole = sync.whole /\ sync'.digest = sync.digest
      /\ sync'.mark = sync.mark /\ sync'.moved = sync.moved
  BY SyncFields DEF Upsert, MirrorInv, Sync
<1>3. copy' = [d \in MirrorDocs |-> IF live[d] # 0 THEN live[d] ELSE copy[d]]
  BY DEF Upsert
<1>4. copy \in [MirrorDocs -> 0 .. MirrorWrites] /\ live \in [MirrorDocs -> 0 .. MirrorWrites]
  BY DEF MirrorInv, MirrorTypeOK, MirrorVersions
<1>5. copy' \in MirrorVersions
  BY <1>3, <1>4 DEF MirrorVersions
<1>6. ASSUME ~sync.moved PROVE copy' = live
  <2>1. \A d \in MirrorDocs : live[d] = 0 => copy[d] = 0
    BY <1>1, <1>6 DEF MirrorInv, CopyKept
  <2>2. \A d \in MirrorDocs : copy'[d] = live[d]
    BY <1>3, <2>1
  <2> QED
    BY <1>4, <1>5, <2>2 DEF MirrorVersions
<1>7. CopyKept'
  BY <1>1, <1>2, <1>6 DEF MirrorInv, CopyKept, Skipping, Copying
<1>8. EventsKept'
  BY <1>1, <1>2 DEF MirrorInv, EventsKept
<1> QED
  BY <1>1, <1>2, <1>5, <1>7, <1>8 DEF MirrorInv, MirrorTypeOK

LEMMA CopyEventsStep ==
    ASSUME MirrorInv, CopyEvents
    PROVE  MirrorInv'
<1>1. UNCHANGED <<now, live, copy, liveEvents, writes, remembered, shaky, mirrorResets, timeouts>>
      /\ sync.pc = "events" /\ copyEvents' = Copied
  BY DEF CopyEvents
<1>2. /\ sync' \in Sync /\ sync'.pc = "mark" /\ sync'.whole = sync.whole /\ sync'.digest = sync.digest
      /\ sync'.mark = sync.mark /\ sync'.moved = sync.moved /\ sync'.since = now
  BY SyncFields DEF CopyEvents, MirrorInv, Sync
<1>3. copyEvents' \subseteq EventIds
  BY <1>1 DEF Copied, From, MirrorInv, MirrorTypeOK
<1>4. \A e \in liveEvents : e \in copyEvents'
  <2> TAKE e \in liveEvents
  <2>1. CASE sync.whole \/ sync.mark = 0
    BY <1>1, <2>1 DEF Copied
  <2>2. CASE ~(sync.whole \/ sync.mark = 0)
    <3>1. copyEvents' = copyEvents \cup From
      BY <1>1, <2>2 DEF Copied
    <3>2. e >= sync.mark - MirrorOverlap => e \in From
      BY DEF From
    <3>3. e < sync.mark - MirrorOverlap => e \in copyEvents
      BY <1>1 DEF MirrorInv, EventsKept
    <3>4. e \in Nat /\ sync.mark \in Nat
      BY SyncFields DEF MirrorInv
    <3> QED
      BY <3>1, <3>2, <3>3, <3>4, MirrorBounds
  <2> QED
    BY <2>1, <2>2
<1>5. CopyKept'
  BY <1>1, <1>2 DEF MirrorInv, CopyKept, Skipping, Copying
<1>6. EventsKept'
  BY <1>1, <1>2, <1>4, SyncFields, MirrorBounds DEF MirrorInv, EventsKept
<1> QED
  BY <1>1, <1>2, <1>3, <1>5, <1>6 DEF MirrorInv, MirrorTypeOK

LEMMA NewestEventStep ==
    ASSUME MirrorInv, NewestEvent
    PROVE  MirrorInv'
<1>1. UNCHANGED <<now, live, copy, liveEvents, copyEvents, writes, remembered, shaky, mirrorResets, timeouts>>
      /\ sync.pc = "mark"
  BY DEF NewestEvent
<1> DEFINE m == IF liveEvents = {} THEN sync.mark ELSE NewestId
<1>2. liveEvents # {} => m \in liveEvents
  <2>1. liveEvents \in SUBSET (0 .. MirrorSeconds) /\ MirrorSeconds \in Nat
    BY MirrorBounds DEF MirrorInv, MirrorTypeOK, EventIds
  <2> QED
    BY <2>1, MaxOfBounded DEF NewestId
<1>3. m \in {0} \cup EventIds /\ m <= now /\ m \in Nat
  BY <1>2, SyncFields DEF MirrorInv, MirrorTypeOK, EventsKept
<1>4. /\ sync' \in Sync /\ sync'.pc = "save" /\ sync'.whole = sync.whole /\ sync'.digest = sync.digest
      /\ sync'.mark = m /\ sync'.moved = sync.moved
  <2>1. sync' = [[[sync EXCEPT !.pc = "save"] EXCEPT !.since = 0] EXCEPT !.mark = m]
    BY SyncFields DEF NewestEvent, MirrorInv, Sync
  <2> HIDE DEF m
  <2> QED
    BY <1>3, <2>1, SyncFields DEF MirrorInv, Sync
<1> HIDE DEF m
<1>5. CopyKept'
  BY <1>1, <1>4 DEF MirrorInv, CopyKept, Skipping, Copying
<1>6. \A e \in liveEvents : e < m - MirrorOverlap => e \in copyEvents
  <2> TAKE e \in liveEvents
  <2>1. sync.since <= now /\ now <= sync.since + Slowness /\ (e \in copyEvents \/ e >= sync.since - EventLateness)
    BY <1>1 DEF MirrorInv, EventsKept
  <2>2. e \in Nat /\ sync.since \in Nat /\ now \in Nat
    BY SyncFields DEF MirrorInv
  <2> QED
    BY <1>3, <2>1, <2>2, MirrorBounds
<1>7. EventsKept'
  BY <1>1, <1>3, <1>4, <1>6 DEF MirrorInv, EventsKept
<1> QED
  BY <1>1, <1>4, <1>5, <1>7 DEF MirrorInv, MirrorTypeOK

LEMMA SaveStep ==
    ASSUME MirrorInv, Save
    PROVE  MirrorInv'
<1>1. UNCHANGED <<now, live, copy, liveEvents, copyEvents, writes, mirrorResets, timeouts>>
      /\ sync.pc = "save" /\ sync' = NoSync
  BY DEF Save
<1>2. /\ remembered' \in [digest : Digests, mark : {0} \cup EventIds]
      /\ remembered'.digest = sync.digest /\ remembered'.mark = sync.mark
      /\ shaky' = IF Skipping THEN shaky ELSE sync.moved
  BY SyncFields DEF Save, SavedDigest, Skipping, MirrorInv
<1>3. shaky' \in BOOLEAN
  BY <1>2, SyncFields DEF MirrorInv, MirrorTypeOK
<1>4. CopyKept'
  <2>1. ~shaky' => copy = sync.digest
    <3>1. CASE Skipping
      BY <1>1, <1>2, <3>1 DEF MirrorInv, CopyKept, Skipping, Copying
    <3>2. CASE ~Skipping
      BY <1>1, <1>2, <3>2 DEF MirrorInv, CopyKept
    <3> QED
      BY <3>1, <3>2
  <2> QED
    BY <1>1, <1>2, <2>1, NoSyncFields DEF CopyKept, Copying
<1>5. EventsKept'
  BY <1>1, <1>2, NoSyncFields, SyncFields DEF MirrorInv, EventsKept
<1> QED
  BY <1>1, <1>2, <1>3, <1>4, <1>5, NoSyncFields DEF MirrorInv, MirrorTypeOK

LEMMA TimeoutStep ==
    ASSUME MirrorInv, Timeout
    PROVE  MirrorInv'
<1>1. UNCHANGED <<now, live, copy, liveEvents, copyEvents, writes, remembered, mirrorResets>> /\ sync' = NoSync
      /\ sync.pc # "idle" /\ timeouts' \in 0 .. Timeouts /\ shaky' = (shaky \/ sync.pc \notin {"digest", "prune"})
  BY MirrorBounds DEF Timeout, MirrorInv, MirrorTypeOK
<1>2. CopyKept'
  BY <1>1, NoSyncFields DEF MirrorInv, CopyKept, Copying
<1>3. EventsKept'
  BY <1>1, NoSyncFields, SyncFields DEF MirrorInv, EventsKept
<1>4. shaky' \in BOOLEAN
  BY <1>1
<1> QED
  BY <1>1, <1>2, <1>3, <1>4, NoSyncFields DEF MirrorInv, MirrorTypeOK

\* What an incremental sync leaves out, for a digest it knows or an id below its watermark, is in the mirror
\* already: whatever moves, fails or is deleted while it runs (sync_mirror, _copy_collection).
THEOREM MirrorHolds == MirrorSpec => [](MirrorTypeOK /\ MirrorSound)
<1>1. MirrorInit => MirrorInv
  <2> SUFFICES ASSUME MirrorInit PROVE MirrorInv
    OBVIOUS
  <2>1. /\ now = 1 /\ live = [d \in MirrorDocs |-> 0] /\ copy = live /\ liveEvents = {} /\ copyEvents = {}
        /\ writes = 0 /\ remembered = [digest |-> NoDigest, mark |-> 0] /\ sync = NoSync /\ shaky = FALSE
        /\ mirrorResets = 0 /\ timeouts = 0
    BY DEF MirrorInit
  <2>2. live \in MirrorVersions
    BY <2>1, MirrorBounds DEF MirrorVersions
  <2>3. MirrorTypeOK
    <3>1. remembered \in [digest : Digests, mark : {0} \cup EventIds]
      BY <2>1, NoSyncFields
    <3>2. now \in 1 .. MirrorSeconds /\ writes \in 0 .. MirrorWrites /\ mirrorResets \in 0 .. MirrorResets
          /\ timeouts \in 0 .. Timeouts
      BY <2>1, MirrorBounds
    <3> QED
      BY <2>1, <2>2, <3>1, <3>2, NoSyncFields DEF MirrorTypeOK
  <2>4. CopyKept
    <3>1. NoDigest \in MirrorVersions => live = NoDigest
      BY <2>1 DEF NoDigest, MirrorVersions
    <3> QED
      BY <2>1, <3>1, NoSyncFields DEF CopyKept, Copying
  <2>5. EventsKept
    BY <2>1, NoSyncFields DEF EventsKept
  <2> QED
    BY <2>3, <2>4, <2>5 DEF MirrorInv
<1>2. MirrorInv /\ [MirrorNext]_mirrorVars => MirrorInv'
  <2> SUFFICES ASSUME MirrorInv, [MirrorNext]_mirrorVars PROVE MirrorInv'
    OBVIOUS
  <2>1. CASE UNCHANGED mirrorVars
    BY <2>1 DEF mirrorVars, MirrorInv, MirrorTypeOK, CopyKept, EventsKept, Skipping
  <2>2. CASE MirrorNext
    BY <2>2, EventStep, DocumentStep, BeginSyncStep, TakeDigestStep, PruneStep, UpsertStep, CopyEventsStep,
       NewestEventStep, SaveStep, TimeoutStep DEF MirrorNext, SyncStep
  <2> QED
    BY <2>1, <2>2
<1>3. MirrorInv => MirrorTypeOK /\ MirrorSound
  <2> SUFFICES ASSUME MirrorInv PROVE MirrorTypeOK /\ MirrorSound
    OBVIOUS
  <2>1. SkippedIsCopied
    BY DEF MirrorInv, MirrorTypeOK, CopyKept, SkippedIsCopied
  <2>2. WatermarkBehindCopy
    BY DEF MirrorInv, EventsKept, WatermarkBehindCopy
  <2> QED
    BY <2>1, <2>2 DEF MirrorInv, MirrorSound
<1> QED
  BY <1>1, <1>2, <1>3, PTL DEF MirrorSpec

-----------------------------------------------------------------------------
(* The move to another cluster (Cutover).                                      *)

\* While nothing writes that the freeze does not hold back, the source rests: nobody is let in, and no
\* rehearsal copy runs.  A verification only reads.
SourceRests ==
    /\ workers["verify"].pc # "write"
    /\ still => frozen /\ admitted = {} /\ workers["copy"].pc = "none"

Final == workers["final"]

\* What the final pass of this freeze has behind it is moved.
FinalKept ==
    /\ Final.pc \in {"none", "next"} => Final.doc = {}
    /\ still /\ finalInFreeze =>
         /\ jobs["final"] = "passed" => target = source
         /\ Final.pc # "none" => \A d \in Collections : d \notin Final.todo \cup Final.doc => target[d] = source[d]
         /\ Final.pc = "write" => \A d \in Final.doc : Final.read = source[d] /\ (source[d] = 0 => target[d] = 0)
         /\ Final.pc = "digest" => \A d \in Final.doc : target[d] = source[d]

CutoverInv == CutoverTypeOK /\ SourceRests /\ FinalKept

LEMMA CutoverBounds == CutoverWrites \in Nat /\ Kinds = {"copy", "final", "verify"} /\ 0 \in States
BY CutoverAssumption DEF Kinds, States

LEMMA NoJobFields ==
    /\ NoJob \in JobTask /\ NoJob.pc = "none" /\ NoJob.doc = {} /\ NoJob.todo = {}
    /\ LET j == [NoJob EXCEPT !.pc = "next", !.todo = Collections]
       IN  j \in JobTask /\ j.pc = "next" /\ j.todo = Collections /\ j.doc = {}
BY CutoverBounds DEF NoJob, JobTask

LEMMA JobFields ==
    ASSUME CutoverTypeOK, NEW k \in Kinds
    PROVE  /\ workers[k] \in JobTask /\ workers[k].pc \in {"none", "next", "write", "digest"}
           /\ workers[k].todo \subseteq Collections /\ workers[k].doc \subseteq Collections
           /\ workers[k].read \in States /\ workers[k].bad \in BOOLEAN
           /\ (jobs[k] = "running" <=> workers[k].pc # "none")
           /\ jobs[k] \in {"none", "running", "passed", "failed"}
BY DEF CutoverTypeOK, JobTask

\* Something writes to the source: then the freeze did not hold it back.
LEMMA WriterStep ==
    ASSUME CutoverInv,
           \/ \E h \in Requests : Arrive(h) \/ HandlerEnds(h)
           \/ \E h \in Requests, d \in Collections : HandlerWrites(h, d)
           \/ \E d \in Collections : SweepWrites(d)
    PROVE  CutoverInv'
<1>1. CASE \E h \in Requests : Arrive(h) \/ HandlerEnds(h)
  <2>1. /\ UNCHANGED <<source, target, written, frozen, jobs, workers, finalInFreeze, verifiedAfter, still>>
        /\ admitted' \subseteq Requests /\ (frozen /\ admitted = {} => admitted' = {})
    BY <1>1 DEF Arrive, HandlerEnds, Admit, Data, Records, Checks, CutoverInv, CutoverTypeOK
  <2> QED
    BY <2>1 DEF CutoverInv, CutoverTypeOK, SourceRests, FinalKept, Final
<1>2. ASSUME NEW d \in Collections, Write(d)
      PROVE  UNCHANGED target /\ source' \in [Collections -> States] /\ written' \in States
  BY <1>2, CutoverBounds DEF Write, CutoverInv, CutoverTypeOK, States
<1>3. CASE \E h \in Requests, d \in Collections : HandlerWrites(h, d)
  <2>1. /\ UNCHANGED <<target, frozen, jobs, workers, finalInFreeze, verifiedAfter, still>>
        /\ source' \in [Collections -> States] /\ written' \in States /\ admitted' \subseteq Requests /\ admitted # {}
    BY <1>2, <1>3 DEF HandlerWrites, Records, Checks, CutoverInv, CutoverTypeOK
  <2>2. ~still
    BY <2>1 DEF CutoverInv, SourceRests
  <2> QED
    BY <2>1, <2>2 DEF CutoverInv, CutoverTypeOK, SourceRests, FinalKept, Final
<1>4. CASE \E d \in Collections : SweepWrites(d)
  <2>1. /\ UNCHANGED <<target, frozen, jobs, workers, finalInFreeze, verifiedAfter, admitted>> /\ still' = FALSE
        /\ source' \in [Collections -> States] /\ written' \in States
    BY <1>2, <1>4 DEF SweepWrites, Records, Checks
  <2> QED
    BY <2>1 DEF CutoverInv, CutoverTypeOK, SourceRests, FinalKept, Final
<1> QED
  BY <1>1, <1>3, <1>4

LEMMA FreezeStep ==
    ASSUME CutoverInv, FreezeStarts \/ FreezeEnds
    PROVE  CutoverInv'
<1>1. /\ UNCHANGED <<source, target, written, admitted, jobs, workers, verifiedAfter>> /\ finalInFreeze' = FALSE
      /\ frozen' \in BOOLEAN /\ still' \in BOOLEAN
      /\ still' => frozen' = TRUE /\ admitted = {} /\ workers["copy"].pc = "none"
  BY NoJobFields DEF FreezeStarts, FreezeEnds, Data, Records
<1> QED
  BY <1>1 DEF CutoverInv, CutoverTypeOK, SourceRests, FinalKept, Final

LEMMA StartJobStep ==
    ASSUME CutoverInv, NEW k \in Kinds, StartJob(k)
    PROVE  CutoverInv'
<1> DEFINE j == [NoJob EXCEPT !.pc = "next", !.todo = Collections]
<1>1. j \in JobTask /\ j.pc = "next" /\ j.todo = Collections /\ j.doc = {}
  BY NoJobFields
<1>2. /\ UNCHANGED <<source, target, written, frozen, admitted>>
      /\ jobs' = [jobs EXCEPT ![k] = "running"] /\ workers' = [workers EXCEPT ![k] = j]
      /\ finalInFreeze' = (IF k = "final" THEN TRUE ELSE finalInFreeze)
      /\ still' = (still /\ k # "copy")
  BY DEF StartJob, Data
<1> HIDE DEF j
<1>3. verifiedAfter' \in BOOLEAN /\ finalInFreeze' \in BOOLEAN /\ still' \in BOOLEAN
  BY <1>2, CutoverBounds DEF StartJob, CutoverInv, CutoverTypeOK
<1>4. CutoverTypeOK'
  BY <1>1, <1>2, <1>3 DEF CutoverInv, CutoverTypeOK
<1>5. SourceRests'
  BY <1>1, <1>2 DEF CutoverInv, CutoverTypeOK, SourceRests, Kinds
<1>6. FinalKept'
  <2>1. CASE k = "final"
    <3>1. Final' = j /\ jobs'["final"] = "running"
      BY <1>2, <2>1 DEF Final, CutoverInv, CutoverTypeOK, Kinds
    <3> QED
      BY <1>1, <3>1 DEF FinalKept
  <2>2. CASE k # "final"
    <3>1. Final' = Final /\ jobs'["final"] = jobs["final"]
      BY <1>2, <2>2 DEF Final, CutoverInv, CutoverTypeOK, Kinds
    <3>2. (still' => still) /\ finalInFreeze' = finalInFreeze
      BY <1>2, <2>2
    <3>3. still' /\ finalInFreeze' => still /\ finalInFreeze
      BY <3>2
    <3>4. UNCHANGED <<source, target>>
      BY <1>2
    <3> QED
      BY <3>1, <3>3, <3>4 DEF CutoverInv, FinalKept
  <2> QED
    BY <2>1, <2>2
<1> QED
  BY <1>4, <1>5, <1>6 DEF CutoverInv

LEMMA ReadNextStep ==
    ASSUME CutoverInv, NEW k \in Kinds, NEW d \in Collections, ReadNext(k, d)
    PROVE  CutoverInv'
<1>1. /\ UNCHANGED <<source, written, frozen, admitted, finalInFreeze, verifiedAfter, still>>
      /\ workers[k].pc = "next" /\ d \in workers[k].todo
  BY DEF ReadNext, Checks
<1>2. CASE Refused(k, d) /\ workers' = [workers EXCEPT ![k] = NoJob] /\ jobs' = [jobs EXCEPT ![k] = "failed"] /\ UNCHANGED target
  <2>1. k = "copy"
    BY <1>2 DEF Refused
  <2>2. Final' = Final /\ jobs'["final"] = jobs["final"]
    BY <1>2, <2>1 DEF Final, CutoverInv, CutoverTypeOK, Kinds
  <2>3. CutoverTypeOK'
    BY <1>1, <1>2, NoJobFields DEF CutoverInv, CutoverTypeOK
  <2>4. SourceRests'
    BY <1>1, <1>2, NoJobFields DEF CutoverInv, CutoverTypeOK, SourceRests, Kinds
  <2>5. FinalKept'
    BY <1>1, <1>2, <2>2 DEF CutoverInv, FinalKept
  <2> QED
    BY <2>3, <2>4, <2>5 DEF CutoverInv
<1>3. CASE /\ workers' = [workers EXCEPT ![k].todo = @ \ {d}, ![k].doc = {d}, ![k].read = source[d],
                                         ![k].pc = IF k = "verify" THEN "digest" ELSE "write"]
           /\ target' = [target EXCEPT ![d] = Pruned(k, d)]
           /\ UNCHANGED jobs
  <2> DEFINE p == IF k = "verify" THEN "digest" ELSE "write"
             j == [[[[workers[k] EXCEPT !.todo = workers[k].todo \ {d}] EXCEPT !.doc = {d}] EXCEPT !.read = source[d]]
                      EXCEPT !.pc = p]
  <2>1. workers' = [workers EXCEPT ![k] = j]
    BY <1>3, JobFields DEF CutoverInv, CutoverTypeOK
  <2>2. p \in {"digest", "write"} /\ (k = "final" => p = "write")
    OBVIOUS
  <2> HIDE DEF p
  <2>3. /\ j \in JobTask /\ j.pc = p /\ j.todo = workers[k].todo \ {d} /\ j.doc = {d} /\ j.read = source[d]
    <3>1. source[d] \in States /\ workers[k] \in JobTask
      BY JobFields DEF CutoverInv, CutoverTypeOK
    <3> QED
      BY <2>2, <3>1 DEF JobTask
  <2> HIDE DEF j
  <2>4. /\ target' \in [Collections -> States] /\ \A e \in Collections \ {d} : target'[e] = target[e]
        /\ target'[d] = Pruned(k, d)
    BY <1>3, CutoverBounds DEF Pruned, CutoverInv, CutoverTypeOK
  <2>5. CutoverTypeOK'
    <3>1. workers' \in [Kinds -> JobTask] /\ \A l \in Kinds : jobs'[l] = "running" <=> workers'[l].pc # "none"
      <4>1. \A l \in Kinds \ {k} : workers'[l] = workers[l]
        BY <2>1 DEF CutoverInv, CutoverTypeOK
      <4>2. workers'[k] = j /\ j.pc # "none" /\ workers' \in [Kinds -> JobTask]
        BY <2>1, <2>2, <2>3 DEF CutoverInv, CutoverTypeOK
      <4>3. jobs' = jobs /\ jobs[k] = "running"
        BY <1>1, <1>3, JobFields DEF CutoverInv
      <4> QED
        BY <4>1, <4>2, <4>3, JobFields DEF CutoverInv
    <3> QED
      BY <1>1, <1>3, <2>4, <3>1 DEF CutoverInv, CutoverTypeOK
  <2>6. still => k # "copy"
    BY <1>1 DEF CutoverInv, SourceRests
  <2>7. SourceRests'
    <3>1. workers'["verify"].pc # "write"
      BY <2>1, <2>3 DEF p, CutoverInv, CutoverTypeOK, SourceRests, Kinds
    <3> QED
      BY <1>1, <2>1, <2>6, <3>1 DEF CutoverInv, CutoverTypeOK, SourceRests, Kinds
  <2>8. FinalKept'
    <3>1. CASE k = "final"
      <4>1. Final' = j /\ Final = workers[k]
        BY <2>1, <3>1 DEF Final, CutoverInv, CutoverTypeOK
      <4>2. jobs'["final"] = "running"
        BY <1>1, <1>3, <3>1, JobFields DEF CutoverInv
      <4>3. Final.doc = {} /\ Final'.pc = "write" /\ Final'.doc = {d} /\ Final'.todo = Final.todo \ {d}
            /\ Final'.read = source[d] /\ Final.pc = "next"
        BY <1>1, <2>2, <2>3, <3>1, <4>1 DEF CutoverInv, FinalKept
      <4>4. source[d] = 0 => target'[d] = 0
        BY <2>4, <3>1 DEF Pruned
      <4>5. ASSUME still, finalInFreeze, NEW e \in Collections, e \notin Final'.todo \cup Final'.doc
            PROVE  target'[e] = source[e]
        <5>1. e # d /\ e \notin Final.todo \cup Final.doc
          BY <4>3, <4>5
        <5> QED
          BY <2>4, <4>3, <4>5, <5>1 DEF CutoverInv, FinalKept
      <4> QED
        BY <1>1, <4>2, <4>3, <4>4, <4>5 DEF FinalKept
    <3>2. CASE k # "final"
      <4>1. Final' = Final /\ jobs'["final"] = jobs["final"]
        BY <1>3, <2>1, <3>2 DEF Final, CutoverInv, CutoverTypeOK, Kinds
      <4>2. target' = target
        <5>1. Pruned(k, d) = target[d]
          BY <3>2 DEF Pruned
        <5> QED
          BY <1>3, <5>1 DEF CutoverInv, CutoverTypeOK
      <4> QED
        BY <1>1, <4>1, <4>2 DEF CutoverInv, FinalKept
    <3> QED
      BY <3>1, <3>2
  <2> QED
    BY <2>5, <2>7, <2>8 DEF CutoverInv
<1> QED
  BY <1>2, <1>3 DEF ReadNext

LEMMA WriteTargetStep ==
    ASSUME CutoverInv, NEW k \in Kinds, WriteTarget(k)
    PROVE  CutoverInv'
<1> DEFINE j == [workers[k] EXCEPT !.pc = "digest"]
<1>1. /\ UNCHANGED <<source, written, frozen, admitted, jobs, finalInFreeze, verifiedAfter, still>>
      /\ workers[k].pc = "write" /\ workers' = [workers EXCEPT ![k] = j]
      /\ target' = [d \in Collections |->
                      IF d \in workers[k].doc /\ workers[k].read # 0 THEN workers[k].read ELSE target[d]]
  BY DEF WriteTarget, Checks, CutoverInv, CutoverTypeOK
<1>2. j \in JobTask /\ j.pc = "digest" /\ j.todo = workers[k].todo /\ j.doc = workers[k].doc
  BY JobFields DEF CutoverInv, JobTask
<1> HIDE DEF j
<1>3. target' \in [Collections -> States]
  <2>1. target \in [Collections -> States] /\ workers[k].read \in States
    BY JobFields DEF CutoverInv, CutoverTypeOK
  <2> QED
    BY <1>1, <2>1
<1>4. CutoverTypeOK'
  <2>1. workers' \in [Kinds -> JobTask] /\ \A l \in Kinds : jobs'[l] = "running" <=> workers'[l].pc # "none"
    BY <1>1, <1>2 DEF CutoverInv, CutoverTypeOK
  <2> QED
    BY <1>1, <1>3, <2>1 DEF CutoverInv, CutoverTypeOK
<1>5. still => k # "copy"
  BY <1>1 DEF CutoverInv, SourceRests
<1>6. SourceRests'
  BY <1>1, <1>2, <1>5 DEF CutoverInv, CutoverTypeOK, SourceRests, Kinds
<1>7. FinalKept'
  <2>1. CASE k = "final"
    <3>1. Final' = j /\ Final = workers[k] /\ jobs'["final"] = "running"
      BY <1>1, <2>1, JobFields DEF Final, CutoverInv, CutoverTypeOK
    <3>2. ASSUME still, finalInFreeze, NEW e \in Final.doc
          PROVE  target'[e] = source[e]
      <4>1. e \in Collections /\ Final.read = source[e] /\ (source[e] = 0 => target[e] = 0)
        BY <1>1, <3>1, <3>2, JobFields DEF CutoverInv, FinalKept
      <4> QED
        BY <1>1, <3>1, <3>2, <4>1
    <3>3. ASSUME still, finalInFreeze, NEW e \in Collections, e \notin Final.todo \cup Final.doc
          PROVE  target'[e] = source[e]
      <4>1. target[e] = source[e]
        BY <1>1, <3>1, <3>3 DEF CutoverInv, FinalKept
      <4> QED
        BY <1>1, <3>1, <3>3, <4>1
    <3>4. Final'.pc = "digest" /\ Final'.todo = Final.todo /\ Final'.doc = Final.doc
      BY <1>2, <3>1
    <3> QED
      BY <1>1, <3>1, <3>2, <3>3, <3>4 DEF FinalKept
  <2>2. CASE k # "final"
    <3>1. Final' = Final
      BY <1>1, <2>2 DEF Final, CutoverInv, CutoverTypeOK, Kinds
    <3>2. k = "copy"
      BY <1>1, <2>2 DEF Kinds, CutoverInv, SourceRests
    <3>3. ~still
      BY <1>5, <3>2
    <3> QED
      BY <1>1, <3>1, <3>3 DEF CutoverInv, FinalKept
  <2> QED
    BY <2>1, <2>2
<1> QED
  BY <1>4, <1>6, <1>7 DEF CutoverInv

LEMMA CompareStep ==
    ASSUME CutoverInv, NEW k \in Kinds, Compare(k)
    PROVE  CutoverInv'
<1>1. PICK b \in BOOLEAN : b = (workers[k].bad \/ \E d \in workers[k].doc : Differs(d))
  OBVIOUS
<1> DEFINE j == [[[[workers[k] EXCEPT !.pc = "next"] EXCEPT !.doc = {}] EXCEPT !.read = 0] EXCEPT !.bad = b]
<1>2. /\ UNCHANGED <<source, target, written, frozen, admitted, jobs, finalInFreeze, verifiedAfter, still>>
      /\ workers[k].pc = "digest" /\ workers' = [workers EXCEPT ![k] = j]
  BY <1>1, JobFields DEF Compare, Checks, Data, CutoverInv, CutoverTypeOK, JobTask
<1>3. j \in JobTask /\ j.pc = "next" /\ j.todo = workers[k].todo /\ j.doc = {}
  BY <1>1, JobFields, CutoverBounds DEF CutoverInv, JobTask
<1> HIDE DEF j
<1>4. CutoverTypeOK'
  <2>1. workers' \in [Kinds -> JobTask] /\ \A l \in Kinds : jobs'[l] = "running" <=> workers'[l].pc # "none"
    BY <1>2, <1>3 DEF CutoverInv, CutoverTypeOK
  <2> QED
    BY <1>2, <2>1 DEF CutoverInv, CutoverTypeOK
<1>5. SourceRests'
  BY <1>2, <1>3 DEF CutoverInv, CutoverTypeOK, SourceRests, Kinds
<1>6. FinalKept'
  <2>1. CASE k = "final"
    <3>1. Final' = j /\ Final = workers[k] /\ jobs'["final"] = "running"
      BY <1>2, <2>1, JobFields DEF Final, CutoverInv, CutoverTypeOK
    <3>2. ASSUME still, finalInFreeze, NEW e \in Collections, e \notin Final.todo
          PROVE  target[e] = source[e]
      BY <1>2, <3>1, <3>2 DEF CutoverInv, FinalKept
    <3>3. Final'.pc = "next" /\ Final'.todo = Final.todo /\ Final'.doc = {}
      BY <1>3, <3>1
    <3> QED
      BY <1>2, <3>1, <3>2, <3>3 DEF FinalKept
  <2>2. CASE k # "final"
    <3>1. Final' = Final
      BY <1>2, <2>2 DEF Final, CutoverInv, CutoverTypeOK, Kinds
    <3> QED
      BY <1>2, <3>1 DEF CutoverInv, FinalKept
  <2> QED
    BY <2>1, <2>2
<1> QED
  BY <1>4, <1>5, <1>6 DEF CutoverInv

LEMMA JobEndsStep ==
    ASSUME CutoverInv, NEW k \in Kinds, EndJob(k) \/ FailJob(k)
    PROVE  CutoverInv'
<1>1. /\ UNCHANGED <<source, target, written, frozen, admitted, finalInFreeze, verifiedAfter, still>>
      /\ workers' = [workers EXCEPT ![k] = NoJob]
  BY DEF EndJob, FailJob, Checks, Data
<1>2. PICK o \in {"passed", "failed"} : jobs' = [jobs EXCEPT ![k] = o] /\ (o = "passed" => EndJob(k))
  BY DEF EndJob, FailJob
<1>3. CutoverTypeOK'
  <2>1. workers' \in [Kinds -> JobTask] /\ \A l \in Kinds : jobs'[l] = "running" <=> workers'[l].pc # "none"
    BY <1>1, <1>2, NoJobFields DEF CutoverInv, CutoverTypeOK
  <2>2. jobs' \in [Kinds -> {"none", "running", "passed", "failed"}]
    BY <1>2 DEF CutoverInv, CutoverTypeOK
  <2> QED
    BY <1>1, <2>1, <2>2 DEF CutoverInv, CutoverTypeOK
<1>4. SourceRests'
  BY <1>1, NoJobFields DEF CutoverInv, CutoverTypeOK, SourceRests, Kinds
<1>5. FinalKept'
  <2>1. CASE k = "final"
    <3>1. Final' = NoJob /\ jobs'["final"] = o /\ Final = workers[k]
      BY <1>1, <1>2, <2>1 DEF Final, CutoverInv, CutoverTypeOK
    <3>2. ASSUME still, finalInFreeze, o = "passed" PROVE target = source
      <4>1. Final.pc = "next" /\ Final.todo = {}
        BY <1>2, <3>1, <3>2 DEF EndJob
      <4>2. \A e \in Collections : target[e] = source[e]
        BY <3>2, <4>1 DEF CutoverInv, FinalKept
      <4> QED
        BY <4>2 DEF CutoverInv, CutoverTypeOK
    <3> QED
      BY <1>1, <3>1, <3>2, NoJobFields DEF FinalKept
  <2>2. CASE k # "final"
    <3>1. Final' = Final /\ jobs'["final"] = jobs["final"]
      BY <1>1, <1>2, <2>2 DEF Final, CutoverInv, CutoverTypeOK, Kinds
    <3> QED
      BY <1>1, <3>1 DEF CutoverInv, FinalKept
  <2> QED
    BY <2>1, <2>2
<1> QED
  BY <1>3, <1>4, <1>5 DEF CutoverInv

LEMMA RestartStep ==
    ASSUME CutoverInv, Restart
    PROVE  CutoverInv'
<1>1. /\ UNCHANGED <<source, target, written, verifiedAfter>>
      /\ frozen' = FALSE /\ finalInFreeze' = FALSE /\ still' = FALSE /\ admitted' = {}
      /\ workers' = [k \in Kinds |-> NoJob] /\ jobs' = [k \in Kinds |-> Recovered(k)]
  BY DEF Restart, Data
<1>2. jobs' \in [Kinds -> {"none", "running", "passed", "failed"}] /\ \A k \in Kinds : jobs'[k] # "running"
  BY <1>1 DEF Recovered, CutoverInv, CutoverTypeOK
<1>3. CutoverTypeOK'
  BY <1>1, <1>2, NoJobFields DEF CutoverInv, CutoverTypeOK
<1>4. SourceRests' /\ FinalKept'
  BY <1>1, NoJobFields, CutoverBounds DEF SourceRests, FinalKept, Final
<1> QED
  BY <1>3, <1>4 DEF CutoverInv

\* When the checklist says ready and nothing wrote that the freeze does not hold back, the new cluster has what
\* the old one has, whatever failed, lapsed or restarted before (_migration_state, migrate_core.py).
THEOREM CutoverHolds == CutoverSpec => [](CutoverTypeOK /\ ReadyMeansMoved)
<1>1. CutoverInit => CutoverInv
  <2> SUFFICES ASSUME CutoverInit PROVE CutoverInv
    OBVIOUS
  <2>1. CutoverTypeOK
    BY NoJobFields, CutoverBounds DEF CutoverInit, CutoverTypeOK
  <2>2. SourceRests /\ FinalKept
    BY NoJobFields, CutoverBounds DEF CutoverInit, SourceRests, FinalKept, Final
  <2> QED
    BY <2>1, <2>2 DEF CutoverInv
<1>2. CutoverInv /\ [CutoverNext]_cutoverVars => CutoverInv'
  <2> SUFFICES ASSUME CutoverInv, [CutoverNext]_cutoverVars PROVE CutoverInv'
    OBVIOUS
  <2>1. CASE UNCHANGED cutoverVars
    BY <2>1 DEF cutoverVars, CutoverInv, CutoverTypeOK, SourceRests, FinalKept, Final
  <2>2. CASE CutoverNext
    BY <2>2, WriterStep, FreezeStep, StartJobStep, ReadNextStep, WriteTargetStep, CompareStep, JobEndsStep,
       RestartStep DEF CutoverNext, JobStep
  <2> QED
    BY <2>1, <2>2
<1>3. CutoverInv => CutoverTypeOK /\ ReadyMeansMoved
  BY DEF CutoverInv, FinalKept, ReadyMeansMoved, Ready
<1> QED
  BY <1>1, <1>2, <1>3, PTL DEF CutoverSpec

-----------------------------------------------------------------------------
(* The send ladder.  At most one request that began after the last reset is    *)
(* at the gateway; the document is the slot it took, and cools down for longer *)
(* than the request lasts.  What the gateway took is what the document before  *)
(* that slot remembers, and a reading of the document is of its present        *)
(* version or loses.                                                           *)

LadderDocOK(d) ==
    d # NoSendDoc => /\ IsFiniteSet(d.sends)
                     /\ d.last < d.next
                     /\ \A s \in d.sends : s <= d.last

\* The slot after `d` may be taken at `at`.
SlotFree(d, at) ==
    d # NoSendDoc => d.next <= at /\ Cardinality(PruneDay(d.sends, at)) < Ceiling

SlotDoc(d, at) == IF d = NoSendDoc THEN FirstSend(at) ELSE NextSend(d, at)

TapOK(t) ==
    /\ LadderDocOK(t.doc)
    /\ t.pc # "idle" => t.started <= clock /\ clock <= t.started + HandlerTime
    /\ t.pc \in {"write", "gateway"} =>
           t.started <= t.at /\ t.at <= clock /\ SlotFree(t.doc, t.at)

TapAt(t, pc) == t.pc = pc /\ ~t.old

HoldsSlot(t) ==
    TapAt(t, "gateway") => sendDoc = SlotDoc(t.doc, t.at) /\ t.next = sendDoc.next

MayReserve(t) ==
    TapAt(t, "write") /\ t.doc # NoSendDoc =>
        /\ sendDoc # NoSendDoc
        /\ t.doc.version <= sendDoc.version
        /\ t.doc.version = sendDoc.version => t.doc = sendDoc
        /\ \A g \in Taps : TapAt(taps[g], "gateway") =>
               taps[g].doc # NoSendDoc /\ t.doc.version < sendDoc.version

\* What the gateway took is what the document remembers, the oldest of it forgotten.
SentUpTo(d) ==
    /\ d = NoSendDoc <=> sent = <<>>
    /\ d # NoSendDoc =>
           /\ d.next = sent[Len(sent)].next
           /\ d.last = sent[Len(sent)].at
           /\ \A i \in DOMAIN sent : sent[i].at \in d.sends \/ sent[i].at <= d.last - Day

SentApart ==
    \A i, j \in DOMAIN sent : i < j => sent[i].at < sent[j].at /\ sent[i].next <= sent[j].at

SentFew ==
    \A i \in DOMAIN sent : i + Ceiling <= Len(sent) => sent[i + Ceiling].at - sent[i].at >= Day

OneSlot ==
    /\ \A g, h \in Taps : TapAt(taps[g], "gateway") /\ TapAt(taps[h], "gateway") => g = h
    /\ \A t \in Taps : HoldsSlot(taps[t]) /\ MayReserve(taps[t])
    /\ \A g \in Taps : TapAt(taps[g], "gateway") => SentUpTo(taps[g].doc)
    /\ (\A g \in Taps : ~TapAt(taps[g], "gateway")) => SentUpTo(sendDoc)

LadderInv ==
    /\ LadderTypeOK
    /\ LadderDocOK(sendDoc)
    /\ \A t \in Taps : TapOK(taps[t])
    /\ ~crossed => OneSlot /\ SentApart /\ SentFew

-----------------------------------------------------------------------------

LEMMA LadderConstants ==
    /\ LadderReset \in Nat /\ Day \in Nat /\ CodeTtl \in Nat /\ HandlerTime \in Nat
    /\ LimitResets \in Nat /\ Rewrites \in Nat /\ LadderEnd \in Nat
    /\ Ceiling \in Nat /\ Ceiling >= 1
BY LadderAssumption

LEMMA WaitOfRung ==
    ASSUME NEW n \in Nat, n >= 1
    PROVE  NextWait(n) \in Nat /\ NextWait(n) > HandlerTime
<1>1. PICK k \in Int : k = IF n < Len(Ladder) THEN n ELSE Len(Ladder)
  BY LadderAssumption
<1>2. k \in DOMAIN Ladder
  BY <1>1, LadderAssumption
<1> QED
  BY <1>1, <1>2, LadderAssumption DEF NextWait

LEMMA SlotDocOK ==
    ASSUME NEW d \in SendDocs \cup {NoSendDoc}, LadderDocOK(d), NEW m \in Nat, SlotFree(d, m)
    PROVE  /\ SlotDoc(d, m) \in SendDocs
           /\ SlotDoc(d, m) # NoSendDoc
           /\ LadderDocOK(SlotDoc(d, m))
           /\ SlotDoc(d, m).last = m
           /\ SlotDoc(d, m).next > m + HandlerTime
           /\ d # NoSendDoc => /\ SlotDoc(d, m).version = d.version + 1
                               /\ SlotDoc(d, m).sends = PruneDay(d.sends, m) \cup {m}
           /\ d = NoSendDoc => SlotDoc(d, m).sends = {m}
<1> DEFINE e == SlotDoc(d, m)
<1>1. CASE d = NoSendDoc
  <2>1. PICK x \in Nat : x = NextWait(1) /\ x > HandlerTime
    BY WaitOfRung
  <2>2. e = [count |-> 1, last |-> m, next |-> m + x, sends |-> {m}, version |-> 0]
    BY <1>1, <2>1 DEF SlotDoc, FirstSend
  <2>3. IsFiniteSet(e.sends)
    BY <2>2, FS_Singleton
  <2> QED
    BY <1>1, <2>1, <2>2, <2>3, LadderConstants DEF SendDocs, NoSendDoc, LadderDocOK
<1>2. CASE d # NoSendDoc
  <2>0. d \in SendDocs
    BY <1>2
  <2>1. PICK k \in Nat : k = 1 + (IF m - d.last > LadderReset THEN 0 ELSE d.count) /\ k >= 1
    BY <2>0, LadderConstants DEF SendDocs
  <2>2. PICK x \in Nat : x = NextWait(k) /\ x > HandlerTime
    BY <2>1, WaitOfRung
  <2>3. e = [count |-> k, last |-> m, next |-> m + x,
             sends |-> PruneDay(d.sends, m) \cup {m}, version |-> d.version + 1]
    BY <1>2, <2>1, <2>2 DEF SlotDoc, NextSend
  <2>4. PruneDay(d.sends, m) \subseteq d.sends
    BY DEF PruneDay
  <2>5. IsFiniteSet(PruneDay(d.sends, m))
    BY <1>2, <2>4, FS_Subset DEF LadderDocOK
  <2>6. IsFiniteSet(PruneDay(d.sends, m) \cup {m})
    BY <2>5, FS_AddElement
  <2>7. d.last < m /\ d.version \in Nat /\ d.last \in Nat /\ d.sends \subseteq Nat
    BY <1>2, <2>0 DEF LadderDocOK, SlotFree, SendDocs
  <2>8. \A s \in e.sends : s <= m
    BY <1>2, <2>3, <2>4, <2>7 DEF LadderDocOK
  <2>9. e \in SendDocs /\ e # NoSendDoc
    BY <2>1, <2>2, <2>3, <2>4, <2>7 DEF SendDocs, NoSendDoc
  <2>10. e.next > m + HandlerTime /\ e.last = m /\ e.last < e.next
    BY <2>2, <2>3, LadderConstants
  <2>11. LadderDocOK(e)
    BY <2>3, <2>6, <2>8, <2>10 DEF LadderDocOK
  <2> QED
    BY <1>2, <2>3, <2>9, <2>10, <2>11
<1> QED
  BY <1>1, <1>2

LEMMA NoSendDocApart ==
    /\ NoSendDoc \notin SendDocs
    /\ NoTap \in Tap /\ NoTap.pc = "idle" /\ NoTap.old = FALSE /\ NoTap.doc = NoSendDoc
BY DEF NoSendDoc, SendDocs, NoTap, Tap

LEMMA NoTapOK == TapOK(NoTap)
BY DEF TapOK, NoTap, LadderDocOK

LEMMA SentTyped ==
    ASSUME LadderTypeOK, NEW i \in 1..Len(sent)
    PROVE  i \in DOMAIN sent /\ sent[i].at \in Nat /\ sent[i].next \in Nat
<1> DEFINE S == [at : Nat, next : Nat]
<1>1. sent \in Seq(S)
  BY DEF LadderTypeOK
<1>2. \A x \in S : x.at \in Nat /\ x.next \in Nat
  OBVIOUS
<1> HIDE DEF S
<1>3. i \in DOMAIN sent /\ sent[i] \in S
  BY <1>1
<1> QED
  BY <1>2, <1>3

\* Fewer codes than the ceiling were sent in the day before `m`.
LEMMA CeilingOfDay ==
    ASSUME LadderTypeOK, NEW d \in SendDocs, LadderDocOK(d), NEW m \in Nat, SlotFree(d, m), SentUpTo(d),
           SentApart, NEW i \in DOMAIN sent, i + Ceiling = Len(sent) + 1
    PROVE  m - sent[i].at >= Day
<1>0. i \in Nat /\ Len(sent) \in Nat /\ i >= 1 /\ i <= Len(sent) /\ sent[i].at \in Nat
  <2>1. sent \in Seq([at : Nat, next : Nat])
    BY DEF LadderTypeOK
  <2>2. i \in 1..Len(sent) /\ Len(sent) \in Nat
    BY <2>1
  <2> QED
    BY <2>2, SentTyped
<1>1. d # NoSendDoc /\ d.last \in Nat /\ d.next \in Nat /\ d.last < m
  BY NoSendDocApart DEF SendDocs, SlotFree, LadderDocOK
<1>2. SUFFICES ASSUME m - sent[i].at < Day
               PROVE  FALSE
  BY <1>0, LadderConstants
<1>3. \A j \in i..Len(sent) : j \in DOMAIN sent /\ sent[j].at \in Nat /\ sent[i].at <= sent[j].at
  <2>1. SUFFICES ASSUME NEW j \in i..Len(sent)
                 PROVE  j \in DOMAIN sent /\ sent[j].at \in Nat /\ sent[i].at <= sent[j].at
    OBVIOUS
  <2>2. j \in 1..Len(sent)
    BY <1>0
  <2>4. j \in DOMAIN sent /\ sent[j].at \in Nat
    BY <2>2, SentTyped
  <2>5. i < j \/ i = j
    BY <1>0
  <2> QED
    BY <1>0, <2>4, <2>5 DEF SentApart
<1>4. \A j \in i..Len(sent) : sent[j].at \in PruneDay(d.sends, m)
  <2>1. SUFFICES ASSUME NEW j \in i..Len(sent)
                 PROVE  sent[j].at \in PruneDay(d.sends, m)
    OBVIOUS
  <2>2. j \in DOMAIN sent /\ sent[j].at \in Nat /\ sent[i].at <= sent[j].at
    BY <1>3
  <2>3. sent[j].at \in d.sends \/ sent[j].at <= d.last - Day
    BY <1>1, <2>2 DEF SentUpTo
  <2>4. sent[j].at > m - Day /\ ~(sent[j].at <= d.last - Day)
    BY <1>0, <1>1, <1>2, <2>2, LadderConstants
  <2> QED
    BY <2>3, <2>4 DEF PruneDay
<1> DEFINE f == [j \in i..Len(sent) |-> sent[j].at]
<1>6. \A j, k \in i..Len(sent) : f[j] = f[k] => j = k
  <2>1. SUFFICES ASSUME NEW j \in i..Len(sent), NEW k \in i..Len(sent), f[j] = f[k], j # k
                 PROVE  FALSE
    OBVIOUS
  <2>2. j \in DOMAIN sent /\ k \in DOMAIN sent /\ sent[j].at \in Nat /\ sent[k].at \in Nat
    BY <1>3
  <2>3. j < k \/ k < j
    BY <1>0, <2>1
  <2> QED
    BY <2>1, <2>2, <2>3 DEF SentApart
<1>7. f \in Injection(i..Len(sent), PruneDay(d.sends, m))
  <2>1. f \in [i..Len(sent) -> PruneDay(d.sends, m)]
    BY <1>4
  <2> QED
    BY <1>6, <2>1 DEF Injection, IsInjective
<1>8. Cardinality(i..Len(sent)) = Len(sent) - i + 1
  <2>1. i \in Int /\ Len(sent) \in Int /\ ~(i > Len(sent))
    BY <1>0
  <2> QED
    BY <2>1, FS_Interval
<1>9. PruneDay(d.sends, m) \subseteq d.sends
  BY DEF PruneDay
<1>10. IsFiniteSet(PruneDay(d.sends, m))
  BY <1>1, <1>9, FS_Subset DEF LadderDocOK
<1>11. Cardinality(i..Len(sent)) <= Cardinality(PruneDay(d.sends, m))
  BY <1>7, <1>10, FS_Injection
<1>12. Cardinality(PruneDay(d.sends, m)) < Ceiling
  BY <1>1 DEF SlotFree
<1>13. Cardinality(PruneDay(d.sends, m)) \in Nat
  BY <1>10, FS_CardinalityType
<1> QED
  BY <1>0, <1>8, <1>11, <1>12, <1>13, LadderConstants

\* The code for which the slot after `d` was taken is sent.
LEMMA SentOneMore ==
    ASSUME LadderTypeOK, NEW d \in SendDocs \cup {NoSendDoc}, LadderDocOK(d), NEW m \in Nat, SlotFree(d, m),
           SentUpTo(d), SentApart, SentFew,
           sent' = Append(sent, [at |-> m, next |-> SlotDoc(d, m).next]), sendDoc' = SlotDoc(d, m)
    PROVE  SentUpTo(sendDoc)' /\ SentApart' /\ SentFew'
<1> DEFINE e == SlotDoc(d, m)
           n == Len(sent)
<1>0. sent \in Seq([at : Nat, next : Nat]) /\ n \in Nat
  BY DEF LadderTypeOK
<1>1. /\ e \in SendDocs /\ e # NoSendDoc /\ e.last = m /\ e.next > m + HandlerTime
      /\ d # NoSendDoc => e.sends = PruneDay(d.sends, m) \cup {m}
      /\ d = NoSendDoc => e.sends = {m}
  BY SlotDocOK
<1>2. e.next \in Nat
  BY <1>1 DEF SendDocs
<1>3. [at |-> m, next |-> e.next] \in [at : Nat, next : Nat]
  BY <1>2
<1>4. /\ sent' \in Seq([at : Nat, next : Nat]) /\ Len(sent') = n + 1
      /\ DOMAIN sent' = 1..(n + 1) /\ DOMAIN sent = 1..n
      /\ \A i \in 1..n : sent'[i] = sent[i]
      /\ sent'[n + 1] = [at |-> m, next |-> e.next]
  BY <1>0, <1>3
<1> HIDE DEF e
<1>5. \A i \in 1..n : sent[i].at \in Nat /\ sent[i].next \in Nat
  BY SentTyped
<1>6. \A i \in 1..n : d # NoSendDoc /\ d \in SendDocs /\ n >= 1
  BY <1>0 DEF SentUpTo
<1>7. \A i \in 1..n : sent[i].at < m /\ sent[i].next <= m
  <2>1. SUFFICES ASSUME NEW i \in 1..n
                 PROVE  sent[i].at < m /\ sent[i].next <= m
    OBVIOUS
  <2>2. d # NoSendDoc /\ d \in SendDocs /\ n \in 1..n /\ d.last \in Nat /\ d.next \in Nat
    BY <1>0, <1>6, <2>1 DEF SendDocs
  <2>3. d.last = sent[n].at /\ d.next = sent[n].next /\ d.last < d.next /\ d.next <= m
    BY <2>2 DEF SentUpTo, LadderDocOK, SlotFree
  <2>4. i = n \/ i < n
    BY <1>0
  <2>5. i < n => sent[i].at < sent[n].at /\ sent[i].next <= sent[n].at
    BY <1>4, <2>2 DEF SentApart
  <2> QED
    BY <1>5, <2>2, <2>3, <2>4, <2>5
<1>8. SentUpTo(sendDoc)'
  <2>1. sendDoc' = e
    BY DEF e
  <2>2. sent' # <<>>
    BY <1>0, <1>4
  <2>3. \A i \in DOMAIN sent' : sent'[i].at \in e.sends \/ sent'[i].at <= e.last - Day
    <3>1. SUFFICES ASSUME NEW i \in 1..(n + 1)
                   PROVE  sent'[i].at \in e.sends \/ sent'[i].at <= e.last - Day
      BY <1>4
    <3>2. CASE i = n + 1
      BY <1>1, <1>4, <3>2
    <3>3. CASE i # n + 1
      <4>1. i \in 1..n
        BY <1>0, <3>3
      <4>2. d # NoSendDoc /\ d \in SendDocs /\ sent'[i] = sent[i] /\ sent[i].at \in Nat /\ d.last \in Nat /\ d.next \in Nat
        BY <1>4, <1>5, <1>6, <4>1 DEF SendDocs
      <4>3. sent[i].at \in d.sends \/ sent[i].at <= d.last - Day
        BY <1>4, <4>1, <4>2 DEF SentUpTo
      <4>4. d.last < m
        BY <4>2 DEF LadderDocOK, SlotFree
      <4>5. CASE sent[i].at > m - Day
        <5>1. sent[i].at \in d.sends
          BY <4>2, <4>3, <4>4, <4>5, LadderConstants
        <5>2. sent[i].at \in PruneDay(d.sends, m)
          BY <4>5, <5>1 DEF PruneDay
        <5> QED
          BY <1>1, <4>2, <5>2
      <4>6. CASE ~(sent[i].at > m - Day)
        BY <1>1, <4>2, <4>6, LadderConstants
      <4> QED
        BY <4>5, <4>6
    <3> QED
      BY <3>2, <3>3
  <2>4. sent'[Len(sent')].next = e.next /\ sent'[Len(sent')].at = e.last
    BY <1>1, <1>4
  <2> QED
    BY <1>1, <2>1, <2>2, <2>3, <2>4 DEF SentUpTo
<1>9. SentApart'
  <2>1. SUFFICES ASSUME NEW i \in 1..(n + 1), NEW j \in 1..(n + 1), i < j
                 PROVE  sent'[i].at < sent'[j].at /\ sent'[i].next <= sent'[j].at
    BY <1>4 DEF SentApart
  <2>2. i \in 1..n
    BY <1>0, <2>1
  <2>3. CASE j = n + 1
    BY <1>4, <1>7, <2>2, <2>3
  <2>4. CASE j # n + 1
    <3>1. j \in 1..n
      BY <1>0, <2>4
    <3> QED
      BY <1>4, <2>1, <2>2, <3>1 DEF SentApart
  <2> QED
    BY <2>3, <2>4
<1>10. SentFew'
  <2>1. SUFFICES ASSUME NEW i \in 1..(n + 1), i + Ceiling <= n + 1
                 PROVE  sent'[i + Ceiling].at - sent'[i].at >= Day
    BY <1>4 DEF SentFew
  <2>2. i \in 1..n /\ i + Ceiling \in 1..(n + 1)
    BY <1>0, <2>1, LadderConstants
  <2>3. CASE i + Ceiling = n + 1
    <3>1. d \in SendDocs
      BY <1>6, <2>2
    <3>2. m - sent[i].at >= Day
      BY <1>4, <2>2, <2>3, <3>1, CeilingOfDay
    <3> QED
      BY <1>4, <2>2, <2>3, <3>2
  <2>4. CASE i + Ceiling # n + 1
    <3>1. i + Ceiling \in 1..n /\ i + Ceiling <= n
      BY <1>0, <2>2, <2>4, LadderConstants
    <3> QED
      BY <1>4, <2>2, <3>1 DEF SentFew
  <2> QED
    BY <2>3, <2>4
<1> QED
  BY <1>8, <1>9, <1>10

-----------------------------------------------------------------------------
LEMMA TapFields ==
    ASSUME LadderInv, NEW r \in Taps
    PROVE  /\ taps[r] \in Tap /\ TapOK(taps[r])
           /\ taps[r].doc \in SendDocs \cup {NoSendDoc} /\ taps[r].old \in BOOLEAN
           /\ taps[r].started \in Nat /\ taps[r].at \in Nat /\ taps[r].next \in Nat
           /\ clock \in Nat
<1>1. taps[r] \in Tap
  BY DEF LadderInv, LadderTypeOK
<1>2. clock \in Nat
  BY LadderConstants DEF LadderInv, LadderTypeOK
<1> QED
  BY <1>1, <1>2 DEF LadderInv, Tap

\* While a request is at the gateway, the document it wrote is cooling down.
LEMMA CoolsWhileSending ==
    ASSUME LadderInv, ~crossed, NEW g \in Taps, TapAt(taps[g], "gateway")
    PROVE  sendDoc # NoSendDoc /\ CoolingDown(sendDoc)
<1>1. /\ LadderDocOK(taps[g].doc) /\ SlotFree(taps[g].doc, taps[g].at)
      /\ clock <= taps[g].started + HandlerTime /\ taps[g].started <= taps[g].at
  BY TapFields DEF TapOK, TapAt
<1>2. sendDoc = SlotDoc(taps[g].doc, taps[g].at)
  BY DEF LadderInv, OneSlot, HoldsSlot
<1>3. sendDoc # NoSendDoc /\ sendDoc \in SendDocs /\ sendDoc.next > taps[g].at + HandlerTime
  BY <1>1, <1>2, TapFields, SlotDocOK
<1>4. sendDoc.next \in Nat
  BY <1>3 DEF SendDocs
<1> QED
  BY <1>1, <1>3, <1>4, TapFields, LadderConstants DEF CoolingDown

\* A request goes on, and neither takes the slot nor comes from the gateway.
LEMMA TapMoves ==
    ASSUME LadderInv, NEW r \in Taps, NEW t \in Tap, TapOK(t),
           UNCHANGED <<clock, sendDoc, code, resets, sent, crossed>>, taps' = [taps EXCEPT ![r] = t],
           ~TapAt(taps[r], "gateway"), t.pc # "gateway",
           t.pc = "write" /\ ~t.old /\ t.doc # NoSendDoc /\ ~crossed =>
               t.doc = sendDoc /\ \A g \in Taps : ~TapAt(taps[g], "gateway")
    PROVE  LadderInv'
<1>1. taps' \in [Taps -> Tap] /\ taps'[r] = t /\ \A q \in Taps \ {r} : taps'[q] = taps[q]
  BY DEF LadderInv, LadderTypeOK
<1>2. LadderTypeOK'
  BY <1>1 DEF LadderInv, LadderTypeOK
<1>3. \A q \in Taps : TapOK(taps[q])'
  BY <1>1 DEF LadderInv, TapOK
<1>4. \A q \in Taps : TapAt(taps'[q], "gateway") <=> TapAt(taps[q], "gateway")
  BY <1>1 DEF TapAt
<1>5. \A q \in Taps : TapAt(taps'[q], "gateway") => taps'[q] = taps[q]
  BY <1>1 DEF TapAt
<1>6. ASSUME ~crossed
      PROVE  OneSlot' /\ SentApart' /\ SentFew'
  <2>1. OneSlot /\ SentApart /\ SentFew
    BY <1>6 DEF LadderInv
  <2>2. SentApart' /\ SentFew'
    BY <2>1 DEF SentApart, SentFew
  <2>3. \A q \in Taps : HoldsSlot(taps[q])'
    BY <1>4, <1>5, <2>1 DEF OneSlot, HoldsSlot
  <2>4. \A q \in Taps : MayReserve(taps[q])'
    <3>1. SUFFICES ASSUME NEW q \in Taps
                   PROVE  MayReserve(taps[q])'
      OBVIOUS
    <3>2. CASE q = r
      <4>1. taps'[q] = t
        BY <1>1, <3>2
      <4>2. t.doc = NoSendDoc \/ t.doc \in SendDocs
        BY DEF Tap
      <4>3. t.doc \in SendDocs => t.doc.version <= t.doc.version
        BY DEF SendDocs
      <4> QED
        BY <1>4, <1>6, <4>1, <4>2, <4>3, NoSendDocApart DEF MayReserve, TapAt
    <3>3. CASE q # r
      <4>1. MayReserve(taps[q]) /\ taps'[q] = taps[q]
        BY <1>1, <2>1, <3>3 DEF OneSlot
      <4> QED
        BY <1>4, <1>5, <4>1 DEF MayReserve
    <3> QED
      BY <3>2, <3>3
  <2>5. \A g, h \in Taps : TapAt(taps'[g], "gateway") /\ TapAt(taps'[h], "gateway") => g = h
    BY <1>4, <2>1 DEF OneSlot
  <2>6. \A d : SentUpTo(d)' <=> SentUpTo(d)
    BY DEF SentUpTo
  <2>7. \A g \in Taps : TapAt(taps'[g], "gateway") => SentUpTo(taps[g].doc)'
    BY <1>4, <1>5, <2>1, <2>6 DEF OneSlot
  <2>8. (\A g \in Taps : ~TapAt(taps'[g], "gateway")) => SentUpTo(sendDoc)'
    BY <1>4, <2>1, <2>6 DEF OneSlot
  <2> QED
    BY <2>2, <2>3, <2>4, <2>5, <2>7, <2>8 DEF OneSlot
<1>7. LadderDocOK(sendDoc)'
  BY DEF LadderInv
<1> QED
  BY <1>2, <1>3, <1>6, <1>7 DEF LadderInv

\* The slot is taken.
LEMMA SlotTaken ==
    ASSUME LadderInv, NEW r \in Taps, NEW d \in SendDocs \cup {NoSendDoc}, LadderDocOK(d),
           NEW m \in Nat, SlotFree(d, m), taps[r].pc \in {"insert", "write"},
           taps[r].started <= m, m <= clock, Reserved(r, SlotDoc(d, m), d),
           UNCHANGED <<clock, code, resets, sent>>,
           ~crossed /\ ~taps[r].old => d = sendDoc /\ \A g \in Taps : ~TapAt(taps[g], "gateway")
    PROVE  LadderInv'
<1> DEFINE e == SlotDoc(d, m)
<1>1. /\ e \in SendDocs /\ e # NoSendDoc /\ LadderDocOK(e) /\ e.last = m
      /\ d # NoSendDoc => e.version = d.version + 1
  BY SlotDocOK
<1>2. e.next \in Nat /\ e.version \in Nat
  BY <1>1 DEF SendDocs
<1>3. PICK b \in BOOLEAN : b = CodeLive(taps[r].started)
  BY DEF CodeLive
<1>4. PICK t : t = [taps[r] EXCEPT !.pc = "gateway", !.at = m, !.next = e.next, !.doc = d, !.live = b]
  OBVIOUS
<1>5. taps[r] \in Tap /\ taps[r].old \in BOOLEAN
  BY TapFields
<1>6. t \in Tap
  BY <1>2, <1>3, <1>4, <1>5 DEF Tap
<1>7. taps' = [taps EXCEPT ![r] = t]
  <2>1. taps' = [taps EXCEPT ![r].pc = "gateway", ![r].at = m, ![r].next = e.next,
                             ![r].doc = d, ![r].live = b]
    BY <1>1, <1>3 DEF Reserved
  <2>2. taps \in [Taps -> Tap]
    BY DEF LadderInv, LadderTypeOK
  <2> QED
    BY <1>4, <2>1, <2>2
<1>8. sendDoc' = e /\ crossed' = (crossed \/ taps[r].old)
  BY DEF Reserved
<1>9. t.pc = "gateway" /\ t.at = m /\ t.next = e.next /\ t.doc = d /\ t.old = taps[r].old
      /\ t.started = taps[r].started
  BY <1>4, <1>5 DEF Tap
<1> HIDE DEF e
<1>10. taps' \in [Taps -> Tap] /\ taps'[r] = t /\ \A q \in Taps \ {r} : taps'[q] = taps[q]
  BY <1>6, <1>7 DEF LadderInv, LadderTypeOK
<1>11. LadderTypeOK'
  BY <1>1, <1>5, <1>8, <1>10 DEF LadderInv, LadderTypeOK
<1>12. TapOK(t)
  <2>1. clock <= taps[r].started + HandlerTime
    <3>1. taps[r].pc # "idle"
      OBVIOUS
    <3> QED
      BY <3>1, TapFields DEF TapOK
  <2>2. LadderDocOK(t.doc) /\ SlotFree(t.doc, t.at)
    BY <1>9
  <2>3. t.started <= clock
    <3>1. taps[r].started \in Nat /\ clock \in Nat
      BY TapFields
    <3> QED
      BY <1>9, <3>1
  <2>4. t.started <= t.at /\ t.at <= clock /\ clock <= t.started + HandlerTime
    BY <1>9, <2>1
  <2> QED
    BY <2>2, <2>3, <2>4 DEF TapOK
<1>13. \A q \in Taps : TapOK(taps[q])'
  BY <1>10, <1>12 DEF LadderInv, TapOK
<1>14. ASSUME ~crossed'
       PROVE  OneSlot' /\ SentApart' /\ SentFew'
  <2>1. ~crossed /\ ~taps[r].old
    BY <1>5, <1>8, <1>14 DEF LadderInv, LadderTypeOK
  <2>2. d = sendDoc /\ \A g \in Taps : ~TapAt(taps[g], "gateway")
    BY <2>1
  <2>3. OneSlot /\ SentApart /\ SentFew
    BY <2>1 DEF LadderInv
  <2>4. SentApart' /\ SentFew'
    BY <2>3 DEF SentApart, SentFew
  <2>5. \A g \in Taps : TapAt(taps'[g], "gateway") => g = r
    BY <1>10, <2>2
  <2>6. \A q \in Taps : HoldsSlot(taps[q])'
    BY <1>8, <1>9, <1>10, <2>5 DEF HoldsSlot, e
  <2>7. \A q \in Taps : MayReserve(taps[q])'
    <3>1. SUFFICES ASSUME NEW q \in Taps, TapAt(taps'[q], "write"), taps'[q].doc # NoSendDoc
                   PROVE  /\ sendDoc' # NoSendDoc /\ taps'[q].doc.version <= sendDoc'.version
                          /\ taps'[q].doc.version # sendDoc'.version
                          /\ \A g \in Taps : TapAt(taps'[g], "gateway") =>
                                 taps'[g].doc # NoSendDoc /\ taps'[q].doc.version < sendDoc'.version
      BY DEF MayReserve
    <3>2. q # r /\ taps'[q] = taps[q]
      BY <1>9, <1>10, <3>1 DEF TapAt
    <3>3. MayReserve(taps[q])
      BY <2>3 DEF OneSlot
    <3>4. sendDoc # NoSendDoc /\ taps[q].doc.version <= sendDoc.version
      BY <3>1, <3>2, <3>3 DEF MayReserve
    <3>5. d # NoSendDoc /\ d \in SendDocs /\ taps[q].doc \in SendDocs
      BY <2>2, <3>1, <3>2, <3>4, TapFields
    <3>6. d.version \in Nat /\ taps[q].doc.version \in Nat
      BY <3>5 DEF SendDocs
    <3>7. taps'[q].doc.version <= sendDoc'.version /\ taps'[q].doc.version < sendDoc'.version
          /\ taps'[q].doc.version # sendDoc'.version
      BY <1>1, <1>8, <2>2, <3>2, <3>4, <3>5, <3>6
    <3>8. \A g \in Taps : TapAt(taps'[g], "gateway") => taps'[g].doc # NoSendDoc
      BY <1>9, <1>10, <2>5, <3>5
    <3> QED
      BY <1>1, <1>8, <3>7, <3>8
  <2>8. SentUpTo(d)'
    <3>1. SentUpTo(d)
      BY <2>2, <2>3 DEF OneSlot
    <3> QED
      BY <3>1 DEF SentUpTo
  <2>9. \A g \in Taps : TapAt(taps'[g], "gateway") => SentUpTo(taps[g].doc)'
    <3>1. SUFFICES ASSUME NEW g \in Taps, g = r
                   PROVE  SentUpTo(taps[g].doc)'
      BY <2>5
    <3>2. taps'[g].doc = d
      BY <1>9, <1>10, <3>1
    <3> QED
      BY <2>8, <3>2 DEF SentUpTo
  <2>10. TapAt(taps'[r], "gateway")
    BY <1>9, <1>10, <2>1 DEF TapAt
  <2>11. (\A g \in Taps : ~TapAt(taps'[g], "gateway")) => SentUpTo(sendDoc)'
    BY <2>10
  <2> QED
    BY <2>4, <2>5, <2>6, <2>7, <2>9, <2>11 DEF OneSlot
<1>15. LadderDocOK(sendDoc)'
  BY <1>1, <1>8 DEF LadderDocOK
<1> QED
  BY <1>11, <1>13, <1>14, <1>15 DEF LadderInv

\* The request leaves the gateway, whatever it did there to the document.
LEMMA TapEnds ==
    ASSUME LadderInv, NEW r \in Taps, Answered(r), UNCHANGED <<clock>>
    PROVE  /\ taps' \in [Taps -> Tap] /\ taps'[r] = NoTap
           /\ \A q \in Taps \ {r} : taps'[q] = taps[q]
           /\ \A q \in Taps : TapOK(taps[q])'
           /\ \A q \in Taps : ~NoTap.old /\ NoTap.pc = "idle"
<1>1. taps' \in [Taps -> Tap] /\ taps'[r] = NoTap /\ \A q \in Taps \ {r} : taps'[q] = taps[q]
  BY NoSendDocApart DEF Answered, LadderInv, LadderTypeOK
<1>2. \A q \in Taps : TapOK(taps'[q])
  BY <1>1, NoTapOK DEF LadderInv
<1> QED
  BY <1>1, <1>2, NoSendDocApart DEF TapOK

LEMMA TakenKeeps ==
    ASSUME LadderInv, NEW r \in Taps, CodeTaken(r)
    PROVE  LadderInv'
<1>0. taps[r].pc = "gateway" /\ Answered(r) /\ UNCHANGED <<clock, sendDoc, resets, crossed>>
  BY DEF CodeTaken
<1>1. /\ taps' \in [Taps -> Tap] /\ taps'[r] = NoTap
      /\ \A q \in Taps \ {r} : taps'[q] = taps[q]
      /\ \A q \in Taps : TapOK(taps[q])'
  BY <1>0, TapEnds
<1>2. LadderTypeOK'
  <2>1. code' \in Nat \cup {NoCode}
    BY TapFields DEF CodeTaken, LadderInv, LadderTypeOK
  <2>2. sent' \in Seq([at : Nat, next : Nat])
    <3>1. [at |-> taps[r].at, next |-> taps[r].next] \in [at : Nat, next : Nat]
      BY TapFields
    <3>2. sent \in Seq([at : Nat, next : Nat])
      BY DEF LadderInv, LadderTypeOK
    <3>3. sent' = sent \/ sent' = Append(sent, [at |-> taps[r].at, next |-> taps[r].next])
      BY DEF CodeTaken
    <3> DEFINE S == [at : Nat, next : Nat]
               x == [at |-> taps[r].at, next |-> taps[r].next]
    <3>4. x \in S /\ sent \in Seq(S) /\ (sent' = sent \/ sent' = Append(sent, x))
      BY <3>1, <3>2, <3>3
    <3> HIDE DEF S, x
    <3>5. sent' \in Seq(S)
      BY <3>4
    <3> QED
      BY <3>5 DEF S
  <2> QED
    BY <1>0, <1>1, <2>1, <2>2 DEF LadderInv, LadderTypeOK
<1>3. ASSUME ~crossed'
      PROVE  OneSlot' /\ SentApart' /\ SentFew'
  <2>1. ~crossed /\ OneSlot /\ SentApart /\ SentFew
    BY <1>0, <1>3 DEF LadderInv
  <2>2. \A q \in Taps : TapAt(taps'[q], "gateway") =>
                            q # r /\ taps'[q] = taps[q] /\ TapAt(taps[q], "gateway")
    BY <1>1, NoSendDocApart DEF TapAt
  <2>3. \A q \in Taps : HoldsSlot(taps[q])'
    BY <1>0, <2>1, <2>2 DEF OneSlot, HoldsSlot
  <2>4. \A q \in Taps : MayReserve(taps[q])'
    <3>1. SUFFICES ASSUME NEW q \in Taps, q # r
                   PROVE  MayReserve(taps[q])'
      BY <1>1, NoSendDocApart DEF MayReserve, TapAt
    <3>2. MayReserve(taps[q]) /\ taps'[q] = taps[q]
      BY <1>1, <2>1, <3>1 DEF OneSlot
    <3> QED
      BY <1>0, <2>2, <3>2 DEF MayReserve
  <2>5. \A g, h \in Taps : TapAt(taps'[g], "gateway") /\ TapAt(taps'[h], "gateway") => g = h
    BY <2>1, <2>2 DEF OneSlot
  <2>6. CASE taps[r].old
    <3>1. sent' = sent
      BY <2>6 DEF CodeTaken
    <3>2. \A d : SentUpTo(d)' <=> SentUpTo(d)
      BY <3>1 DEF SentUpTo
    <3>3. SentApart' /\ SentFew'
      BY <2>1, <3>1 DEF SentApart, SentFew
    <3>4. \A g \in Taps : TapAt(taps'[g], "gateway") => SentUpTo(taps[g].doc)'
      <4>1. SUFFICES ASSUME NEW g \in Taps, TapAt(taps'[g], "gateway")
                     PROVE  SentUpTo(taps'[g].doc)
        BY <3>1 DEF SentUpTo
      <4> QED
        BY <2>1, <2>2, <4>1 DEF OneSlot
    <3>5. (\A g \in Taps : ~TapAt(taps'[g], "gateway")) => SentUpTo(sendDoc)'
      <4>1. SUFFICES ASSUME \A g \in Taps : ~TapAt(taps'[g], "gateway")
                     PROVE  SentUpTo(sendDoc)
        BY <1>0, <3>1 DEF SentUpTo
      <4>2. \A g \in Taps : ~TapAt(taps[g], "gateway")
        BY <1>1, <2>6, <4>1 DEF TapAt
      <4> QED
        BY <2>1, <4>2 DEF OneSlot
    <3> QED
      BY <2>3, <2>4, <2>5, <3>3, <3>4, <3>5 DEF OneSlot
  <2>7. CASE ~taps[r].old
    <3> DEFINE d == taps[r].doc
               m == taps[r].at
    <3>1. TapAt(taps[r], "gateway")
      BY <1>0, <2>7 DEF TapAt
    <3>2. SentUpTo(d) /\ sendDoc = SlotDoc(d, m) /\ taps[r].next = sendDoc.next
      BY <2>1, <3>1 DEF OneSlot, HoldsSlot
    <3>3. d \in SendDocs \cup {NoSendDoc} /\ LadderDocOK(d) /\ m \in Nat /\ SlotFree(d, m)
      BY <1>0, TapFields DEF TapOK
    <3>4. sendDoc' = SlotDoc(d, m) /\ sent' = Append(sent, [at |-> m, next |-> SlotDoc(d, m).next])
      BY <1>0, <2>7, <3>2 DEF CodeTaken
    <3> HIDE DEF d, m
    <3>5. LadderTypeOK
      BY DEF LadderInv
    <3>6. SentUpTo(sendDoc)' /\ SentApart' /\ SentFew'
      BY <2>1, <3>2, <3>3, <3>4, <3>5, SentOneMore
    <3>7. \A g \in Taps : ~TapAt(taps'[g], "gateway")
      BY <2>1, <2>2, <3>1 DEF OneSlot
    <3>8. \A g \in Taps : TapAt(taps'[g], "gateway") => SentUpTo(taps[g].doc)'
      BY <3>7
    <3> QED
      BY <2>3, <2>4, <2>5, <3>6, <3>8 DEF OneSlot
  <2> QED
    BY <2>6, <2>7
<1>4. LadderDocOK(sendDoc)'
  BY <1>0 DEF LadderInv
<1> QED
  BY <1>1, <1>2, <1>3, <1>4 DEF LadderInv

LEMMA FailedKeeps ==
    ASSUME LadderInv, NEW r \in Taps, SendFailed(r)
    PROVE  LadderInv'
<1> DEFINE d == taps[r].doc
<1>0. /\ taps[r].pc = "gateway" /\ Answered(r) /\ UNCHANGED <<clock, code, resets, sent>>
      /\ sendDoc' = RolledBack(d) /\ crossed' = (crossed \/ taps[r].old)
  BY DEF SendFailed
<1>1. /\ taps' \in [Taps -> Tap] /\ taps'[r] = NoTap
      /\ \A q \in Taps \ {r} : taps'[q] = taps[q]
      /\ \A q \in Taps : TapOK(taps[q])'
  BY <1>0, TapEnds
<1>2. d \in SendDocs \cup {NoSendDoc} /\ LadderDocOK(d) /\ taps[r].old \in BOOLEAN
  BY TapFields DEF TapOK
<1>3. sendDoc \in SendDocs \cup {NoSendDoc}
  BY DEF LadderInv, LadderTypeOK
<1> HIDE DEF d
<1>4. CASE d = NoSendDoc \/ sendDoc = NoSendDoc
  <2>1. sendDoc' = NoSendDoc
    BY <1>0, <1>4 DEF RolledBack
  <2> QED
    <3>1. LadderTypeOK'
      BY <1>0, <1>1, <1>2, <2>1 DEF LadderInv, LadderTypeOK
    <3>2. LadderDocOK(sendDoc)'
      BY <2>1 DEF LadderDocOK
    <3>3. ASSUME ~crossed'
          PROVE  OneSlot' /\ SentApart' /\ SentFew'
      <4>1. ~crossed /\ ~taps[r].old /\ OneSlot /\ SentApart /\ SentFew
        BY <1>0, <1>2, <3>3 DEF LadderInv, LadderTypeOK
      <4>2. TapAt(taps[r], "gateway")
        BY <1>0, <4>1 DEF TapAt
      <4>3. \A q \in Taps : ~TapAt(taps'[q], "gateway")
        BY <1>1, <4>1, <4>2, NoSendDocApart DEF TapAt, OneSlot
      <4>4. sendDoc # NoSendDoc /\ d = NoSendDoc
        BY <1>4, <4>1, <4>2, CoolsWhileSending
      <4>5. \A q \in Taps : HoldsSlot(taps[q])'
        BY <4>3 DEF HoldsSlot
      <4>6. \A q \in Taps : MayReserve(taps[q])'
        <5>1. SUFFICES ASSUME NEW q \in Taps, TapAt(taps'[q], "write"), taps'[q].doc # NoSendDoc
                       PROVE  FALSE
          BY DEF MayReserve
        <5>2. q # r /\ taps'[q] = taps[q]
          BY <1>1, <5>1, NoSendDocApart DEF TapAt
        <5>3. MayReserve(taps[q])
          BY <4>1 DEF OneSlot
        <5> QED
          BY <4>2, <4>4, <5>1, <5>2, <5>3 DEF MayReserve, d
      <4>7. SentUpTo(d)
        BY <4>1, <4>2 DEF OneSlot, d
      <4>8. SentUpTo(sendDoc)' /\ SentApart' /\ SentFew'
        BY <1>0, <2>1, <4>1, <4>4, <4>7 DEF SentUpTo, SentApart, SentFew
      <4>9. \A g \in Taps : TapAt(taps'[g], "gateway") => SentUpTo(taps[g].doc)'
        BY <4>3
      <4> QED
        BY <4>3, <4>5, <4>6, <4>8, <4>9 DEF OneSlot
    <3> QED
      BY <1>1, <3>1, <3>2, <3>3 DEF LadderInv
<1>5. CASE d # NoSendDoc /\ sendDoc # NoSendDoc
  <2>0. d \in SendDocs /\ sendDoc \in SendDocs /\ sendDoc.version \in Nat
    BY <1>2, <1>3, <1>5 DEF SendDocs
  <2>1. sendDoc' = [d EXCEPT !.version = sendDoc.version + 1]
    BY <1>0, <1>5 DEF RolledBack
  <2>2. /\ sendDoc' \in SendDocs /\ sendDoc'.version = sendDoc.version + 1
        /\ sendDoc'.last = d.last /\ sendDoc'.next = d.next /\ sendDoc'.sends = d.sends
        /\ sendDoc' # NoSendDoc
    BY <2>0, <2>1, NoSendDocApart DEF SendDocs
  <2>3. LadderTypeOK'
    BY <1>0, <1>1, <1>2, <2>2 DEF LadderInv, LadderTypeOK
  <2>4. LadderDocOK(sendDoc)'
    BY <1>2, <1>5, <2>2 DEF LadderDocOK
  <2>5. ASSUME ~crossed'
        PROVE  OneSlot' /\ SentApart' /\ SentFew'
    <3>1. ~crossed /\ ~taps[r].old /\ OneSlot /\ SentApart /\ SentFew
      BY <1>0, <1>2, <2>5 DEF LadderInv, LadderTypeOK
    <3>2. TapAt(taps[r], "gateway")
      BY <1>0, <3>1 DEF TapAt
    <3>3. \A q \in Taps : ~TapAt(taps'[q], "gateway")
      BY <1>1, <3>1, <3>2, NoSendDocApart DEF TapAt, OneSlot
    <3>4. \A q \in Taps : HoldsSlot(taps[q])'
      BY <3>3 DEF HoldsSlot
    <3>5. \A q \in Taps : MayReserve(taps[q])'
      <4>1. SUFFICES ASSUME NEW q \in Taps, TapAt(taps'[q], "write"), taps'[q].doc # NoSendDoc
                     PROVE  /\ taps'[q].doc.version <= sendDoc'.version
                            /\ taps'[q].doc.version # sendDoc'.version
        BY <2>2, <3>3 DEF MayReserve
      <4>2. q # r /\ taps'[q] = taps[q]
        BY <1>1, <4>1, NoSendDocApart DEF TapAt
      <4>3. MayReserve(taps[q])
        BY <3>1 DEF OneSlot
      <4>4. taps[q].doc.version <= sendDoc.version
        BY <4>1, <4>2, <4>3 DEF MayReserve
      <4>5. taps[q].doc \in SendDocs
        BY <4>1, <4>2, TapFields
      <4>6. taps[q].doc.version \in Nat
        BY <4>5 DEF SendDocs
      <4> QED
        BY <2>0, <2>2, <4>2, <4>4, <4>6
    <3>6. SentUpTo(d)
      BY <3>1, <3>2 DEF OneSlot, d
    <3>7. SentUpTo(sendDoc)' /\ SentApart' /\ SentFew'
      BY <1>0, <1>5, <2>2, <3>1, <3>6 DEF SentUpTo, SentApart, SentFew
    <3>8. \A g \in Taps : TapAt(taps'[g], "gateway") => SentUpTo(taps[g].doc)'
      BY <3>3
    <3> QED
      BY <3>3, <3>4, <3>5, <3>7, <3>8 DEF OneSlot
  <2> QED
    BY <1>1, <2>3, <2>4, <2>5 DEF LadderInv
<1> QED
  BY <1>4, <1>5

LEMMA ReservingKeeps ==
    ASSUME LadderInv, NEW r \in Taps, ReserveFirst(r) \/ Reserve(r)
    PROVE  LadderInv'
<1>1. CASE ReserveFirst(r) /\ sendDoc = NoSendDoc
  <2>0. /\ taps[r].pc = "insert" /\ Reserved(r, FirstSend(clock), NoSendDoc)
        /\ UNCHANGED <<clock, code, resets, sent>>
    BY <1>1 DEF ReserveFirst
  <2>1. FirstSend(clock) = SlotDoc(NoSendDoc, clock)
    BY DEF SlotDoc
  <2>2. taps[r].started <= clock /\ clock \in Nat
    BY <2>0, TapFields DEF TapOK
  <2>3. LadderDocOK(NoSendDoc) /\ SlotFree(NoSendDoc, clock)
    BY DEF LadderDocOK, SlotFree
  <2>4. ~crossed => \A g \in Taps : ~TapAt(taps[g], "gateway")
    BY <1>1, CoolsWhileSending
  <2> QED
    BY <1>1, <2>0, <2>1, <2>2, <2>3, <2>4, SlotTaken
<1>2. CASE ReserveFirst(r) /\ sendDoc # NoSendDoc
  <2>0. /\ taps[r].pc = "insert" /\ taps' = [taps EXCEPT ![r].pc = "read"]
        /\ UNCHANGED <<clock, sendDoc, code, resets, sent, crossed>>
    BY <1>2 DEF ReserveFirst
  <2>1. PICK t : t = [taps[r] EXCEPT !.pc = "read"]
    OBVIOUS
  <2>2. t \in Tap /\ t.pc = "read" /\ t.doc = taps[r].doc /\ t.started = taps[r].started
    BY <2>1, TapFields DEF Tap
  <2>3. taps' = [taps EXCEPT ![r] = t]
    BY <2>0, <2>1 DEF LadderInv, LadderTypeOK
  <2>4. TapOK(t)
    BY <2>0, <2>2, TapFields DEF TapOK
  <2> QED
    BY <2>0, <2>2, <2>3, <2>4, TapMoves DEF TapAt
<1>3. CASE Reserve(r)
  <2> DEFINE d == taps[r].doc
             m == taps[r].at
  <2>0. taps[r].pc = "write" /\ UNCHANGED <<clock, code, resets, sent>>
    BY <1>3 DEF Reserve
  <2>1. /\ d \in SendDocs \cup {NoSendDoc} /\ m \in Nat /\ LadderDocOK(d) /\ SlotFree(d, m)
        /\ taps[r].started <= m /\ m <= clock
    BY <2>0, TapFields DEF TapOK
  <2>2. Reserved(r, SlotDoc(d, m), d)
    BY <1>3 DEF Reserve, SlotDoc
  <2>3. ASSUME ~crossed, ~taps[r].old
        PROVE  d = sendDoc /\ \A g \in Taps : ~TapAt(taps[g], "gateway")
    <3>1. MayReserve(taps[r])
      BY <2>3 DEF LadderInv, OneSlot
    <3>2. CASE d = NoSendDoc
      <4>1. sendDoc = NoSendDoc
        BY <1>3, <3>2 DEF Reserve
      <4> QED
        BY <2>3, <3>2, <4>1, CoolsWhileSending
    <3>3. CASE d # NoSendDoc
      <4>1. sendDoc # NoSendDoc /\ sendDoc.version = d.version
        BY <1>3, <3>3 DEF Reserve, SameVersion
      <4>2. d \in SendDocs
        BY <2>1, <3>3
      <4>3. d.version \in Nat
        BY <4>2 DEF SendDocs
      <4> QED
        BY <2>0, <2>3, <3>1, <3>3, <4>1, <4>3 DEF MayReserve, TapAt
    <3> QED
      BY <3>2, <3>3
  <2> HIDE DEF d, m
  <2> QED
    BY <2>0, <2>1, <2>2, <2>3, SlotTaken
<1> QED
  BY <1>1, <1>2, <1>3

LEMMA WaitingKeeps ==
    ASSUME LadderInv, NEW r \in Taps,
           AskForCode(r) \/ ReadSendState(r) \/ Refuse(r) \/ LoseSlot(r)
    PROVE  LadderInv'
<1>1. CASE AskForCode(r)
  <2>0. /\ taps[r].pc = "idle" /\ UNCHANGED <<clock, sendDoc, code, resets, sent, crossed>>
        /\ taps' = [taps EXCEPT ![r] = [NoTap EXCEPT !.pc = "insert", !.started = clock]]
    BY <1>1 DEF AskForCode
  <2>1. PICK t : t = [NoTap EXCEPT !.pc = "insert", !.started = clock]
    OBVIOUS
  <2>2. t \in Tap /\ t.pc = "insert" /\ t.doc = NoSendDoc /\ t.started = clock
    <3>1. t = [pc |-> "insert", started |-> clock, at |-> 0, next |-> 0, tries |-> 0,
               doc |-> NoSendDoc, live |-> FALSE, old |-> FALSE]
      BY <2>1 DEF NoTap
    <3> QED
      BY <3>1, TapFields DEF Tap
  <2>3. TapOK(t)
    BY <2>2, TapFields, LadderConstants DEF TapOK, LadderDocOK
  <2> QED
    BY <2>0, <2>1, <2>2, <2>3, TapMoves DEF TapAt
<1>2. CASE ReadSendState(r)
  <2>0. /\ taps[r].pc = "read" /\ UNCHANGED <<clock, sendDoc, code, resets, sent, crossed>>
        /\ sendDoc # NoSendDoc => ~CoolingDown(sendDoc) /\ ~AtCeiling(sendDoc)
        /\ taps' = [taps EXCEPT ![r].pc = "write", ![r].doc = sendDoc, ![r].at = clock]
    BY <1>2 DEF ReadSendState
  <2>1. PICK t : t = [taps[r] EXCEPT !.pc = "write", !.doc = sendDoc, !.at = clock]
    OBVIOUS
  <2>2. sendDoc \in SendDocs \cup {NoSendDoc} /\ LadderDocOK(sendDoc)
    BY DEF LadderInv, LadderTypeOK
  <2>3. /\ t \in Tap /\ t.pc = "write" /\ t.doc = sendDoc /\ t.at = clock
        /\ t.started = taps[r].started
    BY <2>1, <2>2, TapFields DEF Tap
  <2>4. taps' = [taps EXCEPT ![r] = t]
    BY <2>0, <2>1 DEF LadderInv, LadderTypeOK
  <2>5. SlotFree(sendDoc, clock)
    <3>1. SUFFICES ASSUME sendDoc # NoSendDoc
                   PROVE  sendDoc.next <= clock /\ Cardinality(PruneDay(sendDoc.sends, clock)) < Ceiling
      BY DEF SlotFree
    <3>2. sendDoc \in SendDocs
      BY <2>2, <3>1
    <3>3. sendDoc.next \in Nat
      BY <3>2 DEF SendDocs
    <3>4. PruneDay(sendDoc.sends, clock) \subseteq sendDoc.sends
      BY DEF PruneDay
    <3>5. IsFiniteSet(PruneDay(sendDoc.sends, clock))
      BY <2>2, <3>1, <3>4, FS_Subset DEF LadderDocOK
    <3>6. Cardinality(PruneDay(sendDoc.sends, clock)) \in Nat
      BY <3>5, FS_CardinalityType
    <3> QED
      BY <2>0, <3>1, <3>3, <3>6, TapFields, LadderConstants DEF CoolingDown, AtCeiling
  <2>6. TapOK(t)
    <3>1. taps[r].started <= clock /\ clock <= taps[r].started + HandlerTime
      BY <2>0, TapFields DEF TapOK
    <3>2. clock <= clock
      BY TapFields
    <3> QED
      BY <2>2, <2>3, <2>5, <3>1, <3>2 DEF TapOK
  <2>7. t.doc # NoSendDoc /\ ~crossed => \A g \in Taps : ~TapAt(taps[g], "gateway")
    BY <2>0, <2>3, CoolsWhileSending
  <2> QED
    BY <2>0, <2>3, <2>4, <2>6, <2>7, TapMoves DEF TapAt
<1>3. CASE Refuse(r) \/ (LoseSlot(r) /\ taps[r].tries = 2)
  <2>0. /\ taps[r].pc \in {"read", "write"}
        /\ UNCHANGED <<clock, sendDoc, code, resets, sent, crossed>>
        /\ taps' = [taps EXCEPT ![r] = NoTap]
    BY <1>3 DEF Refuse, Answered, LoseSlot
  <2> QED
    BY <2>0, NoTapOK, NoSendDocApart, TapMoves DEF TapAt
<1>4. CASE LoseSlot(r) /\ taps[r].tries # 2
  <2>0. /\ taps[r].pc = "write" /\ UNCHANGED <<clock, sendDoc, code, resets, sent, crossed>>
        /\ taps' = [taps EXCEPT ![r] = [taps[r] EXCEPT !.pc = "read", !.tries = taps[r].tries + 1,
                                                       !.doc = NoSendDoc]]
    BY <1>4 DEF LoseSlot
  <2>1. PICK t : t = [taps[r] EXCEPT !.pc = "read", !.tries = taps[r].tries + 1, !.doc = NoSendDoc]
    OBVIOUS
  <2>2. taps[r].tries \in 0..2
    BY TapFields DEF Tap
  <2>3. taps[r].tries + 1 \in 0..2
    BY <1>4, <2>2
  <2>4. t \in Tap /\ t.pc = "read" /\ t.doc = NoSendDoc /\ t.started = taps[r].started
    BY <2>1, <2>3, TapFields DEF Tap
  <2>5. TapOK(t)
    BY <2>0, <2>4, TapFields DEF TapOK, LadderDocOK
  <2> QED
    BY <2>0, <2>1, <2>4, <2>5, TapMoves DEF TapAt
<1> QED
  BY <1>1, <1>2, <1>3, <1>4

LEMMA ClearLimitsKeeps == LadderInv /\ ClearLimits => LadderInv'
<1> SUFFICES ASSUME LadderInv, ClearLimits
             PROVE  LadderInv'
  OBVIOUS
<1>0. /\ sendDoc' = NoSendDoc /\ sent' = <<>> /\ crossed' = FALSE /\ UNCHANGED <<clock, code>>
      /\ resets < LimitResets /\ resets' = resets + 1
      /\ taps' = [q \in Taps |-> [taps[q] EXCEPT !.old = taps[q].pc # "idle"]]
  BY DEF ClearLimits
<1>1. \A q \in Taps : /\ taps'[q] \in Tap /\ taps'[q].doc = taps[q].doc /\ taps'[q].at = taps[q].at
                      /\ taps'[q].started = taps[q].started /\ taps'[q].pc = taps[q].pc
                      /\ taps'[q].old = (taps[q].pc # "idle")
  <2>1. SUFFICES ASSUME NEW q \in Taps
                 PROVE  /\ taps'[q] \in Tap /\ taps'[q].doc = taps[q].doc /\ taps'[q].at = taps[q].at
                        /\ taps'[q].started = taps[q].started /\ taps'[q].pc = taps[q].pc
                        /\ taps'[q].old = (taps[q].pc # "idle")
    OBVIOUS
  <2>2. PICK b \in BOOLEAN : b = (taps[q].pc # "idle")
    OBVIOUS
  <2>3. taps'[q] = [taps[q] EXCEPT !.old = b]
    BY <1>0, <2>2
  <2> QED
    BY <2>2, <2>3, TapFields DEF Tap
<1>2. \A q \in Taps : TapOK(taps[q])'
  BY <1>0, <1>1 DEF LadderInv, TapOK
<1>3. LadderTypeOK'
  <2>1. taps' \in [Taps -> Tap]
    BY <1>0, <1>1
  <2>2. resets' \in 0..LimitResets
    BY <1>0, LadderConstants DEF LadderInv, LadderTypeOK
  <2>3. sent' \in Seq([at : Nat, next : Nat])
    BY <1>0
  <2> QED
    BY <1>0, <2>1, <2>2, <2>3 DEF LadderInv, LadderTypeOK
<1>4. \A q \in Taps : ~TapAt(taps'[q], "gateway") /\ ~TapAt(taps'[q], "write")
  BY <1>1 DEF TapAt
<1>5. SentUpTo(sendDoc)'
  BY <1>0 DEF SentUpTo
<1>6. SentApart' /\ SentFew'
  BY <1>0 DEF SentApart, SentFew
<1>7. OneSlot'
  <2>1. \A q \in Taps : HoldsSlot(taps[q])' /\ MayReserve(taps[q])'
    BY <1>4 DEF HoldsSlot, MayReserve
  <2>2. \A g \in Taps : TapAt(taps'[g], "gateway") => SentUpTo(taps[g].doc)'
    BY <1>4
  <2> QED
    BY <1>4, <1>5, <2>1, <2>2 DEF OneSlot
<1>8. LadderDocOK(sendDoc)'
  BY <1>0 DEF LadderDocOK
<1> QED
  BY <1>2, <1>3, <1>6, <1>7, <1>8 DEF LadderInv

LEMMA LadderTimeKeeps ==
    LadderInv /\ (LadderTick \/ CodeGone \/ UNCHANGED ladderVars) => LadderInv'
<1> SUFFICES ASSUME LadderInv, LadderTick \/ CodeGone \/ UNCHANGED ladderVars
             PROVE  LadderInv'
  OBVIOUS
<1>0. /\ UNCHANGED <<sendDoc, taps, resets, sent, crossed>>
      /\ \/ UNCHANGED clock
         \/ /\ clock < LadderEnd /\ clock' = clock + 1
            /\ \A r \in Taps : taps[r].pc # "idle" => clock - taps[r].started < HandlerTime
      /\ code' = code \/ code' = NoCode
  BY DEF LadderTick, CodeGone, ladderVars
<1>1. LadderTypeOK'
  <2>1. clock' \in 0..LadderEnd
    BY <1>0, LadderConstants DEF LadderInv, LadderTypeOK
  <2> QED
    BY <1>0, <2>1 DEF LadderInv, LadderTypeOK
<1>2. \A r \in Taps : TapOK(taps[r])'
  <2>1. SUFFICES ASSUME NEW r \in Taps
                 PROVE  TapOK(taps[r])'
    OBVIOUS
  <2>2. taps'[r] = taps[r]
    BY <1>0
  <2>3. taps[r].pc # "idle" => taps[r].started <= clock' /\ clock' <= taps[r].started + HandlerTime
    BY <1>0, TapFields, LadderConstants DEF TapOK
  <2>4. taps[r].pc \in {"write", "gateway"} => taps[r].at <= clock'
    BY <1>0, TapFields DEF TapOK
  <2> QED
    BY <2>2, <2>3, <2>4, TapFields DEF TapOK
<1>3. ASSUME ~crossed'
      PROVE  OneSlot' /\ SentApart' /\ SentFew'
  <2>1. OneSlot /\ SentApart /\ SentFew
    BY <1>0, <1>3 DEF LadderInv
  <2> QED
    BY <1>0, <2>1 DEF OneSlot, SentApart, SentFew, HoldsSlot, MayReserve, SentUpTo
<1>4. LadderDocOK(sendDoc)'
  BY <1>0 DEF LadderInv
<1> QED
  BY <1>1, <1>2, <1>3, <1>4 DEF LadderInv

LEMMA LadderStart == LadderInit => LadderInv
<1> SUFFICES ASSUME LadderInit
             PROVE  LadderInv
  OBVIOUS
<1>1. \A r \in Taps : taps[r] = NoTap
  BY DEF LadderInit
<1>2. LadderTypeOK
  <2>1. taps \in [Taps -> Tap]
    BY NoSendDocApart DEF LadderInit
  <2>2. clock \in 0..LadderEnd /\ resets \in 0..LimitResets
    BY LadderConstants DEF LadderInit
  <2>3. sent \in Seq([at : Nat, next : Nat])
    BY DEF LadderInit
  <2> QED
    BY <2>1, <2>2, <2>3 DEF LadderInit, LadderTypeOK
<1>3. \A r \in Taps : TapOK(taps[r])
  BY <1>1, NoTapOK
<1>4. LadderDocOK(sendDoc) /\ SentUpTo(sendDoc)
  BY DEF LadderInit, LadderDocOK, SentUpTo
<1>5. \A r \in Taps : ~TapAt(taps[r], "gateway") /\ ~TapAt(taps[r], "write")
  BY <1>1, NoSendDocApart DEF TapAt
<1>6. OneSlot
  BY <1>4, <1>5 DEF OneSlot, HoldsSlot, MayReserve
<1>7. SentApart /\ SentFew
  BY DEF LadderInit, SentApart, SentFew
<1> QED
  BY <1>2, <1>3, <1>4, <1>6, <1>7 DEF LadderInv

LEMMA LadderStep == LadderInv /\ [LadderNext]_ladderVars => LadderInv'
<1> SUFFICES ASSUME LadderInv, [LadderNext]_ladderVars
             PROVE  LadderInv'
  OBVIOUS
<1>1. CASE LadderTick \/ CodeGone \/ UNCHANGED ladderVars
  BY <1>1, LadderTimeKeeps
<1>2. CASE ClearLimits
  BY <1>2, ClearLimitsKeeps
<1>3. CASE \E r \in Taps : ReserveFirst(r) \/ Reserve(r)
  BY <1>3, ReservingKeeps
<1>4. CASE \E r \in Taps : AskForCode(r) \/ ReadSendState(r) \/ Refuse(r) \/ LoseSlot(r)
  BY <1>4, WaitingKeeps
<1>5. CASE \E r \in Taps : CodeTaken(r)
  BY <1>5, TakenKeeps
<1>6. CASE \E r \in Taps : SendFailed(r)
  BY <1>6, FailedKeeps
<1> QED
  BY <1>1, <1>2, <1>3, <1>4, <1>5, <1>6 DEF LadderNext

LEMMA LadderMeans == LadderInv => LadderTypeOK /\ LadderKept
<1> SUFFICES ASSUME LadderInv
             PROVE  LadderTypeOK /\ LadderKept
  OBVIOUS
<1>1. LadderTypeOK
  BY DEF LadderInv
<1>2. OneReservation
  BY DEF LadderInv, OneSlot, OneReservation, TapAt
<1>3. SpacedSends
  <2>1. SUFFICES ASSUME ~crossed, NEW i \in 1..(Len(sent) - 1)
                 PROVE  sent[i + 1].at >= sent[i].next
    BY DEF SpacedSends
  <2>2. Len(sent) \in Nat
    BY <1>1 DEF LadderTypeOK
  <2>3. i \in 1..Len(sent) /\ i + 1 \in 1..Len(sent) /\ i < i + 1
    BY <2>2
  <2>4. i \in DOMAIN sent /\ i + 1 \in DOMAIN sent /\ sent[i].next \in Nat /\ sent[i + 1].at \in Nat
    BY <1>1, <2>3, SentTyped
  <2> QED
    BY <2>1, <2>3, <2>4 DEF LadderInv, SentApart
<1>4. DailyCeiling
  BY DEF LadderInv, SentFew, DailyCeiling
<1> QED
  BY <1>1, <1>2, <1>3, <1>4 DEF LadderKept

(* Whatever the interleaving of taps, failures and resets (`reserve_send`,    *)
(* `rollback_send`, `clear_otp_limit_state`), for any ladder of waits longer  *)
(* than a request, any ceiling and any number of taps: one reservation wins,  *)
(* the wait of the rung lies between two codes, and a day has its ceiling.    *)
THEOREM LadderHolds == LadderSpec => [](LadderTypeOK /\ LadderKept)
<1>1. LadderInit => LadderInv
  BY LadderStart
<1>2. LadderInv /\ [LadderNext]_ladderVars => LadderInv'
  BY LadderStep
<1>3. LadderInv => LadderTypeOK /\ LadderKept
  BY LadderMeans
<1> QED
  BY <1>1, <1>2, <1>3, PTL DEF LadderSpec

-----------------------------------------------------------------------------
(* The backups (TenantBackup). *)

Busy(u) == u.pc \notin {"idle", "over"}

HasRead(u) == u.pc \in {"upload", "manifest", "record"}

\* An object the run `u` has uploaded.
IsUpload(o, u) == o.kind = u.kind /\ o.ts = u.ts /\ o.data = u.data

\* A routine run is the newest, reads behind the watermark, and passes over nothing.
Routine(u) ==
    /\ u.mark = noted.mark
    /\ \A o \in bucket : o.kind # "safety" => o.ts < u.ts \/ (u.pc \in {"manifest", "record"} /\ IsUpload(o, u))
    /\ u.pc = "record" => \E o \in bucket : IsUpload(o, u) /\ o.manifest
    /\ HasRead(u) =>
           /\ promised \subseteq u.seen
           /\ \A b \in cast \ u.seen : b >= u.mark - Lateness /\ \A m \in u.seen : b >= m - Lateness
           /\ u.kind = "full" => u.data.ballots = u.seen
           /\ u.kind = "incr" => /\ u.data.ballots = {b \in u.seen : b >= u.mark - Overlap}
                                 /\ u.data.ballots # {}

RunKept(r, u) ==
    /\ Busy(u) => (u.kind = "safety" <=> r \in Wipers) /\ u.ts \in 1..Backups
    /\ u.pc = "events" => u.data.named \subseteq cast
    /\ u.pc \in {"full", "events"} => u.data.ballots = {}
    /\ u.pc = "full" => u.data.named = {} /\ u.kind # "incr"
    /\ u.pc = "events" /\ u.kind = "incr" => u.data.named = {}
    /\ HasRead(u) => u.seen \subseteq cast /\ u.data.named \subseteq u.data.ballots
    /\ r \in Schedulers /\ Busy(u) => Routine(u)

BackupInv ==
    /\ BackupTypeOK
    /\ cast \subseteq 1..backupClock /\ noted.mark <= backupClock /\ promised \subseteq cast
    /\ \A o \in bucket : o.data.named \subseteq o.data.ballots /\ o.ts \in 1..Backups
    /\ \A r \in Schedulers \cup Wipers : RunKept(r, runs[r])
    /\ RecordedMeansRestorable /\ WatermarkBehindUploads

-----------------------------------------------------------------------------
OneScheduler == \A s, t \in Schedulers : s = t

LEMMA BackupConstants ==
    /\ BackupSeconds \in Nat /\ Lateness \in Nat /\ Overlap \in Nat /\ Backups \in Nat
    /\ Faults \in Nat /\ Refreshes \in Nat /\ Lateness <= Overlap /\ BackupSeconds >= 1
    /\ \A r \in Schedulers : r \notin Wipers
BY BackupAssumption

LEMMA BackupFields ==
    ASSUME BackupInv
    PROVE  /\ backupClock \in Nat /\ noted.mark \in Nat /\ cast \subseteq Nat
           /\ \A o \in bucket : o \in Backup /\ o.ts \in Nat /\ o.data \in Contents
                                /\ o.data.ballots \subseteq Nat
           /\ \A r \in Schedulers \cup Wipers :
                  /\ runs[r] \in Run /\ runs[r].ts \in Nat /\ runs[r].mark \in Nat
                  /\ runs[r].data \in Contents /\ runs[r].seen \subseteq Nat
<1>1. cast \subseteq Nat /\ backupClock \in Nat /\ noted.mark \in Nat
  BY BackupConstants DEF BackupInv, BackupTypeOK, Ballots
<1>2. ASSUME NEW o \in bucket
      PROVE  o \in Backup /\ o.ts \in Nat /\ o.data \in Contents /\ o.data.ballots \subseteq Nat
  <2>1. o \in Backup
    BY DEF BackupInv, BackupTypeOK
  <2>2. o.ts \in Nat /\ o.data \in Contents
    BY <2>1 DEF Backup
  <2>3. o.data.ballots \subseteq Ballots
    BY <2>2 DEF Contents
  <2> QED
    BY <2>1, <2>2, <2>3, BackupConstants DEF Ballots
<1>3. ASSUME NEW r \in Schedulers \cup Wipers
      PROVE  /\ runs[r] \in Run /\ runs[r].ts \in Nat /\ runs[r].mark \in Nat
             /\ runs[r].data \in Contents /\ runs[r].seen \subseteq Nat
  <2>1. runs[r] \in Run
    BY DEF BackupInv, BackupTypeOK
  <2>2. runs[r].ts \in Nat /\ runs[r].mark \in {0} \cup Ballots /\ runs[r].data \in Contents
        /\ runs[r].seen \subseteq Ballots
    BY <2>1 DEF Run
  <2> QED
    BY <2>1, <2>2, BackupConstants DEF Ballots
<1> QED
  BY <1>1, <1>2, <1>3

LEMMA NewestIsMax ==
    ASSUME NEW K \in Nat, NEW S \in SUBSET (0..K)
    PROVE  Newest(S) \in 0..K /\ (Newest(S) \in S \/ Newest(S) = 0) /\ \A y \in S : y <= Newest(S)
<1>1. S \cup {0} \in SUBSET (0..K) /\ S \cup {0} # {}
  OBVIOUS
<1>2. Max(S \cup {0}) \in S \cup {0} /\ \A y \in S \cup {0} : y <= Max(S \cup {0})
  BY <1>1, MaxOfBounded
<1> QED
  BY <1>1, <1>2 DEF Newest

\* What the restore of `base` gives.
LEMMA RestoredBallots ==
    ASSUME NEW base \in bucket, base.data \in Contents, NEW b
    PROVE  b \in Restored(base).ballots <=>
             \E o \in bucket : /\ o.manifest /\ b \in o.data.ballots
                               /\ (o = base \/ (base.kind = "full" /\ o.kind = "incr" /\ o.ts >= base.ts))
<1> DEFINE S == UNION {o.data.ballots : o \in Steps(base) \cap Whole}
<1>2. Restored(base) = [base.data EXCEPT !.ballots = S]
  BY DEF Restored
<1> HIDE DEF S
<1>3. Restored(base).ballots = S
  BY <1>2 DEF Contents
<1>4. b \in S <=> \E o \in Steps(base) \cap Whole : b \in o.data.ballots
  BY DEF S
<1>5. \A o : o \in Steps(base) \cap Whole <=>
                 /\ o \in bucket /\ o.manifest
                 /\ (o = base \/ (base.kind = "full" /\ o.kind = "incr" /\ o.ts >= base.ts))
  BY DEF Steps, Whole
<1> QED
  BY <1>3, <1>4, <1>5

LEMMA RestoredBallotsNext ==
    ASSUME NEW base \in bucket', base.data \in Contents, NEW b
    PROVE  b \in Restored(base)'.ballots <=>
             \E o \in bucket' : /\ o.manifest /\ b \in o.data.ballots
                                /\ (o = base \/ (base.kind = "full" /\ o.kind = "incr" /\ o.ts >= base.ts))
<1> DEFINE S == UNION {o.data.ballots : o \in Steps(base)' \cap Whole'}
<1>2. Restored(base)' = [base.data EXCEPT !.ballots = S]
  BY DEF Restored
<1> HIDE DEF S
<1>3. Restored(base)'.ballots = S
  BY <1>2 DEF Contents
<1>4. b \in S <=> \E o \in Steps(base)' \cap Whole' : b \in o.data.ballots
  BY DEF S
<1>5. \A o : o \in Steps(base)' \cap Whole' <=>
                 /\ o \in bucket' /\ o.manifest
                 /\ (o = base \/ (base.kind = "full" /\ o.kind = "incr" /\ o.ts >= base.ts))
  BY DEF Steps, Whole
<1> QED
  BY <1>3, <1>4, <1>5

LEMMA NoRunKept ==
    ASSUME NEW r
    PROVE  RunKept(r, NoRun) /\ NoRun \in Run /\ Ended(r) \in Run /\ RunKept(r, Ended(r))
<1>1. Nothing \in Contents /\ Nothing.named = {} /\ Nothing.ballots = {}
  BY DEF Nothing, Contents
<1>2. NoRun \in Run /\ NoRun.pc = "idle"
  BY <1>1 DEF NoRun, Run
<1>3. Ended(r) = NoRun \/ Ended(r) = [NoRun EXCEPT !.pc = "over"]
  BY DEF Ended
<1>4. Ended(r) \in Run /\ Ended(r).pc \in {"idle", "over"}
  BY <1>2, <1>3 DEF Run
<1>5. \A u : u.pc \in {"idle", "over"} => RunKept(r, u)
  BY DEF RunKept, Busy, HasRead
<1> QED
  BY <1>2, <1>4, <1>5

\* A run goes on; nothing it left behind changes.
LEMMA RunMoves ==
    ASSUME BackupInv, NEW r \in Schedulers \cup Wipers, NEW u \in Run, RunKept(r, u),
           runs' = [runs EXCEPT ![r] = u],
           UNCHANGED <<backupClock, cast, noted, bucket, promised>>,
           faults' \in 0..Faults, refreshes' \in 0..Refreshes
    PROVE  BackupInv'
<1>1. runs' \in [Schedulers \cup Wipers -> Run] /\ runs'[r] = u
      /\ \A q \in (Schedulers \cup Wipers) \ {r} : runs'[q] = runs[q]
  BY DEF BackupInv, BackupTypeOK
<1>2. BackupTypeOK'
  BY <1>1 DEF BackupInv, BackupTypeOK
<1>3. \A q \in Schedulers \cup Wipers : RunKept(q, runs'[q])
  BY <1>1 DEF BackupInv
<1>4. \A q \in Schedulers \cup Wipers : RunKept(q, runs[q])'
  BY <1>3 DEF RunKept, Routine, IsUpload, HasRead, Busy
<1>5. RecordedMeansRestorable' /\ WatermarkBehindUploads'
  BY DEF BackupInv, RecordedMeansRestorable, WatermarkBehindUploads, NewestFull, Fulls, Whole,
         Restored, Steps
<1> QED
  BY <1>2, <1>4, <1>5 DEF BackupInv

LEMMA BackupTickKeeps == BackupInv /\ Tick => BackupInv'
<1> SUFFICES ASSUME BackupInv, Tick
             PROVE  BackupInv'
  OBVIOUS
<1>0. /\ backupClock' = backupClock + 1 /\ backupClock < BackupSeconds
      /\ UNCHANGED <<cast, noted, bucket, runs, promised, faults, refreshes>>
  BY DEF Tick
<1>1. backupClock' \in 1..BackupSeconds /\ cast \subseteq 1..backupClock' /\ noted.mark <= backupClock'
  BY <1>0, BackupFields, BackupConstants DEF BackupInv, BackupTypeOK
<1>2. BackupTypeOK'
  BY <1>0, <1>1 DEF BackupInv, BackupTypeOK
<1>3. \A q \in Schedulers \cup Wipers : RunKept(q, runs[q])'
  BY <1>0 DEF BackupInv, RunKept, Routine, IsUpload, HasRead, Busy
<1>4. RecordedMeansRestorable' /\ WatermarkBehindUploads'
  BY <1>0 DEF BackupInv, RecordedMeansRestorable, WatermarkBehindUploads, NewestFull, Fulls, Whole,
         Restored, Steps
<1> QED
  BY <1>0, <1>1, <1>2, <1>3, <1>4 DEF BackupInv

\* A ballot comes late by at most the overlap.
LEMMA CastBallotKeeps ==
    ASSUME BackupInv, NEW c \in Ballots, CastBallot(c)
    PROVE  BackupInv'
<1>0. /\ c \in (backupClock - Lateness)..backupClock /\ cast' = cast \cup {c}
      /\ UNCHANGED <<backupClock, noted, bucket, runs, promised, faults, refreshes>>
  BY DEF CastBallot
<1>1. c \in Nat /\ c >= 1 /\ c >= backupClock - Lateness /\ c <= backupClock
  BY <1>0, BackupFields, BackupConstants DEF Ballots
<1>2. BackupTypeOK'
  BY <1>0 DEF BackupInv, BackupTypeOK
<1>3. cast' \subseteq 1..backupClock
  BY <1>0, <1>1, BackupFields DEF BackupInv
<1>4. ASSUME NEW q \in Schedulers \cup Wipers
      PROVE  RunKept(q, runs[q])'
  <2>0. runs'[q] = runs[q]
    BY <1>0
  <2>1. RunKept(q, runs[q])
    BY DEF BackupInv
  <2>2. ASSUME q \in Schedulers, Busy(runs[q])
        PROVE  Routine(runs[q])'
    <3>1. Routine(runs[q])
      BY <2>1, <2>2 DEF RunKept
    <3>2. ASSUME HasRead(runs[q]), NEW b \in cast' \ runs[q].seen
          PROVE  b >= runs[q].mark - Lateness /\ \A m \in runs[q].seen : b >= m - Lateness
      <4>1. CASE b \in cast
        BY <3>1, <3>2, <4>1 DEF Routine
      <4>2. CASE b = c
        <5>1. runs[q].mark = noted.mark /\ runs[q].seen \subseteq cast
          BY <2>1, <3>1, <3>2 DEF Routine, RunKept
        <5>2. \A m \in runs[q].seen : m \in Nat /\ m <= backupClock
          BY <5>1, BackupFields DEF BackupInv
        <5>3. noted.mark <= backupClock
          BY DEF BackupInv
        <5> QED
          BY <1>1, <4>2, <5>1, <5>2, <5>3, BackupFields, BackupConstants
      <4> QED
        BY <1>0, <3>2, <4>1, <4>2
    <3> QED
      BY <1>0, <2>0, <3>1, <3>2 DEF Routine, HasRead, IsUpload
  <2> QED
    BY <1>0, <2>0, <2>1, <2>2 DEF RunKept, Busy, HasRead
<1>5. RecordedMeansRestorable'
  BY <1>0 DEF BackupInv, RecordedMeansRestorable, NewestFull, Fulls, Whole, Restored, Steps
<1>6. WatermarkBehindUploads'
  <2>1. c >= noted.mark - Overlap
    BY <1>1, BackupFields, BackupConstants DEF BackupInv
  <2>2. ~(c < noted.mark - Overlap)
    BY <1>1, <2>1, BackupFields, BackupConstants
  <2>3. WatermarkBehindUploads
    BY DEF BackupInv
  <2> QED
    BY <1>0, <2>2, <2>3 DEF WatermarkBehindUploads, NewestFull, Fulls, Whole, Restored, Steps
<1>7. promised' \subseteq cast'
  BY <1>0 DEF BackupInv
<1> QED
  BY <1>0, <1>2, <1>3, <1>4, <1>5, <1>6, <1>7 DEF BackupInv

LEMMA FaultsTyped == BackupInv => faults \in 0..Faults /\ refreshes \in 0..Refreshes
BY DEF BackupInv, BackupTypeOK

LEMMA BeginKeeps ==
    ASSUME BackupInv, NEW r \in Schedulers \cup Wipers, NEW kind,
           (r \in Schedulers /\ kind \in {"full", "incr"}) \/ (r \in Wipers /\ kind = "safety"),
           Begin(r, kind)
    PROVE  BackupInv'
<1> DEFINE stamps == {o.ts : o \in bucket}
<1>1. stamps \in SUBSET (0..Backups)
  BY BackupConstants DEF BackupInv
<1>2. PICK n \in 0..Backups : n = Newest(stamps) /\ \A y \in stamps : y <= n
  BY <1>1, NewestIsMax, BackupConstants
<1>3. n < Backups
  BY <1>2 DEF Begin
<1>4. PICK k : k = (IF kind = "incr" /\ ~noted.based THEN "full" ELSE kind)
  OBVIOUS
<1>5. PICK p : p = (IF kind = "incr" /\ noted.based THEN "events" ELSE "full")
  OBVIOUS
<1>6. PICK a \in BOOLEAN : a = (kind # "safety" /\ noted.based)
  BY DEF BackupInv, BackupTypeOK
<1>7. PICK w : w = (IF kind = "safety" THEN 0 ELSE noted.mark)
  OBVIOUS
<1>8. /\ k \in {"full", "incr", "safety"} /\ p \in {"full", "events"} /\ w \in {0} \cup Ballots
      /\ (k = "safety" <=> r \in Wipers) /\ (k = "incr" => p = "events")
      /\ r \in Schedulers => w = noted.mark
  BY <1>4, <1>5, <1>7, BackupConstants DEF BackupInv, BackupTypeOK
<1>9. PICK u : u = [NoRun EXCEPT !.kind = k, !.pc = p, !.ts = 1 + n, !.based = a, !.mark = w]
  OBVIOUS
<1>10. runs' = [runs EXCEPT ![r] = u] /\ UNCHANGED <<backupClock, cast, noted, bucket, promised, faults, refreshes>>
  BY <1>2, <1>4, <1>5, <1>6, <1>7, <1>9 DEF Begin
<1>11. Nothing \in Contents /\ Nothing.named = {} /\ Nothing.ballots = {}
  BY DEF Nothing, Contents
<1>12. /\ u \in Run /\ u.pc = p /\ u.kind = k /\ u.ts = 1 + n /\ u.mark = w
       /\ u.data = Nothing /\ u.seen = {}
  <2>1. NoRun \in Run /\ NoRun.data = Nothing /\ NoRun.seen = {}
    BY NoRunKept DEF NoRun
  <2>2. 1 + n \in Nat
    BY <1>2
  <2> QED
    BY <1>6, <1>8, <1>9, <2>1, <2>2 DEF Run
<1>13. \A o \in bucket : o.ts < u.ts
  <2>1. \A o \in bucket : o.ts <= n /\ o.ts \in Nat
    BY <1>2, BackupFields
  <2> QED
    BY <1>2, <1>12, <2>1
<1>14. u.ts \in 1..Backups
  BY <1>2, <1>3, <1>12, BackupConstants
<1>15. ASSUME r \in Schedulers
       PROVE  Routine(u)
  BY <1>8, <1>12, <1>13, <1>15 DEF Routine, HasRead
<1>16. RunKept(r, u)
  BY <1>8, <1>11, <1>12, <1>14, <1>15 DEF RunKept, HasRead
<1> QED
  BY <1>10, <1>12, <1>16, FaultsTyped, RunMoves

LEMMA ExportFullKeeps ==
    ASSUME BackupInv, NEW r \in Schedulers \cup Wipers, ExportFull(r)
    PROVE  BackupInv'
<1>0. /\ runs[r].pc = "full"
      /\ runs' = [runs EXCEPT ![r].pc = "events", ![r].data["named"] = cast]
      /\ UNCHANGED <<backupClock, cast, noted, bucket, promised, faults, refreshes>>
  BY DEF ExportFull, FirstPart
<1>1. PICK d : d = [runs[r].data EXCEPT !["named"] = cast]
  OBVIOUS
<1>2. runs[r].data \in Contents /\ cast \subseteq Ballots /\ runs[r].data.ballots = {} /\ runs[r] \in Run
  BY <1>0, BackupFields DEF BackupInv, BackupTypeOK, RunKept
<1>3. d \in Contents /\ d.named = cast /\ d.ballots = {}
  BY <1>1, <1>2 DEF Contents
<1>4. PICK u : u = [runs[r] EXCEPT !.pc = "events", !.data = d]
  OBVIOUS
<1>5. /\ u \in Run /\ u.pc = "events" /\ u.data = d /\ u.kind = runs[r].kind /\ u.ts = runs[r].ts
      /\ u.mark = runs[r].mark
  BY <1>2, <1>3, <1>4 DEF Run
<1>6. runs' = [runs EXCEPT ![r] = u]
  BY <1>0, <1>1, <1>4 DEF BackupInv, BackupTypeOK
<1>7. RunKept(r, runs[r]) /\ Busy(runs[r]) /\ ~HasRead(u)
  BY <1>0, <1>5 DEF BackupInv, Busy, HasRead
<1>8. r \in Schedulers => Routine(u)
  BY <1>0, <1>5, <1>7 DEF RunKept, Routine
<1>9. RunKept(r, u)
  BY <1>0, <1>3, <1>5, <1>7, <1>8 DEF RunKept
<1> QED
  BY <1>0, <1>5, <1>6, <1>9, FaultsTyped, RunMoves

\* The append-only collections are read.
LEMMA ExportEventsKeeps ==
    ASSUME BackupInv, NEW r \in Schedulers \cup Wipers, ExportEvents(r)
    PROVE  BackupInv'
<1>0. runs[r].pc = "events" /\ UNCHANGED <<backupClock, cast, noted, bucket, promised, faults>>
  BY DEF ExportEvents
<1>1. RunKept(r, runs[r]) /\ Busy(runs[r]) /\ runs[r] \in Run /\ runs[r].data \in Contents
  BY <1>0, BackupFields DEF BackupInv, Busy
<1>2. refreshes' \in 0..Refreshes
  BY BackupConstants DEF ExportEvents, BackupInv, BackupTypeOK
<1>3. CASE runs' = [runs EXCEPT ![r] = NoRun]
  BY <1>0, <1>2, <1>3, NoRunKept, FaultsTyped, RunMoves
<1>4. CASE runs' # [runs EXCEPT ![r] = NoRun]
  <2>1. PICK d : d = IF runs[r].kind = "incr" THEN [runs[r].data EXCEPT !.ballots = Since(r)] ELSE Completed(r)
    OBVIOUS
  <2>2. runs' = [runs EXCEPT ![r].pc = "upload", ![r].seen = cast, ![r].data = d]
    <3>1. CASE runs[r].kind = "incr"
      <4>1. runs' = [runs EXCEPT ![r].pc = "upload", ![r].seen = cast, ![r].data.ballots = Since(r)]
        BY <1>4, <3>1 DEF ExportEvents
      <4> QED
        BY <2>1, <3>1, <4>1 DEF BackupInv, BackupTypeOK
    <3>2. CASE runs[r].kind # "incr"
      BY <1>4, <2>1, <3>2 DEF ExportEvents
    <3> QED
      BY <3>1, <3>2
  <2>3. runs[r].kind = "incr" => AnyNew(r)
    BY <1>4 DEF ExportEvents
  <2>4. cast \subseteq Ballots /\ cast \subseteq Nat
    BY BackupFields DEF BackupInv, BackupTypeOK
  <2>5. Since(r) \subseteq cast
    BY DEF Since
  <2>6. /\ d \in Contents /\ d.named = runs[r].data.named
        /\ runs[r].kind = "incr" => d.ballots = Since(r)
        /\ runs[r].kind # "incr" => d.ballots = cast
    <3>1. CASE runs[r].kind = "incr"
      BY <1>1, <2>1, <2>4, <2>5, <3>1 DEF Contents
    <3>2. CASE runs[r].kind # "incr"
      <4>1. d = [p \in {"named", "ballots"} |-> IF p = "named" THEN runs[r].data[p] ELSE cast]
        BY <2>1, <3>2 DEF Completed, FirstPart
      <4>2. d = [named |-> runs[r].data.named, ballots |-> cast]
        BY <1>1, <4>1 DEF Contents
      <4>3. runs[r].data.named \subseteq Ballots
        BY <1>1 DEF Contents
      <4> QED
        BY <2>4, <3>2, <4>2, <4>3 DEF Contents
    <3> QED
      BY <3>1, <3>2
  <2> HIDE DEF Since
  <2>7. PICK u : u = [runs[r] EXCEPT !.pc = "upload", !.seen = cast, !.data = d]
    OBVIOUS
  <2>8. /\ u \in Run /\ u.pc = "upload" /\ u.data = d /\ u.seen = cast /\ u.kind = runs[r].kind
        /\ u.ts = runs[r].ts /\ u.mark = runs[r].mark
    BY <1>1, <2>4, <2>6, <2>7 DEF Run
  <2>9. runs' = [runs EXCEPT ![r] = u]
    BY <2>2, <2>7 DEF BackupInv, BackupTypeOK
  <2>10. d.named \subseteq d.ballots
    BY <1>0, <1>1, <2>6 DEF RunKept
  <2>11. ASSUME r \in Schedulers
         PROVE  Routine(u)
    <3>1. Routine(runs[r])
      BY <1>1, <2>11 DEF RunKept
    <3>2. promised \subseteq u.seen /\ \A b \in cast \ u.seen : FALSE
      BY <2>8 DEF BackupInv
    <3>3. u.kind = "full" => u.data.ballots = u.seen
      BY <2>6, <2>8
    <3>4. u.kind = "incr" => u.data.ballots = {b \in u.seen : b >= u.mark - Overlap} /\ u.data.ballots # {}
      <4>1. SUFFICES ASSUME u.kind = "incr"
                     PROVE  u.data.ballots = {b \in u.seen : b >= u.mark - Overlap} /\ u.data.ballots # {}
        OBVIOUS
      <4>2. u.data.ballots = {b \in cast : b >= runs[r].mark - Overlap}
        BY <2>6, <2>8, <4>1 DEF Since
      <4>3. PICK b \in cast : b > runs[r].mark
        BY <2>3, <2>8, <4>1 DEF AnyNew
      <4>4. b >= runs[r].mark - Overlap
        BY <2>4, <4>3, BackupFields, BackupConstants
      <4> QED
        BY <2>8, <4>2, <4>4
    <3> QED
      BY <1>0, <2>8, <3>1, <3>2, <3>3, <3>4 DEF Routine
  <2>12. RunKept(r, u)
    <3>1. u.kind = "safety" <=> r \in Wipers
      BY <1>1, <2>8 DEF RunKept
    <3>2. u.ts \in 1..Backups
      BY <1>1, <2>8 DEF RunKept
    <3> QED
      BY <2>8, <2>10, <2>11, <3>1, <3>2 DEF RunKept
  <2> QED
    BY <1>0, <1>2, <2>8, <2>9, <2>12, FaultsTyped, RunMoves
<1> QED
  BY <1>3, <1>4

LEMMA FailKeeps ==
    ASSUME BackupInv, NEW r \in Schedulers \cup Wipers, Fail(r)
    PROVE  BackupInv'
<1>1. /\ faults' \in 0..Faults /\ runs' = [runs EXCEPT ![r] = Ended(r)]
      /\ UNCHANGED <<backupClock, cast, noted, bucket, promised, refreshes>>
  BY BackupConstants DEF Fail, BackupInv, BackupTypeOK
<1> QED
  BY <1>1, NoRunKept, FaultsTyped, RunMoves

\* An object of the run `r` comes into the bucket, in the place of what it had uploaded before.
LEMMA UploadKeeps ==
    ASSUME BackupInv, OneScheduler, NEW r \in Schedulers \cup Wipers, NEW u \in Run, NEW o \in Backup,
           HasRead(runs[r]), HasRead(u), IsUpload(o, u),
           u.kind = runs[r].kind, u.ts = runs[r].ts, u.mark = runs[r].mark, u.data = runs[r].data,
           u.seen = runs[r].seen,
           u.pc \in {"manifest", "record"}, u.pc = "record" => o.manifest,
           NEW gone, \A g \in gone : ~g.manifest /\ IsUpload(g, u),
           bucket' = (bucket \ gone) \cup {o},
           runs' = [runs EXCEPT ![r] = u],
           UNCHANGED <<backupClock, cast, noted, promised, faults, refreshes>>
    PROVE  BackupInv'
<1>1. runs' \in [Schedulers \cup Wipers -> Run] /\ runs'[r] = u
      /\ \A q \in (Schedulers \cup Wipers) \ {r} : runs'[q] = runs[q]
  BY DEF BackupInv, BackupTypeOK
<1>2. RunKept(r, runs[r]) /\ Busy(runs[r])
  BY DEF BackupInv, Busy, HasRead
<1>3. BackupTypeOK'
  BY <1>1 DEF BackupInv, BackupTypeOK
<1>4. /\ o.data.named \subseteq o.data.ballots /\ o.ts \in 1..Backups /\ o.ts \in Nat
      /\ o.data \in Contents /\ o.data.ballots \subseteq Nat
      /\ (o.kind = "safety" <=> r \in Wipers)
  <2>1. o.ts \in Nat /\ o.data \in Contents
    BY DEF Backup
  <2>2. o.data.ballots \subseteq Nat
    BY <2>1, BackupConstants DEF Contents, Ballots
  <2>3. o.kind = runs[r].kind /\ o.ts = runs[r].ts /\ o.data = runs[r].data
    BY DEF IsUpload
  <2> QED
    BY <1>2, <2>1, <2>2, <2>3 DEF RunKept
<1>5. r \in Schedulers => Routine(runs[r])
  BY <1>2 DEF RunKept
<1>6. \A p \in bucket' : p.data.named \subseteq p.data.ballots /\ p.ts \in 1..Backups
  BY <1>4 DEF BackupInv
<1>7. ASSUME NEW q \in Schedulers \cup Wipers
      PROVE  RunKept(q, runs[q])'
  <2>1. CASE q = r
    <3>1. ASSUME r \in Schedulers
          PROVE  Routine(u)'
      <4>1. \A p \in bucket' : p.kind # "safety" => p.ts < u.ts \/ IsUpload(p, u)
        BY <1>5, <3>1 DEF Routine, IsUpload
      <4>2. o \in bucket'
        OBVIOUS
      <4> QED
        BY <1>5, <3>1, <4>1, <4>2 DEF Routine, HasRead, IsUpload
    <3> QED
      BY <1>1, <1>2, <2>1, <3>1 DEF RunKept, HasRead, Busy
  <2>2. CASE q # r
    <3>1. runs'[q] = runs[q] /\ RunKept(q, runs[q])
      BY <1>1, <2>2 DEF BackupInv
    <3>2. ASSUME q \in Schedulers, Busy(runs[q])
          PROVE  Routine(runs[q])'
      <4>1. r \in Wipers /\ o.kind = "safety" /\ \A g \in gone : g.kind = "safety"
        BY <1>4, <2>2, <3>2 DEF OneScheduler, IsUpload
      <4>2. Routine(runs[q]) /\ runs[q].kind # "safety"
        BY <3>1, <3>2, BackupConstants DEF RunKept
      <4>3. \A p \in bucket' : p.kind # "safety" => p \in bucket
        BY <4>1
      <4>4. \A p \in bucket : p.kind # "safety" => p \in bucket'
        BY <4>1
      <4>5. runs[q].pc = "record" => \E p \in bucket' : IsUpload(p, runs[q]) /\ p.manifest
        BY <4>2, <4>4 DEF Routine, IsUpload
      <4> QED
        BY <3>1, <4>2, <4>3, <4>5 DEF Routine, HasRead, IsUpload
    <3> QED
      BY <3>1, <3>2 DEF RunKept, HasRead, Busy
  <2> QED
    BY <2>1, <2>2
<1>8. \A p \in bucket : p.manifest => p \in bucket'
  OBVIOUS
<1>9. \A p \in bucket' : p.manifest => p = o \/ p \in bucket
  OBVIOUS
<1>10. \A p \in bucket' : p.ts \in Nat
  BY <1>4, BackupFields
<1>11. ASSUME NEW base \in bucket, base.manifest, NEW b, b \in Restored(base).ballots
       PROVE  b \in Restored(base)'.ballots
  <2>0. base.data \in Contents
    BY BackupFields
  <2>1. PICK p \in bucket : /\ p.manifest /\ b \in p.data.ballots
                            /\ (p = base \/ (base.kind = "full" /\ p.kind = "incr" /\ p.ts >= base.ts))
    BY <1>11, <2>0, RestoredBallots
  <2>2. p \in bucket' /\ base \in bucket'
    BY <1>8, <1>11, <2>1
  <2>3. \E q \in bucket' : /\ q.manifest /\ b \in q.data.ballots
                           /\ (q = base \/ (base.kind = "full" /\ q.kind = "incr" /\ q.ts >= base.ts))
    BY <2>1, <2>2
  <2> QED
    BY <2>0, <2>2, <2>3, RestoredBallotsNext
<1>12. CASE o.kind = "full" /\ o.manifest
  <2>1. r \in Schedulers /\ Routine(runs[r]) /\ o.data.ballots = runs[r].seen /\ o.ts = runs[r].ts
    BY <1>4, <1>5, <1>12, BackupConstants DEF Routine, IsUpload
  <2>2. ASSUME NEW base \in NewestFull'
        PROVE  base = o
    <3>1. base \in bucket' /\ base.kind = "full" /\ base.manifest /\ o.ts <= base.ts
      BY <1>12, <2>2 DEF NewestFull, Fulls, Whole
    <3>2. SUFFICES ASSUME base \in bucket
                   PROVE  base = o
      BY <3>1
    <3>3. base \in Backup /\ base.ts \in Nat
      BY <3>2, BackupFields
    <3>4. IsUpload(base, runs[r])
      BY <1>4, <2>1, <3>1, <3>2, <3>3 DEF Routine
    <3>5. base.kind = o.kind /\ base.ts = o.ts /\ base.data = o.data /\ base.manifest = o.manifest
      BY <1>12, <3>1, <3>3, <3>4 DEF IsUpload, Backup
    <3> QED
      BY <3>3, <3>5 DEF Backup
  <2>3. \A b \in runs[r].seen : b \in Restored(o)'.ballots
    <3>1. o \in bucket'
      OBVIOUS
    <3> QED
      BY <1>4, <1>12, <2>1, <3>1, RestoredBallotsNext
  <2>4. RecordedMeansRestorable'
    BY <2>1, <2>2, <2>3 DEF RecordedMeansRestorable, Routine
  <2>5. WatermarkBehindUploads'
    <3>1. SUFFICES ASSUME NEW b \in cast, b < noted.mark - Overlap
                   PROVE  b \in runs[r].seen
      BY <2>2, <2>3 DEF WatermarkBehindUploads
    <3>2. SUFFICES ASSUME b \notin runs[r].seen
                   PROVE  FALSE
      OBVIOUS
    <3>3. b >= noted.mark - Lateness
      BY <2>1, <3>2 DEF Routine
    <3> QED
      BY <3>1, <3>3, BackupFields, BackupConstants
  <2> QED
    BY <1>3, <1>6, <1>7, <2>4, <2>5 DEF BackupInv
<1>13. CASE ~(o.kind = "full" /\ o.manifest)
  <2>1. ASSUME NEW base \in NewestFull'
        PROVE  base \in NewestFull /\ base \in bucket /\ base.manifest
    <3>1. base \in bucket' /\ base.kind = "full" /\ base.manifest
          /\ \A p \in bucket' : p.kind = "full" /\ p.manifest => p.ts <= base.ts
      BY <2>1 DEF NewestFull, Fulls, Whole
    <3>2. base \in bucket
      BY <1>13, <3>1
    <3> QED
      BY <1>8, <3>1, <3>2 DEF NewestFull, Fulls, Whole
  <2>2. RecordedMeansRestorable'
    BY <1>11, <2>1 DEF BackupInv, RecordedMeansRestorable
  <2>3. WatermarkBehindUploads'
    BY <1>11, <2>1 DEF BackupInv, WatermarkBehindUploads
  <2> QED
    BY <1>3, <1>6, <1>7, <2>2, <2>3 DEF BackupInv
<1> QED
  BY <1>12, <1>13

LEMMA UploadFilesKeeps ==
    ASSUME BackupInv, OneScheduler, NEW r \in Schedulers \cup Wipers, UploadFiles(r)
    PROVE  BackupInv'
<1>0. /\ runs[r].pc = "upload" /\ bucket' = bucket \cup {Uploaded(r)}
      /\ runs' = [runs EXCEPT ![r].pc = "manifest"]
      /\ UNCHANGED <<backupClock, cast, noted, promised, faults, refreshes>>
  BY DEF UploadFiles
<1>1. PICK u : u = [runs[r] EXCEPT !.pc = "manifest"]
  OBVIOUS
<1>2. runs[r] \in Run
  BY BackupFields
<1>3. /\ u \in Run /\ u.pc = "manifest" /\ u.kind = runs[r].kind /\ u.ts = runs[r].ts
      /\ u.mark = runs[r].mark /\ u.data = runs[r].data /\ u.seen = runs[r].seen
  BY <1>1, <1>2 DEF Run
<1>4. runs' = [runs EXCEPT ![r] = u]
  BY <1>0, <1>1 DEF BackupInv, BackupTypeOK
<1>5. PICK o : o = Uploaded(r)
  OBVIOUS
<1>6. o \in Backup /\ IsUpload(o, u)
  BY <1>2, <1>3, <1>5 DEF Uploaded, IsUpload, Backup, Run
<1> PICK gone : gone = {}
  OBVIOUS
<1>7. bucket' = (bucket \ gone) \cup {o}
  BY <1>0, <1>5
<1>8. HasRead(runs[r]) /\ HasRead(u)
  BY <1>0, <1>3 DEF HasRead
<1>9. /\ u.pc \in {"manifest", "record"} /\ (u.pc = "record" => o.manifest)
      /\ \A g \in gone : ~g.manifest /\ IsUpload(g, u)
  BY <1>3
<1>10. UNCHANGED <<backupClock, cast, noted, promised, faults, refreshes>>
  BY <1>0
<1> QED
  BY <1>3, <1>4, <1>6, <1>7, <1>8, <1>9, <1>10, UploadKeeps

LEMMA UploadManifestKeeps ==
    ASSUME BackupInv, OneScheduler, NEW r \in Schedulers \cup Wipers, UploadManifest(r)
    PROVE  BackupInv'
<1>0. /\ runs[r].pc = "manifest"
      /\ bucket' = (bucket \ {Uploaded(r)}) \cup {[Uploaded(r) EXCEPT !.manifest = TRUE]}
      /\ runs' = [runs EXCEPT ![r].pc = "record"]
      /\ UNCHANGED <<backupClock, cast, noted, promised, faults, refreshes>>
  BY DEF UploadManifest
<1>1. PICK u : u = [runs[r] EXCEPT !.pc = "record"]
  OBVIOUS
<1>2. runs[r] \in Run
  BY BackupFields
<1>3. /\ u \in Run /\ u.pc = "record" /\ u.kind = runs[r].kind /\ u.ts = runs[r].ts
      /\ u.mark = runs[r].mark /\ u.data = runs[r].data /\ u.seen = runs[r].seen
  BY <1>1, <1>2 DEF Run
<1>4. runs' = [runs EXCEPT ![r] = u]
  BY <1>0, <1>1 DEF BackupInv, BackupTypeOK
<1>5. PICK g : g = Uploaded(r)
  OBVIOUS
<1>6. g \in Backup /\ ~g.manifest /\ IsUpload(g, u)
  BY <1>2, <1>3, <1>5 DEF Uploaded, IsUpload, Backup, Run
<1>7. PICK o : o = [g EXCEPT !.manifest = TRUE]
  OBVIOUS
<1>8. o \in Backup /\ IsUpload(o, u) /\ o.manifest
  BY <1>6, <1>7 DEF IsUpload, Backup
<1>9. bucket' = (bucket \ {g}) \cup {o}
  BY <1>0, <1>5, <1>7
<1>10. HasRead(runs[r]) /\ HasRead(u)
  BY <1>0, <1>3 DEF HasRead
<1>11. \A h \in {g} : ~h.manifest /\ IsUpload(h, u)
  BY <1>6
<1>12. u.pc \in {"manifest", "record"} /\ (u.pc = "record" => o.manifest)
  BY <1>3, <1>8
<1>13. UNCHANGED <<backupClock, cast, noted, promised, faults, refreshes>>
  BY <1>0
<1> QED
  BY <1>3, <1>4, <1>8, <1>9, <1>10, <1>11, <1>12, <1>13, UploadKeeps

\* The run is noted: the watermark moves to the last ballot it uploaded.
LEMMA RecordRunKeeps ==
    ASSUME BackupInv, OneScheduler, NEW r \in Schedulers \cup Wipers, RecordRun(r)
    PROVE  BackupInv'
<1>0. /\ runs[r].pc = "record" /\ runs' = [runs EXCEPT ![r] = Ended(r)]
      /\ UNCHANGED <<backupClock, cast, bucket, faults, refreshes>>
      /\ promised' = IF runs[r].kind = "safety" THEN promised ELSE runs[r].seen
  BY DEF RecordRun
<1>1. RunKept(r, runs[r]) /\ Busy(runs[r]) /\ HasRead(runs[r]) /\ runs[r] \in Run
  BY <1>0, BackupFields DEF BackupInv, Busy, HasRead
<1>2. CASE runs[r].kind = "safety"
  <2>1. noted' = noted /\ promised' = promised
    BY <1>0, <1>2 DEF RecordRun
  <2> QED
    BY <1>0, <2>1, NoRunKept, FaultsTyped, RunMoves
<1>3. CASE runs[r].kind # "safety"
  <2> DEFINE d == runs[r].data
             w == noted'.mark
  <2>1. r \in Schedulers /\ Routine(runs[r]) /\ runs[r].kind \in {"full", "incr"}
    BY <1>1, <1>3 DEF RunKept, Run
  <2>2. /\ d \in Contents /\ d.ballots \subseteq runs[r].seen /\ runs[r].seen \subseteq cast
        /\ runs[r].seen \subseteq Nat /\ promised \subseteq runs[r].seen
    BY <1>1, <2>1, BackupFields DEF RunKept, Routine
  <2>3. Marked(r) = noted.mark \/ (Marked(r) \in d.ballots /\ \A b \in d.ballots : b <= Marked(r))
    <3>1. CASE d.ballots = {}
      BY <2>1, <3>1 DEF Marked, Routine
    <3>2. CASE d.ballots # {}
      <4>1. d.ballots \in SUBSET (0..BackupSeconds)
        BY <2>2, BackupConstants DEF Contents, Ballots
      <4> QED
        BY <3>2, <4>1, MaxOfBounded, BackupConstants DEF Marked
    <3> QED
      BY <3>1, <3>2
  <2>4. noted' \in [based : BOOLEAN, mark : {0} \cup Ballots, last : Contents] /\ w = Marked(r)
    <3>1. Marked(r) \in {0} \cup Ballots
      BY <2>2, <2>3 DEF BackupInv, BackupTypeOK
    <3>2. noted \in [based : BOOLEAN, mark : {0} \cup Ballots, last : Contents]
      BY DEF BackupInv, BackupTypeOK
    <3>3. CASE runs[r].kind = "incr"
      <4>1. noted' = [noted EXCEPT !.mark = Marked(r)]
        BY <3>3 DEF RecordRun
      <4> QED
        BY <3>1, <3>2, <4>1
    <3>4. CASE runs[r].kind = "full"
      <4>1. noted' = [based |-> TRUE, mark |-> Marked(r), last |-> d]
        BY <3>4 DEF RecordRun
      <4> QED
        BY <2>2, <3>1, <4>1
    <3> QED
      BY <2>1, <3>3, <3>4
  <2> HIDE DEF d, w
  <2>5. promised' = runs[r].seen
    BY <1>0, <1>3
  <2>6. w \in Nat /\ w <= backupClock /\ (w = noted.mark \/ w \in runs[r].seen)
    BY <2>2, <2>3, <2>4, BackupFields DEF BackupInv
  <2>7. runs' \in [Schedulers \cup Wipers -> Run] /\ runs'[r] = Ended(r)
        /\ \A q \in (Schedulers \cup Wipers) \ {r} : runs'[q] = runs[q]
    BY <1>0, NoRunKept DEF BackupInv, BackupTypeOK
  <2>8. BackupTypeOK'
    BY <1>0, <2>2, <2>4, <2>5, <2>7 DEF BackupInv, BackupTypeOK
  <2>9. ASSUME NEW q \in Schedulers \cup Wipers
        PROVE  RunKept(q, runs[q])'
    <3>1. CASE q = r
      <4>1. runs'[q].pc \in {"idle", "over"}
        <5>1. Ended(r) = NoRun \/ Ended(r) = [NoRun EXCEPT !.pc = "over"]
          BY DEF Ended
        <5>2. Ended(r).pc \in {"idle", "over"}
          BY <5>1 DEF NoRun
        <5> QED
          BY <2>7, <3>1, <5>2
      <4> QED
        BY <4>1 DEF RunKept, Busy, HasRead
    <3>2. CASE q # r
      <4>1. runs'[q] = runs[q] /\ RunKept(q, runs[q]) /\ q \notin Schedulers
        BY <2>1, <2>7, <3>2 DEF BackupInv, OneScheduler
      <4> QED
        BY <1>0, <4>1 DEF RunKept, Busy, HasRead
    <3> QED
      BY <3>1, <3>2
\* What the run saw is restored from the newest full backup ...
  <2>10. ASSUME NEW base \in NewestFull, NEW b \in runs[r].seen
         PROVE  b \in Restored(base).ballots
    <3>0. base \in bucket /\ base.kind = "full" /\ base.manifest /\ base.data \in Contents
          /\ base.ts \in Nat /\ \A p \in bucket : p.kind = "full" /\ p.manifest => p.ts <= base.ts
      BY BackupFields DEF NewestFull, Fulls, Whole
    <3>1. PICK o \in bucket : IsUpload(o, runs[r]) /\ o.manifest
      BY <1>0, <2>1 DEF Routine
    <3>2. o.kind = runs[r].kind /\ o.ts = runs[r].ts /\ o.data = d /\ o.ts \in Nat
      BY <3>1, BackupFields DEF IsUpload, d
    <3>3. base.ts < runs[r].ts \/ IsUpload(base, runs[r])
      BY <1>0, <2>1, <3>0 DEF Routine
    <3>4. CASE runs[r].kind = "full"
      <4>1. base.data = d
        BY <3>0, <3>1, <3>2, <3>3, <3>4 DEF IsUpload, d
      <4>2. b \in d.ballots
        BY <1>1, <2>1, <3>4 DEF Routine, d
      <4> QED
        BY <3>0, <4>1, <4>2, RestoredBallots
    <3>5. CASE runs[r].kind = "incr"
      <4>1. o.kind = "incr" /\ o.ts >= base.ts
        BY <3>0, <3>2, <3>3, <3>5 DEF IsUpload
      <4>2. CASE b >= runs[r].mark - Overlap
        <5>1. b \in d.ballots
          BY <1>1, <2>1, <3>5, <4>2 DEF Routine, d
        <5> QED
          BY <3>0, <3>1, <3>2, <4>1, <5>1, RestoredBallots
      <4>3. CASE ~(b >= runs[r].mark - Overlap)
        <5>1. b < noted.mark - Overlap /\ b \in cast
          BY <2>1, <2>2, <4>3, BackupFields, BackupConstants DEF Routine
        <5> QED
          BY <5>1 DEF BackupInv, WatermarkBehindUploads
      <4> QED
        BY <4>2, <4>3
    <3> QED
      BY <2>1, <3>4, <3>5
\* ... and what came later is not behind the new watermark.
  <2>11. ASSUME NEW b \in cast, b < w - Overlap, NEW base \in NewestFull
         PROVE  b \in Restored(base).ballots
    <3>1. CASE b \in runs[r].seen
      BY <2>10, <3>1
    <3>2. CASE b \notin runs[r].seen
      <4>1. b >= runs[r].mark - Lateness /\ \A m \in runs[r].seen : b >= m - Lateness
        BY <1>1, <2>1, <3>2 DEF Routine
      <4>2. b >= w - Lateness
        BY <2>1, <2>6, <4>1 DEF Routine
      <4> QED
        BY <2>6, <2>11, <4>2, BackupFields, BackupConstants
    <3> QED
      BY <3>1, <3>2
  <2>12. NewestFull' = NewestFull /\ \A base : Restored(base)' = Restored(base)
    BY <1>0 DEF NewestFull, Fulls, Whole, Restored, Steps
  <2>13. RecordedMeansRestorable'
    BY <2>5, <2>10, <2>12 DEF RecordedMeansRestorable
  <2>14. WatermarkBehindUploads'
    BY <1>0, <2>11, <2>12 DEF WatermarkBehindUploads, w
  <2>15. noted'.mark <= backupClock' /\ promised' \subseteq cast' /\ cast' \subseteq 1..backupClock'
    BY <1>0, <2>2, <2>5, <2>6 DEF w, BackupInv
  <2>16. \A o \in bucket' : o.data.named \subseteq o.data.ballots /\ o.ts \in 1..Backups
    BY <1>0 DEF BackupInv
  <2> QED
    BY <2>8, <2>9, <2>13, <2>14, <2>15, <2>16 DEF BackupInv
<1> QED
  BY <1>2, <1>3

LEMMA BackupStart == BackupInit => BackupInv
<1> SUFFICES ASSUME BackupInit
             PROVE  BackupInv
  OBVIOUS
<1>1. /\ backupClock = 1 /\ cast = {} /\ bucket = {} /\ promised = {} /\ faults = 0 /\ refreshes = 0
      /\ noted = [based |-> FALSE, mark |-> 0, last |-> Nothing]
      /\ runs = [r \in Schedulers \cup Wipers |-> NoRun]
  BY DEF BackupInit
<1>2. Nothing \in Contents
  BY DEF Nothing, Contents
<1>3. noted \in [based : BOOLEAN, mark : {0} \cup Ballots, last : Contents] /\ noted.mark = 0
  BY <1>1, <1>2
<1>4. BackupTypeOK
  BY <1>1, <1>3, NoRunKept, BackupConstants DEF BackupTypeOK
<1>5. \A r \in Schedulers \cup Wipers : RunKept(r, runs[r])
  BY <1>1, NoRunKept
<1>6. NewestFull = {}
  BY <1>1 DEF NewestFull, Fulls
<1> QED
  BY <1>1, <1>3, <1>4, <1>5, <1>6 DEF BackupInv, RecordedMeansRestorable, WatermarkBehindUploads

LEMMA BackupStep == OneScheduler /\ BackupInv /\ [BackupNext]_backupVars => BackupInv'
<1> SUFFICES ASSUME OneScheduler, BackupInv, [BackupNext]_backupVars
             PROVE  BackupInv'
  OBVIOUS
<1>1. CASE UNCHANGED backupVars
  BY <1>1 DEF backupVars, BackupInv, BackupTypeOK, RunKept, Routine, IsUpload, HasRead, Busy,
      RecordedMeansRestorable, WatermarkBehindUploads, NewestFull, Fulls, Whole, Restored, Steps
<1>2. CASE Tick
  BY <1>2, BackupTickKeeps
<1>3. CASE \E b \in Ballots : CastBallot(b)
  BY <1>3, CastBallotKeeps
<1>4. CASE \E s \in Schedulers : Begin(s, "full") \/ Begin(s, "incr")
  BY <1>4, BeginKeeps
<1>5. CASE \E s \in Wipers : Begin(s, "safety")
  BY <1>5, BeginKeeps
<1>6. ASSUME NEW r \in Schedulers \cup Wipers, RunStep(r) \/ Fail(r)
      PROVE  BackupInv'
  BY <1>6, ExportFullKeeps, ExportEventsKeeps, UploadFilesKeeps, UploadManifestKeeps, RecordRunKeeps,
     FailKeeps DEF RunStep
<1> QED
  BY <1>1, <1>2, <1>3, <1>4, <1>5, <1>6 DEF BackupNext

\* The marks and seals of a copy come from before its ballots.
LEMMA CopiesAreWhole == BackupInv => BackupTypeOK /\ BackupSound
<1> SUFFICES ASSUME BackupInv
             PROVE  CopyIsConsistent
  BY DEF BackupInv, BackupSound
<1>1. SUFFICES ASSUME NEW base \in bucket, base.manifest, NEW b \in base.data.named
               PROVE  b \in Restored(base).ballots
  BY DEF CopyIsConsistent, Whole
<1>2. base.data \in Contents /\ b \in base.data.ballots
  BY BackupFields DEF BackupInv
<1> QED
  BY <1>1, <1>2, RestoredBallots

(* However the inserts, the runs of one scheduler, the snapshots of any number *)
(* of handlers and the failures fall (backup_tenant, run_scheduled and its     *)
(* lock): a restored copy is consistent, has what was recorded, and the        *)
(* watermark passes over nothing.                                              *)
THEOREM BackupsHold ==
    ASSUME OneScheduler
    PROVE  BackupSpec => [](BackupTypeOK /\ BackupSound)
<1>1. BackupInv /\ [BackupNext]_backupVars => BackupInv'
  BY BackupStep
<1>2. BackupInit => BackupInv
  BY BackupStart
<1>3. BackupInv => BackupTypeOK /\ BackupSound
  BY CopiesAreWhole
<1> QED
  BY <1>1, <1>2, <1>3, PTL DEF BackupSpec

-----------------------------------------------------------------------------
(* The restore test, the check that only reads, and the operator's restore. *)

Sealed(d) == d["checkpoints"] \subseteq d["ballots"] \cup wiped

Traced(d) == d["ballots"] \subseteq liveDb["ballots"] \cup wiped

Rotten == \E a \in archive : ~a.sound

\* The plan has been read and what is read is on its way to the scratch cluster.
Planned(t) == t.pc \in {"load", "count", "compare"}

Complaint(t) ==
    t.unread \/ t.crowded \/ Rotten \/ (t.got["ballots"] \cup t.got["checkpoints"]) \cap wiped # {}

TestRunKept(t) ==
    /\ t.pc # "cleanup" => ~t.failed
    /\ t.pc \in {"guards", "count", "compare"} => t.kind = "test"
    /\ t.pc \in {"idle", "asked", "guards", "plan"} => t.got = Empty
    /\ t.pc = "load" => /\ \A c \in Colls : t.plan[c] = t.got[c] \cup Merged(t.todo)[c]
                        /\ \A f \in t.todo : f.sound \/ Rotten
    /\ t.pc \in {"count", "compare"} => t.got = t.plan
    /\ Planned(t) => Sealed(t.plan) /\ Traced(t.plan)
    /\ t.kind = "test" /\ (t.pc = "plan" \/ Planned(t)) => scratch = t.got \/ t.crowded
    /\ t.pc = "cleanup" => IF t.failed THEN Complaint(t) ELSE t.whole \/ t.crowded

\* Two tests on the scratch cluster know that they share it.
Crowding == \A p, q \in TestServers : OnScratch(p) /\ OnScratch(q) /\ p # q => tests[p].crowded

BackupsTraced == \A a \in archive : Sealed(a.docs) /\ Traced(a.docs)

RestoreInv ==
    /\ RestoreTypeOK /\ IsFiniteSet(archive)
    /\ Sealed(liveDb) /\ BackupsTraced /\ Sealed(rebuild.got) /\ Traced(rebuild.got)
    /\ \A p \in TestServers : TestRunKept(tests[p])
    /\ Crowding
    /\ RestoreSound

TestState == [pc : {"idle", "asked", "guards", "plan", "load", "count", "compare", "cleanup"},
              kind : ArchiveKinds, todo : SUBSET File, plan : Documents, got : Documents,
              failed : BOOLEAN, whole : BOOLEAN, unread : BOOLEAN, crowded : BOOLEAN]

LEMMA RestoreFields ==
    ASSUME RestoreTypeOK
    PROVE  /\ liveDb \in Documents /\ scratch \in Documents /\ Empty \in Documents
           /\ tests \in [TestServers -> TestState] /\ NoRestoreTest \in TestState
           /\ liveDb["ballots"] \subseteq DocIds /\ liveDb["checkpoints"] \subseteq DocIds
           /\ DocIds \subseteq Nat /\ Archives \in Nat /\ TestRuns \in Nat /\ Mishaps \in Nat
<1>1. liveDb \in Documents /\ scratch \in Documents /\ Empty \in Documents
  BY DEF RestoreTypeOK, Documents, Empty
<1>2. tests \in [TestServers -> TestState]
  BY DEF RestoreTypeOK, TestState
<1>3. NoRestoreTest \in TestState
  BY <1>1 DEF NoRestoreTest, TestState, ArchiveKinds
<1>4. liveDb["ballots"] \subseteq DocIds /\ liveDb["checkpoints"] \subseteq DocIds
  BY <1>1 DEF Documents, Colls
<1>5. DocIds \subseteq Nat
  BY RestoreAssumption, FS_CardinalityType
<1>6. Archives \in Nat /\ TestRuns \in Nat /\ Mishaps \in Nat
  BY RestoreAssumption
<1> QED
  BY <1>1, <1>2, <1>3, <1>4, <1>5, <1>6

\* The election, the backups and the restore move: no test is worse off.
LEMMA ElectionMoves ==
    ASSUME RestoreInv, wiped \subseteq wiped',
           liveDb["ballots"] \cup wiped \subseteq liveDb'["ballots"] \cup wiped',
           Rotten => Rotten', UNCHANGED <<tests, scratch, outcome>>, used'.reboots = used.reboots
    PROVE  /\ \A p \in TestServers : TestRunKept(tests[p])'
           /\ Crowding' /\ RestoreSound'
           /\ (BackupsTraced /\ archive' = archive => BackupsTraced')
           /\ (rebuild' = rebuild => Sealed(rebuild.got)' /\ Traced(rebuild.got)')
<1>1. ASSUME NEW p \in TestServers
      PROVE  TestRunKept(tests[p])'
  <2>1. TestRunKept(tests[p])
    BY DEF RestoreInv
  <2>2. Complaint(tests[p]) => Complaint(tests[p])'
    BY DEF Complaint
  <2>3. Planned(tests[p]) => Sealed(tests[p].plan)' /\ Traced(tests[p].plan)'
    BY <2>1 DEF TestRunKept, Sealed, Traced
  <2>4. tests[p].pc = "load" =>
            /\ \A c \in Colls : tests[p].plan[c] = tests[p].got[c] \cup Merged(tests[p].todo)[c]
            /\ \A f \in tests[p].todo : f.sound \/ Rotten'
    BY <2>1 DEF TestRunKept
  <2> QED
    BY <2>1, <2>2, <2>3, <2>4 DEF TestRunKept, Planned, Merged
<1>2. Crowding'
  BY DEF RestoreInv, Crowding, OnScratch
<1>3. RestoreSound'
  BY DEF RestoreInv, RestoreSound, PassedIsWhole, NoFalseAlarm, NothingLeftBehind, OnScratch
<1>4. BackupsTraced /\ archive' = archive => BackupsTraced'
  BY DEF BackupsTraced, Sealed, Traced
<1>5. rebuild' = rebuild => Sealed(rebuild.got)' /\ Traced(rebuild.got)'
  BY DEF RestoreInv, Sealed, Traced
<1> QED
  BY <1>1, <1>2, <1>3, <1>4, <1>5

LEMMA CastOnKeeps ==
    ASSUME RestoreInv, NEW b \in DocIds, Cast(b)
    PROVE  RestoreInv'
<1>1. liveDb' = [liveDb EXCEPT !["ballots"] = @ \cup {b}]
      /\ UNCHANGED <<wiped, archive, testJobs, tests, scratch, outcome, rebuild, used>>
  BY DEF Cast
<1>2. liveDb \in [Colls -> SUBSET DocIds] /\ RestoreTypeOK
  BY RestoreFields DEF RestoreInv, Documents
<1>3. /\ liveDb' \in [Colls -> SUBSET DocIds] /\ liveDb'["ballots"] = liveDb["ballots"] \cup {b}
      /\ liveDb'["checkpoints"] = liveDb["checkpoints"]
  BY <1>1, <1>2 DEF Colls
<1>4. RestoreTypeOK'
  BY <1>1, <1>2, <1>3 DEF RestoreTypeOK, Documents
<1>5. Sealed(liveDb)'
  BY <1>1, <1>3 DEF RestoreInv, Sealed
<1>6. Rotten => Rotten'
  BY <1>1 DEF Rotten
<1> QED
  BY <1>1, <1>3, <1>4, <1>5, <1>6, ElectionMoves DEF RestoreInv

LEMMA SealOnKeeps ==
    ASSUME RestoreInv, Seal
    PROVE  RestoreInv'
<1> DEFINE top == Max(liveDb["ballots"])
<1>1. liveDb' = [liveDb EXCEPT !["checkpoints"] = @ \cup {top}] /\ liveDb["ballots"] # {}
      /\ UNCHANGED <<wiped, archive, testJobs, tests, scratch, outcome, rebuild, used>>
  BY DEF Seal
<1>2. liveDb \in [Colls -> SUBSET DocIds] /\ RestoreTypeOK
  BY RestoreFields DEF RestoreInv, Documents
<1>3. top \in liveDb["ballots"]
  <2>1. Cardinality(DocIds) \in Nat /\ DocIds = 1 .. Cardinality(DocIds)
    BY RestoreAssumption, FS_CardinalityType
  <2>2. PICK k \in Nat : DocIds = 1 .. k
    BY <2>1
  <2>3. liveDb["ballots"] \in SUBSET (0 .. k)
    BY <1>2, <2>2 DEF Colls
  <2> QED
    BY <1>1, <2>3, MaxOfBounded
<1> HIDE DEF top
<1>4. /\ liveDb' \in [Colls -> SUBSET DocIds] /\ liveDb'["ballots"] = liveDb["ballots"]
      /\ liveDb'["checkpoints"] = liveDb["checkpoints"] \cup {top}
  BY <1>1, <1>2, <1>3 DEF Colls
<1>5. RestoreTypeOK'
  BY <1>1, <1>2, <1>4 DEF RestoreTypeOK, Documents
<1>6. Sealed(liveDb)'
  BY <1>1, <1>3, <1>4 DEF RestoreInv, Sealed
<1>7. Rotten => Rotten'
  BY <1>1 DEF Rotten
<1> QED
  BY <1>1, <1>4, <1>5, <1>6, <1>7, ElectionMoves DEF RestoreInv

LEMMA WipeOnKeeps ==
    ASSUME RestoreInv, Wipe
    PROVE  RestoreInv'
<1>1. wiped' = wiped \cup liveDb["ballots"] /\ liveDb' = Empty
      /\ used' = [used EXCEPT !.mishaps = @ + 1]
      /\ UNCHANGED <<archive, testJobs, tests, scratch, outcome, rebuild>>
  BY DEF Wipe
<1>2. liveDb["ballots"] \subseteq DocIds /\ RestoreTypeOK /\ Empty \in Documents
  BY RestoreFields DEF RestoreInv
<1>3. used \in [{"tests", "reboots", "mishaps"} -> Nat] /\ wiped \subseteq DocIds
  BY <1>2 DEF RestoreTypeOK
<1>4. used' \in [{"tests", "reboots", "mishaps"} -> Nat] /\ used'.reboots = used.reboots
  BY <1>1, <1>3
<1>5. liveDb'["ballots"] = {} /\ liveDb'["checkpoints"] = {}
  BY <1>1 DEF Empty, Colls
<1>6. RestoreTypeOK'
  BY <1>1, <1>2, <1>3, <1>4 DEF RestoreTypeOK
<1>7. Sealed(liveDb)'
  BY <1>5 DEF Sealed
<1>8. Rotten => Rotten'
  BY <1>1 DEF Rotten
<1> QED
  BY <1>1, <1>4, <1>5, <1>6, <1>7, <1>8, ElectionMoves DEF RestoreInv

LEMMA StartUploadKeeps ==
    ASSUME RestoreInv, NEW k \in {"full", "incr"}, StartUpload(k)
    PROVE  RestoreInv'
<1> DEFINE new == [ts |-> 1 + Cardinality(archive), kind |-> k, docs |-> Exported(k),
                   manifest |-> FALSE, sound |-> TRUE]
<1>1. archive' = archive \cup {new}
      /\ UNCHANGED <<liveDb, wiped, testJobs, tests, scratch, outcome, rebuild, used>>
  BY DEF StartUpload
<1>2. liveDb \in [Colls -> SUBSET DocIds] /\ RestoreTypeOK
  BY RestoreFields DEF RestoreInv, Documents
<1>3. Exported(k) \in Documents /\ Sealed(Exported(k)) /\ Traced(Exported(k))
  <2>1. CASE k = "full"
    BY <1>2, <2>1 DEF Exported, Documents, RestoreInv, Traced
  <2>2. CASE k # "full"
    <3>1. PICK S : S = {b \in liveDb["ballots"] : b \geq Highest(Known)}
      OBVIOUS
    <3>2. Exported(k) = [Empty EXCEPT !["ballots"] = S]
      BY <2>2, <3>1 DEF Exported
    <3>3. S \subseteq liveDb["ballots"] /\ S \subseteq DocIds
      BY <1>2, <3>1 DEF Colls
    <3>4. Exported(k) \in [Colls -> SUBSET DocIds] /\ Exported(k)["ballots"] = S
          /\ Exported(k)["checkpoints"] = {}
      BY <3>2, <3>3 DEF Empty, Colls
    <3> QED
      BY <3>3, <3>4 DEF Documents, Sealed, Traced
  <2> QED
    BY <2>1, <2>2
<1>4. IsFiniteSet(archive') /\ Cardinality(archive) \in Nat
  BY <1>1, FS_AddElement, FS_CardinalityType DEF RestoreInv
<1>5. new \in Archive /\ new.docs = Exported(k)
  BY <1>3, <1>4 DEF Archive
<1> HIDE DEF new
<1>6. RestoreTypeOK'
  BY <1>1, <1>2, <1>5 DEF RestoreTypeOK
<1>7. BackupsTraced'
  BY <1>1, <1>3, <1>5 DEF RestoreInv, BackupsTraced, Sealed, Traced
<1>8. Rotten => Rotten'
  BY <1>1 DEF Rotten
<1>9. Sealed(liveDb)'
  BY <1>1 DEF RestoreInv, Sealed
<1> QED
  BY <1>1, <1>4, <1>6, <1>7, <1>8, <1>9, ElectionMoves DEF RestoreInv

\* A backup that is as it was, except for its manifest and for what befell its files.
LEMMA ArchiveMoves ==
    ASSUME RestoreInv, NEW a \in archive, NEW x \in Archive, x.docs = a.docs, ~a.sound => ~x.sound,
           archive' = (archive \ {a}) \cup {x}, used'.reboots = used.reboots,
           used' \in [{"tests", "reboots", "mishaps"} -> Nat],
           UNCHANGED <<liveDb, wiped, testJobs, tests, scratch, outcome, rebuild>>
    PROVE  RestoreInv'
<1>1. RestoreTypeOK'
  BY DEF RestoreInv, RestoreTypeOK
<1>2. IsFiniteSet(archive')
  BY FS_AddElement, FS_RemoveElement DEF RestoreInv
<1>3. BackupsTraced'
  BY DEF RestoreInv, BackupsTraced, Sealed, Traced
<1>4. Rotten => Rotten'
  BY DEF Rotten
<1>5. Sealed(liveDb)'
  BY DEF RestoreInv, Sealed
<1> QED
  BY <1>1, <1>2, <1>3, <1>4, <1>5, ElectionMoves DEF RestoreInv

LEMMA ArchiveKeeps ==
    ASSUME RestoreInv, NEW a \in archive, FinishUpload(a) \/ Rot(a)
    PROVE  RestoreInv'
<1>1. a \in Archive /\ used \in [{"tests", "reboots", "mishaps"} -> Nat]
  BY DEF RestoreInv, RestoreTypeOK
<1>2. CASE FinishUpload(a)
  <2>1. PICK x : x = [a EXCEPT !.manifest = TRUE]
    OBVIOUS
  <2>2. x \in Archive /\ x.docs = a.docs /\ x.sound = a.sound
    BY <1>1, <2>1 DEF Archive
  <2>3. archive' = (archive \ {a}) \cup {x} /\ used' = used
        /\ UNCHANGED <<liveDb, wiped, testJobs, tests, scratch, outcome, rebuild>>
    BY <1>2, <2>1 DEF FinishUpload
  <2> QED
    BY <1>1, <2>2, <2>3, ArchiveMoves
<1>3. CASE Rot(a)
  <2>1. PICK x : x = [a EXCEPT !.sound = FALSE]
    OBVIOUS
  <2>2. x \in Archive /\ x.docs = a.docs /\ ~x.sound
    BY <1>1, <2>1 DEF Archive
  <2>3. archive' = (archive \ {a}) \cup {x} /\ used' = [used EXCEPT !.mishaps = @ + 1]
        /\ UNCHANGED <<liveDb, wiped, testJobs, tests, scratch, outcome, rebuild>>
    BY <1>3, <2>1 DEF Rot
  <2>4. used' \in [{"tests", "reboots", "mishaps"} -> Nat] /\ used'.reboots = used.reboots
    BY <1>1, <2>3
  <2> QED
    BY <2>2, <2>3, <2>4, ArchiveMoves
<1> QED
  BY <1>2, <1>3

\* What a restore reads comes from backups, and with the marks the ballots they seal.
LEMMA PlanIsTraced ==
    ASSUME RestoreInv
    PROVE  /\ Stream \subseteq File /\ \A f \in Stream : f.sound \/ Rotten
           /\ Merged(Stream) \in Documents /\ Sealed(Merged(Stream)) /\ Traced(Merged(Stream))
<1> DEFINE Part(a, c) == [ts |-> a.ts, coll |-> c, ids |-> a.docs[c],
                          sound |-> IF c = "ballots" THEN a.sound ELSE TRUE]
<1>1. \A a \in archive : a \in Archive
  BY DEF RestoreInv, RestoreTypeOK
<1>2. PlanSteps \subseteq archive
  BY DEF PlanSteps
<1>3. ASSUME NEW f \in Stream
      PROVE  \E a \in archive, c \in Colls : f = Part(a, c)
  BY <1>2 DEF Stream, Files, Colls
<1>4. ASSUME NEW a \in archive, NEW c \in Colls
      PROVE  /\ Part(a, c) \in File /\ Part(a, c).ids = a.docs[c] /\ Part(a, c).coll = c
             /\ Part(a, c).sound \/ Rotten
  BY <1>1 DEF Archive, File, Documents, Rotten
<1>5. ASSUME NEW a \in PlanSteps, NEW c \in Colls, a.docs[c] # {}
      PROVE  Part(a, c) \in Stream
  <2>1. Part(a, c) \in Files(a)
    <3>1. CASE c = "ballots"
      BY <1>5, <3>1 DEF Files
    <3>2. CASE c = "checkpoints"
      BY <1>5, <3>2 DEF Files
    <3> QED
      BY <3>1, <3>2 DEF Colls
  <2> QED
    BY <2>1 DEF Stream
<1> HIDE DEF Part
<1>6. Stream \subseteq File /\ \A f \in Stream : f.sound \/ Rotten
  BY <1>3, <1>4
<1>7. Merged(Stream) \in Documents
  <2>1. \A f \in Stream : f.ids \subseteq DocIds
    BY <1>6 DEF File
  <2> QED
    BY <2>1 DEF Merged, Documents
<1>8. ASSUME NEW c \in Colls
      PROVE  Merged(Stream)[c] = UNION {f.ids : f \in {g \in Stream : g.coll = c}}
  BY DEF Merged
<1>9. ASSUME NEW c \in Colls, NEW d \in Merged(Stream)[c]
      PROVE  \E a \in PlanSteps : d \in a.docs[c]
  <2>1. PICK f \in Stream : f.coll = c /\ d \in f.ids
    BY <1>8
  <2>2. PICK a \in PlanSteps : f \in Files(a)
    BY DEF Stream
  <2> QED
    BY <2>1, <2>2 DEF Files, Colls
<1>10. ASSUME NEW c \in Colls, NEW a \in PlanSteps, NEW d \in a.docs[c]
       PROVE  d \in Merged(Stream)[c]
  <2>1. Part(a, c) \in Stream /\ Part(a, c).coll = c /\ d \in Part(a, c).ids
    BY <1>2, <1>4, <1>5
  <2> QED
    BY <2>1, <1>8
<1>11. Traced(Merged(Stream))
  BY <1>2, <1>9 DEF RestoreInv, BackupsTraced, Traced, Colls
<1>12. Sealed(Merged(Stream))
  <2> SUFFICES ASSUME NEW d \in Merged(Stream)["checkpoints"]
               PROVE  d \in Merged(Stream)["ballots"] \cup wiped
    BY DEF Sealed
  <2>1. PICK a \in PlanSteps : d \in a.docs["checkpoints"]
    BY <1>9 DEF Colls
  <2>2. d \in a.docs["ballots"] \cup wiped
    BY <1>2, <2>1 DEF RestoreInv, BackupsTraced, Sealed
  <2> QED
    BY <1>10, <2>2 DEF Colls
<1> QED
  BY <1>6, <1>7, <1>11, <1>12

\* The operator's restore.
LEMMA BeginRebuildKeeps ==
    ASSUME RestoreInv, NEW replace \in BOOLEAN, BeginRebuild(replace)
    PROVE  RestoreInv'
<1>1. PICK got : got = Merged(Stream)
  OBVIOUS
<1>2. PICK S : S = {c \in Colls : got[c] # {}}
  OBVIOUS
<1>3. /\ rebuild' = [pc |-> "write", got |-> got, todo |-> S, replace |-> replace]
      /\ used' = [used EXCEPT !.mishaps = @ + 1] /\ FullsThere # {}
      /\ UNCHANGED <<liveDb, wiped, archive, testJobs, tests, scratch, outcome>>
  BY <1>1, <1>2 DEF BeginRebuild, Readable
<1>4. got \in Documents /\ Sealed(got) /\ Traced(got)
  BY <1>1, PlanIsTraced
<1>5. used \in [{"tests", "reboots", "mishaps"} -> Nat] /\ RestoreTypeOK
  BY DEF RestoreInv, RestoreTypeOK
<1>6. used' \in [{"tests", "reboots", "mishaps"} -> Nat] /\ used'.reboots = used.reboots
  BY <1>3, <1>5
<1>7. RestoreTypeOK'
  BY <1>2, <1>3, <1>4, <1>5, <1>6 DEF RestoreTypeOK
<1>8. Sealed(rebuild.got)' /\ Traced(rebuild.got)' /\ Sealed(liveDb)'
  BY <1>3, <1>4 DEF RestoreInv, Sealed, Traced
<1>9. Rotten => Rotten'
  BY <1>3 DEF Rotten
<1> QED
  BY <1>3, <1>6, <1>7, <1>8, <1>9, ElectionMoves DEF RestoreInv

LEMMA ClearLiveKeeps ==
    ASSUME RestoreInv, NEW c \in Colls, ClearLive(c)
    PROVE  RestoreInv'
<1>1. liveDb' = [liveDb EXCEPT ![c] = {}]
      /\ wiped' = (IF c = "ballots" THEN wiped \cup liveDb[c] ELSE wiped)
      /\ UNCHANGED <<archive, testJobs, tests, scratch, outcome, rebuild, used>>
  BY DEF ClearLive
<1>2. liveDb \in [Colls -> SUBSET DocIds] /\ RestoreTypeOK
  BY RestoreFields DEF RestoreInv, Documents
<1>3. /\ liveDb' \in [Colls -> SUBSET DocIds] /\ liveDb'[c] = {}
      /\ \A d \in Colls \ {c} : liveDb'[d] = liveDb[d]
  BY <1>1, <1>2
<1>4. CASE c = "ballots"
  <2>1. liveDb'["ballots"] = {} /\ liveDb'["checkpoints"] = liveDb["checkpoints"]
        /\ wiped' = wiped \cup liveDb["ballots"]
    BY <1>1, <1>3, <1>4 DEF Colls
  <2>2. Sealed(liveDb)'
    BY <2>1 DEF RestoreInv, Sealed
  <2> QED
    BY <1>1, <1>2, <1>3, <2>1, <2>2, ElectionMoves DEF RestoreInv, RestoreTypeOK, Documents, Rotten, Colls
<1>5. CASE c = "checkpoints"
  <2>1. liveDb'["checkpoints"] = {} /\ liveDb'["ballots"] = liveDb["ballots"] /\ wiped' = wiped
    BY <1>1, <1>3, <1>5 DEF Colls
  <2>2. Sealed(liveDb)'
    BY <2>1 DEF RestoreInv, Sealed
  <2> QED
    BY <1>1, <1>2, <1>3, <2>1, <2>2, ElectionMoves DEF RestoreInv, RestoreTypeOK, Documents, Rotten
<1> QED
  BY <1>4, <1>5 DEF Colls

LEMMA WriteLiveKeeps ==
    ASSUME RestoreInv, NEW c \in Colls, WriteLive(c)
    PROVE  RestoreInv'
<1>1. liveDb' = [liveDb EXCEPT ![c] = @ \cup rebuild.got[c]]
      /\ rebuild' = [rebuild EXCEPT !.todo = @ \ {c}]
      /\ UNCHANGED <<wiped, archive, testJobs, tests, scratch, outcome, used>>
  BY DEF WriteLive
<1>2. liveDb \in [Colls -> SUBSET DocIds] /\ RestoreTypeOK
  BY RestoreFields DEF RestoreInv, Documents
<1>3. rebuild \in [pc : {"idle", "write", "confirmed", "mismatch"}, got : Documents, todo : SUBSET Colls,
                   replace : BOOLEAN]
  BY <1>2 DEF RestoreTypeOK
<1>4. rebuild.got \in [Colls -> SUBSET DocIds]
  BY <1>3 DEF Documents
<1>5. /\ rebuild' \in [pc : {"idle", "write", "confirmed", "mismatch"}, got : Documents, todo : SUBSET Colls,
                       replace : BOOLEAN]
      /\ rebuild'.got = rebuild.got
  BY <1>1, <1>3
<1>6. /\ liveDb' \in [Colls -> SUBSET DocIds]
      /\ \A d \in Colls : liveDb'[d] = liveDb[d] \/ liveDb'[d] = liveDb[d] \cup rebuild.got[d]
  BY <1>1, <1>2, <1>4
<1>7. RestoreTypeOK'
  BY <1>1, <1>2, <1>5, <1>6 DEF RestoreTypeOK, Documents
<1>8. liveDb["ballots"] \cup wiped \subseteq liveDb'["ballots"] \cup wiped'
  BY <1>1, <1>6 DEF Colls
<1>9. Sealed(liveDb)'
  BY <1>1, <1>6, <1>8 DEF RestoreInv, Sealed, Traced, Colls
<1>10. Sealed(rebuild.got)' /\ Traced(rebuild.got)'
  BY <1>1, <1>5, <1>8 DEF RestoreInv, Sealed, Traced
<1>11. Rotten => Rotten'
  BY <1>1 DEF Rotten
<1> QED
  BY <1>1, <1>7, <1>8, <1>9, <1>10, <1>11, ElectionMoves DEF RestoreInv

LEMMA ConfirmRebuildKeeps ==
    ASSUME RestoreInv, ConfirmRebuild
    PROVE  RestoreInv'
<1>1. PICK v \in {"confirmed", "mismatch"} : rebuild' = [rebuild EXCEPT !.pc = v]
  BY DEF ConfirmRebuild
<1>2. UNCHANGED <<liveDb, wiped, archive, testJobs, tests, scratch, outcome, used>>
  BY DEF ConfirmRebuild
<1>3. rebuild \in [pc : {"idle", "write", "confirmed", "mismatch"}, got : Documents, todo : SUBSET Colls,
                   replace : BOOLEAN]
  BY DEF RestoreInv, RestoreTypeOK
<1>4. /\ rebuild' \in [pc : {"idle", "write", "confirmed", "mismatch"}, got : Documents, todo : SUBSET Colls,
                       replace : BOOLEAN]
      /\ rebuild'.got = rebuild.got
  BY <1>1, <1>3
<1>5. RestoreTypeOK'
  BY <1>2, <1>4 DEF RestoreInv, RestoreTypeOK
<1>6. Sealed(rebuild.got)' /\ Traced(rebuild.got)' /\ Sealed(liveDb)'
  BY <1>2, <1>4 DEF RestoreInv, Sealed, Traced
<1>7. Rotten => Rotten'
  BY <1>2 DEF Rotten
<1> QED
  BY <1>2, <1>5, <1>6, <1>7, ElectionMoves DEF RestoreInv

-----------------------------------------------------------------------------
\* A test that moves on, while the election, the backups and the scratch cluster stay as they are.
LEMMA TestMoves ==
    ASSUME RestoreInv, NEW p \in TestServers, NEW u \in TestState, TestRunKept(u),
           tests' = [tests EXCEPT ![p] = u], OnScratch(p)' <=> OnScratch(p),
           OnScratch(p) /\ tests[p].crowded => u.crowded,
           testJobs' \subseteq TestServers \X ArchiveKinds, outcome'.said = "none" \/ outcome' = outcome,
           outcome' \in [said : {"none", "passed", "failed"}, kind : ArchiveKinds, whole : BOOLEAN,
                         cause : BOOLEAN],
           used' \in [{"tests", "reboots", "mishaps"} -> Nat], used'.reboots = used.reboots,
           UNCHANGED <<liveDb, wiped, archive, scratch, rebuild>>
    PROVE  RestoreInv'
<1>1. tests \in [TestServers -> TestState]
  BY RestoreFields DEF RestoreInv
<1>2. tests' \in [TestServers -> TestState]
      /\ \A q \in TestServers : tests'[q] = IF q = p THEN u ELSE tests[q]
  BY <1>1
<1>3. RestoreTypeOK'
  BY <1>2 DEF RestoreInv, RestoreTypeOK, TestState
<1>4. \A q \in TestServers : TestRunKept(tests[q])'
  <2> SUFFICES ASSUME NEW q \in TestServers
               PROVE  TestRunKept(tests[q])'
    OBVIOUS
  <2>1. PICK t : t = tests'[q]
    OBVIOUS
  <2>2. TestRunKept(t)
    BY <1>2, <2>1 DEF RestoreInv
  <2> QED
    BY <2>1, <2>2 DEF TestRunKept, Complaint, Rotten, Sealed, Traced, Planned, Merged
<1>5. \A q \in TestServers : OnScratch(q)' <=> OnScratch(q)
  BY <1>2 DEF OnScratch
<1>6. Crowding'
  BY <1>2, <1>5 DEF RestoreInv, Crowding
<1>7. RestoreSound'
  BY <1>5 DEF RestoreInv, RestoreSound, PassedIsWhole, NoFalseAlarm, NothingLeftBehind
<1>8. BackupsTraced' /\ Sealed(liveDb)' /\ Sealed(rebuild.got)' /\ Traced(rebuild.got)'
  BY DEF RestoreInv, BackupsTraced, Sealed, Traced
<1> QED
  BY <1>3, <1>4, <1>6, <1>7, <1>8 DEF RestoreInv

LEMMA TestQuiet ==
    ASSUME RestoreInv
    PROVE  /\ TestRunKept(NoRestoreTest)
           /\ \A p \in TestServers : tests[p] \in TestState /\ TestRunKept(tests[p])
           /\ testJobs \subseteq TestServers \X ArchiveKinds
           /\ outcome \in [said : {"none", "passed", "failed"}, kind : ArchiveKinds, whole : BOOLEAN,
                           cause : BOOLEAN]
           /\ used \in [{"tests", "reboots", "mishaps"} -> Nat]
<1>1. TestRunKept(NoRestoreTest)
  BY DEF TestRunKept, NoRestoreTest, Planned
<1>2. \A p \in TestServers : tests[p] \in TestState /\ TestRunKept(tests[p])
  BY RestoreFields DEF RestoreInv
<1> QED
  BY <1>1, <1>2 DEF RestoreInv, RestoreTypeOK

LEMMA AskJobKeeps ==
    ASSUME RestoreInv, NEW p \in TestServers, NEW kind \in ArchiveKinds, AskJob(p, kind)
    PROVE  RestoreInv'
<1>1. PICK u : u = [NoRestoreTest EXCEPT !.pc = "asked", !.kind = kind]
  OBVIOUS
<1>2. /\ tests' = [tests EXCEPT ![p] = u] /\ tests[p].pc = "idle"
      /\ used' = [used EXCEPT !.tests = @ + 1] /\ outcome' = NoOutcome
      /\ UNCHANGED <<liveDb, wiped, archive, testJobs, scratch, rebuild>>
  BY <1>1 DEF AskJob, UnderWay
<1>3. u \in TestState /\ u.pc = "asked" /\ ~u.failed /\ u.got = Empty
  <2>1. NoRestoreTest \in TestState /\ NoRestoreTest.got = Empty /\ ~NoRestoreTest.failed
    BY RestoreFields DEF RestoreInv, NoRestoreTest
  <2> QED
    BY <1>1, <2>1 DEF TestState
<1>4. TestRunKept(u)
  BY <1>3 DEF TestRunKept, Planned
<1>5. used' \in [{"tests", "reboots", "mishaps"} -> Nat] /\ used'.reboots = used.reboots
  BY <1>2, TestQuiet
<1>6. outcome' \in [said : {"none", "passed", "failed"}, kind : ArchiveKinds, whole : BOOLEAN,
                    cause : BOOLEAN] /\ outcome'.said = "none"
  BY <1>2 DEF NoOutcome, ArchiveKinds
<1>7. OnScratch(p)' <=> OnScratch(p)
  <2>1. tests'[p].pc = "asked"
    BY <1>2, <1>3, RestoreFields DEF RestoreInv
  <2> QED
    BY <1>2, <2>1 DEF OnScratch
<1>8. ~OnScratch(p) /\ testJobs' \subseteq TestServers \X ArchiveKinds
  BY <1>2, TestQuiet DEF OnScratch
<1> QED
  BY <1>2, <1>3, <1>4, <1>5, <1>6, <1>7, <1>8, TestMoves

LEMMA EarlyKeeps ==
    ASSUME RestoreInv, NEW p \in TestServers, RecordJob(p) \/ Skip(p)
    PROVE  RestoreInv'
<1>1. CASE RecordJob(p)
  <2>1. PICK v : v = IF tests[p].kind = "test" THEN "guards" ELSE "plan"
    OBVIOUS
  <2>2. PICK u : u = [tests[p] EXCEPT !.pc = v]
    OBVIOUS
  <2>3. /\ tests' = [tests EXCEPT ![p] = u] /\ tests[p].pc = "asked"
        /\ testJobs' = testJobs \cup {<<p, tests[p].kind>>}
        /\ UNCHANGED <<liveDb, wiped, archive, scratch, outcome, rebuild, used>>
    BY <1>1, <2>1, <2>2 DEF RecordJob
  <2>4. v \in {"guards", "plan"} /\ tests[p] \in TestState /\ TestRunKept(tests[p])
    BY <2>1, TestQuiet
  <2>5. /\ u \in TestState /\ u.pc = v /\ u.kind = tests[p].kind /\ u.got = tests[p].got
        /\ u.failed = tests[p].failed
    BY <2>2, <2>4 DEF TestState
  <2>6. TestRunKept(u)
    BY <2>1, <2>3, <2>4, <2>5 DEF TestRunKept, Planned
  <2>7. tests'[p] = u
    BY <2>3, RestoreFields DEF RestoreInv
  <2>8. ~OnScratch(p) /\ ~OnScratch(p)'
    BY <2>1, <2>3, <2>5, <2>7 DEF OnScratch
  <2>9. tests[p].kind \in ArchiveKinds
    BY <2>4 DEF TestState
  <2>10. testJobs' \subseteq TestServers \X ArchiveKinds
    BY <2>3, <2>9, TestQuiet
  <2> QED
    BY <2>3, <2>5, <2>6, <2>8, <2>10, TestMoves, TestQuiet
<1>2. CASE Skip(p)
  <2>1. /\ tests' = [tests EXCEPT ![p] = NoRestoreTest] /\ tests[p].pc = "guards"
        /\ testJobs' \subseteq testJobs
        /\ UNCHANGED <<liveDb, wiped, archive, scratch, outcome, rebuild, used>>
    BY <1>2 DEF Skip
  <2>2. tests'[p] = NoRestoreTest /\ NoRestoreTest \in TestState
    BY <2>1, RestoreFields DEF RestoreInv
  <2>3. ~OnScratch(p) /\ ~OnScratch(p)'
    BY <2>1, <2>2 DEF OnScratch, NoRestoreTest
  <2> QED
    BY <2>1, <2>2, <2>3, TestMoves, TestQuiet
<1> QED
  BY <1>1, <1>2

LEMMA ReadPlanKeeps ==
    ASSUME RestoreInv, NEW p \in TestServers, ReadPlan(p)
    PROVE  RestoreInv'
<1>1. PICK S : S = Stream
  OBVIOUS
<1>2. PICK d : d = Merged(S)
  OBVIOUS
<1>3. /\ S \subseteq File /\ \A f \in S : f.sound \/ Rotten
      /\ d \in Documents /\ Sealed(d) /\ Traced(d)
  BY <1>1, <1>2, PlanIsTraced
<1>4. tests[p] \in TestState /\ TestRunKept(tests[p]) /\ tests[p].pc = "plan"
      /\ UNCHANGED <<liveDb, wiped, archive, testJobs, scratch, outcome, rebuild, used>>
  BY TestQuiet DEF ReadPlan
<1>5. CASE Readable
  <2>1. PICK u : u = [tests[p] EXCEPT !.pc = "load", !.todo = S, !.plan = d]
    OBVIOUS
  <2>2. tests' = [tests EXCEPT ![p] = u]
    BY <1>1, <1>2, <1>5, <2>1 DEF ReadPlan
  <2>3. /\ u \in TestState /\ u.pc = "load" /\ u.todo = S /\ u.plan = d /\ u.kind = tests[p].kind
        /\ u.got = tests[p].got /\ u.failed = tests[p].failed /\ u.crowded = tests[p].crowded
    BY <1>3, <1>4, <2>1 DEF TestState
  <2>4. tests[p].got = Empty /\ ~tests[p].failed /\ (tests[p].kind = "test" => scratch = Empty \/ tests[p].crowded)
    BY <1>4 DEF TestRunKept
  <2>5. \A c \in Colls : u.plan[c] = u.got[c] \cup Merged(u.todo)[c]
    BY <1>2, <2>3, <2>4 DEF Empty
  <2>6. TestRunKept(u)
    BY <1>3, <2>3, <2>4, <2>5 DEF TestRunKept, Planned
  <2>7. tests'[p] = u
    BY <2>2, RestoreFields DEF RestoreInv
  <2>8. OnScratch(p)' <=> OnScratch(p)
    BY <1>4, <2>3, <2>7 DEF OnScratch
  <2> QED
    BY <1>4, <2>2, <2>3, <2>6, <2>8, TestMoves, TestQuiet
<1>6. CASE ~Readable
  <2>1. PICK u : u = [tests[p] EXCEPT !.pc = "cleanup", !.failed = TRUE, !.unread = TRUE]
    OBVIOUS
  <2>2. tests' = [tests EXCEPT ![p] = u]
    BY <1>6, <2>1 DEF ReadPlan
  <2>3. /\ u \in TestState /\ u.pc = "cleanup" /\ u.unread /\ u.kind = tests[p].kind /\ u.failed
        /\ u.crowded = tests[p].crowded
    BY <1>4, <2>1 DEF TestState
  <2>4. TestRunKept(u)
    BY <2>3 DEF TestRunKept, Planned, Complaint
  <2>5. tests'[p] = u
    BY <2>2, RestoreFields DEF RestoreInv
  <2>6. OnScratch(p)' <=> OnScratch(p)
    BY <1>4, <2>3, <2>5 DEF OnScratch
  <2> QED
    BY <1>4, <2>2, <2>3, <2>4, <2>6, TestMoves, TestQuiet
<1> QED
  BY <1>5, <1>6

LEMMA LoadedKeeps ==
    ASSUME RestoreInv, NEW p \in TestServers, Loaded(p)
    PROVE  RestoreInv'
<1>1. PICK w \in BOOLEAN : w = (tests[p].got = tests[p].plan)
  OBVIOUS
<1>2. PICK v : v = IF tests[p].kind = "test" THEN "count" ELSE "cleanup"
  OBVIOUS
<1>3. PICK u : u = [tests[p] EXCEPT !.pc = v, !.whole = w]
  OBVIOUS
<1>4. tests[p] \in TestState /\ TestRunKept(tests[p]) /\ tests[p].pc = "load" /\ tests[p].todo = {}
      /\ UNCHANGED <<liveDb, wiped, archive, testJobs, scratch, outcome, rebuild, used>>
  BY TestQuiet DEF Loaded
<1>5. tests' = [tests EXCEPT ![p] = u]
  BY <1>1, <1>2, <1>3 DEF Loaded
<1>6. /\ u \in TestState /\ u.pc = v /\ u.whole = w /\ u.kind = tests[p].kind /\ u.plan = tests[p].plan
      /\ u.got = tests[p].got /\ u.failed = tests[p].failed /\ u.crowded = tests[p].crowded
  BY <1>1, <1>2, <1>3, <1>4 DEF TestState
<1>7. tests[p].got = tests[p].plan
  <2>1. \A c \in Colls : tests[p].plan[c] = tests[p].got[c] \cup Merged({})[c]
    BY <1>4 DEF TestRunKept
  <2>2. \A c \in Colls : Merged({})[c] = {}
    BY DEF Merged
  <2>3. tests[p].got \in [Colls -> SUBSET DocIds] /\ tests[p].plan \in [Colls -> SUBSET DocIds]
    BY <1>4 DEF TestState, Documents
  <2>4. \A c \in Colls : tests[p].plan[c] = tests[p].got[c]
    BY <2>1, <2>2
  <2> QED
    BY <2>3, <2>4
<1>8. TestRunKept(u)
  BY <1>1, <1>2, <1>4, <1>6, <1>7 DEF TestRunKept, Planned
<1>9. tests'[p] = u
  BY <1>5, RestoreFields DEF RestoreInv
<1>10. OnScratch(p)' <=> OnScratch(p)
  BY <1>2, <1>4, <1>6, <1>9 DEF OnScratch
<1> QED
  BY <1>4, <1>5, <1>6, <1>8, <1>10, TestMoves, TestQuiet

LEMMA CountRestoredKeeps ==
    ASSUME RestoreInv, NEW p \in TestServers, CountRestored(p)
    PROVE  RestoreInv'
<1>1. tests[p] \in TestState /\ TestRunKept(tests[p]) /\ tests[p].pc = "count"
      /\ UNCHANGED <<liveDb, wiped, archive, testJobs, scratch, outcome, rebuild, used>>
  BY TestQuiet DEF CountRestored
<1>2. CASE CountsMatch(p)
  <2>1. PICK u : u = [tests[p] EXCEPT !.pc = "compare"]
    OBVIOUS
  <2>2. tests' = [tests EXCEPT ![p] = u]
    BY <1>2, <2>1 DEF CountRestored
  <2>3. /\ u \in TestState /\ u.pc = "compare" /\ u.kind = tests[p].kind /\ u.plan = tests[p].plan
        /\ u.got = tests[p].got /\ u.failed = tests[p].failed /\ u.crowded = tests[p].crowded
    BY <1>1, <2>1 DEF TestState
  <2>4. TestRunKept(u)
    BY <1>1, <2>3 DEF TestRunKept, Planned
  <2>5. tests'[p] = u
    BY <2>2, RestoreFields DEF RestoreInv
  <2>6. OnScratch(p)' <=> OnScratch(p)
    BY <1>1, <2>3, <2>5 DEF OnScratch
  <2> QED
    BY <1>1, <2>2, <2>3, <2>4, <2>6, TestMoves, TestQuiet
<1>3. CASE ~CountsMatch(p)
  <2>1. PICK u : u = [tests[p] EXCEPT !.pc = "cleanup", !.failed = TRUE]
    OBVIOUS
  <2>2. tests' = [tests EXCEPT ![p] = u]
    BY <1>3, <2>1 DEF CountRestored
  <2>3. /\ u \in TestState /\ u.pc = "cleanup" /\ u.kind = tests[p].kind /\ u.failed
        /\ u.crowded = tests[p].crowded
    BY <1>1, <2>1 DEF TestState
  <2>4. tests[p].crowded
    BY <1>1, <1>3 DEF TestRunKept, Planned, CountsMatch
  <2>5. TestRunKept(u)
    BY <2>3, <2>4 DEF TestRunKept, Planned, Complaint
  <2>6. tests'[p] = u
    BY <2>2, RestoreFields DEF RestoreInv
  <2>7. OnScratch(p)' <=> OnScratch(p)
    BY <1>1, <2>3, <2>6 DEF OnScratch
  <2> QED
    BY <1>1, <2>2, <2>3, <2>5, <2>7, TestMoves, TestQuiet
<1> QED
  BY <1>2, <1>3

\* A seal without its ballot, or a ballot the live database lacks: the ballot was deleted since.
LEMMA CompareIdsKeeps ==
    ASSUME RestoreInv, NEW p \in TestServers, CompareIds(p)
    PROVE  RestoreInv'
<1>1. PICK b \in BOOLEAN : b = (~ChainValid(scratch) \/ MissingFromLive(p) # {})
  OBVIOUS
<1>2. PICK w \in BOOLEAN : w = (scratch = tests[p].plan)
  OBVIOUS
<1>3. PICK u : u = [tests[p] EXCEPT !.pc = "cleanup", !.failed = b, !.whole = w]
  OBVIOUS
<1>4. tests[p] \in TestState /\ TestRunKept(tests[p]) /\ tests[p].pc = "compare"
      /\ UNCHANGED <<liveDb, wiped, archive, testJobs, scratch, outcome, rebuild, used>>
  BY TestQuiet DEF CompareIds
<1>5. tests' = [tests EXCEPT ![p] = u]
  BY <1>1, <1>2, <1>3 DEF CompareIds
<1>6. /\ u \in TestState /\ u.pc = "cleanup" /\ u.whole = w /\ u.kind = tests[p].kind
      /\ u.got = tests[p].got /\ u.failed = b /\ u.crowded = tests[p].crowded
  BY <1>1, <1>2, <1>3, <1>4 DEF TestState
<1>7. tests[p].got = tests[p].plan /\ Sealed(tests[p].got) /\ Traced(tests[p].got)
      /\ (scratch = tests[p].got \/ tests[p].crowded)
  BY <1>4 DEF TestRunKept, Planned
<1>8. ASSUME tests[p].crowded
      PROVE  TestRunKept(u)
  BY <1>6, <1>8 DEF TestRunKept, Planned, Complaint
<1>9. ASSUME ~tests[p].crowded
      PROVE  TestRunKept(u)
  <2>1. scratch = tests[p].got /\ w
    BY <1>2, <1>7, <1>9
  <2>2. b => (tests[p].got["ballots"] \cup tests[p].got["checkpoints"]) \cap wiped # {}
    <3>1. ~ChainValid(tests[p].got) => tests[p].got["checkpoints"] \cap wiped # {}
      BY <1>7 DEF ChainValid, Sealed
    <3>2. MissingFromLive(p) # {} => tests[p].got["ballots"] \cap wiped # {}
      BY <1>7 DEF MissingFromLive, Traced
    <3> QED
      BY <1>1, <2>1, <3>1, <3>2
  <2> QED
    BY <1>6, <2>1, <2>2 DEF TestRunKept, Planned, Complaint
<1>10. TestRunKept(u)
  BY <1>8, <1>9
<1>11. tests'[p] = u
  BY <1>5, RestoreFields DEF RestoreInv
<1>12. OnScratch(p)' <=> OnScratch(p)
  BY <1>4, <1>6, <1>11 DEF OnScratch
<1> QED
  BY <1>4, <1>5, <1>6, <1>10, <1>12, TestMoves, TestQuiet

\* The others on the scratch cluster learn that it is shared.
LEMMA FlushScratchKeeps ==
    ASSUME RestoreInv, NEW p \in TestServers, FlushScratch(p)
    PROVE  RestoreInv'
<1> DEFINE others == {q \in TestServers \ {p} : OnScratch(q)}
<1>1. PICK T : T = others
  OBVIOUS
<1>2. PICK b \in BOOLEAN : b = (T # {})
  OBVIOUS
<1>3. \A q \in TestServers : tests[q] \in TestState /\ TestRunKept(tests[q])
  BY TestQuiet
<1>4. /\ tests[p].pc = "guards" /\ scratch' = Empty
      /\ UNCHANGED <<liveDb, wiped, archive, testJobs, outcome, rebuild, used>>
      /\ tests' = [q \in TestServers |->
                     CASE q = p -> [tests[q] EXCEPT !.pc = "plan", !.crowded = b]
                       [] q \in T -> [tests[q] EXCEPT !.crowded = TRUE]
                       [] OTHER -> tests[q]]
  BY <1>1, <1>2 DEF FlushScratch
<1>5. p \notin T /\ T \subseteq TestServers /\ \A q \in TestServers \ {p} : q \in T <=> OnScratch(q)
  BY <1>1
<1> HIDE DEF others
<1>6. /\ tests'[p] = [tests[p] EXCEPT !.pc = "plan", !.crowded = b]
      /\ \A q \in T : tests'[q] = [tests[q] EXCEPT !.crowded = TRUE]
      /\ \A q \in TestServers \ T : q # p => tests'[q] = tests[q]
  BY <1>4, <1>5
<1>7. ASSUME NEW q \in TestServers
      PROVE  /\ tests'[q] \in TestState
             /\ q # p => tests'[q].pc = tests[q].pc
             /\ tests'[q].kind = tests[q].kind /\ tests'[q].got = tests[q].got
             /\ tests'[q].todo = tests[q].todo /\ tests'[q].plan = tests[q].plan
             /\ tests'[q].failed = tests[q].failed /\ tests'[q].unread = tests[q].unread
             /\ tests'[q].whole = tests[q].whole
             /\ (tests'[q].crowded <=> IF q = p THEN b ELSE q \in T \/ tests[q].crowded)
  <2>1. PICK t \in TestState : t = tests[q]
    BY <1>3
  <2>2. CASE q = p
    BY <1>2, <1>6, <2>1, <2>2 DEF TestState
  <2>3. CASE q \in T
    <3>1. tests'[q] = [t EXCEPT !.crowded = TRUE]
      BY <1>6, <2>1, <2>3
    <3>2. q # p
      BY <1>5, <2>3
    <3> QED
      BY <2>1, <2>3, <3>1, <3>2 DEF TestState
  <2>4. CASE q # p /\ q \notin T
    BY <1>3, <1>6, <2>4 DEF TestState
  <2> QED
    BY <1>5, <2>2, <2>3, <2>4
<1>8. tests'[p].pc = "plan" /\ tests'[p].kind = "test" /\ tests'[p].got = Empty /\ ~tests'[p].failed
  <2>1. PICK t \in TestState : t = tests[p]
    BY <1>3
  <2>2. tests'[p].pc = "plan"
    BY <1>6, <2>1 DEF TestState
  <2> QED
    BY <1>3, <1>4, <1>7, <2>2 DEF TestRunKept
<1>9. tests' \in [TestServers -> TestState]
  BY <1>4, <1>7
<1>10. RestoreTypeOK'
  BY <1>4, <1>9, RestoreFields DEF RestoreInv, RestoreTypeOK, TestState
<1>11. ASSUME NEW q \in TestServers
       PROVE  OnScratch(q)' <=> (q = p \/ OnScratch(q))
  BY <1>7, <1>8 DEF OnScratch
<1>12. Crowding'
  <2>1. SUFFICES ASSUME NEW q \in TestServers, NEW r \in TestServers, OnScratch(q)', OnScratch(r)', q # r
                 PROVE  tests'[q].crowded
    BY DEF Crowding
  <2>2. CASE q = p
    BY <1>2, <1>5, <1>7, <1>11, <2>1, <2>2
  <2>3. CASE q # p
    BY <1>5, <1>7, <1>11, <2>1, <2>3
  <2> QED
    BY <2>2, <2>3
<1>13. ASSUME NEW q \in TestServers
       PROVE  TestRunKept(tests[q])'
  <2>1. Sealed(tests[q].plan)' <=> Sealed(tests[q].plan)
    BY <1>4, <1>7 DEF Sealed
  <2>2. Traced(tests[q].plan)' <=> Traced(tests[q].plan)
    BY <1>4, <1>7 DEF Traced
  <2>3. Rotten' <=> Rotten
    BY <1>4 DEF Rotten
  <2>4. CASE q = p
    BY <1>4, <1>8, <2>4 DEF TestRunKept, Planned
  <2>5. CASE q # p
    <3>1. q \in T => tests'[q].crowded
      BY <1>7, <2>5
    <3>2. Planned(tests[q]) \/ tests[q].pc = "plan" => tests[q].kind # "test" \/ q \in T
      BY <1>5, <2>5 DEF Planned, OnScratch
    <3>3. Complaint(tests[q]) => Complaint(tests[q])'
      BY <1>4, <1>7, <2>3, <2>5 DEF Complaint
    <3>4. Planned(tests[q])' <=> Planned(tests[q])
      BY <1>7, <2>5 DEF Planned
    <3>5. PICK t : t = tests'[q]
      OBVIOUS
    <3>6. TestRunKept(tests[q])
      BY <1>3
    <3>7. /\ t.pc = tests[q].pc /\ t.kind = tests[q].kind /\ t.got = tests[q].got /\ t.todo = tests[q].todo
          /\ t.plan = tests[q].plan /\ t.failed = tests[q].failed /\ t.whole = tests[q].whole
          /\ (tests[q].crowded => t.crowded) /\ (q \in T => t.crowded)
      BY <1>7, <2>5, <3>5
    <3>8. t.pc = "load" => /\ \A c \in Colls : t.plan[c] = t.got[c] \cup Merged(t.todo)[c]
                           /\ \A f \in t.todo : f.sound \/ Rotten'
      BY <2>3, <3>6, <3>7 DEF TestRunKept
    <3>9. Planned(t) => Sealed(t.plan)' /\ Traced(t.plan)'
      BY <2>1, <2>2, <3>5, <3>6, <3>7 DEF TestRunKept, Planned
    <3>10. t.kind = "test" /\ (t.pc = "plan" \/ Planned(t)) => t.crowded
      BY <3>2, <3>7 DEF Planned
    <3>11. t.pc = "cleanup" => IF t.failed THEN Complaint(t)' ELSE t.whole \/ t.crowded
      BY <3>3, <3>5, <3>6, <3>7 DEF TestRunKept
    <3>12. /\ t.pc # "cleanup" => ~t.failed
           /\ t.pc \in {"guards", "count", "compare"} => t.kind = "test"
           /\ t.pc \in {"idle", "asked", "guards", "plan"} => t.got = Empty
           /\ t.pc \in {"count", "compare"} => t.got = t.plan
      BY <3>6, <3>7 DEF TestRunKept
    <3>13. TestRunKept(t)'
      BY <3>8, <3>9, <3>10, <3>11, <3>12 DEF TestRunKept, Planned, Merged
    <3> QED
      BY <3>5, <3>13 DEF TestRunKept, Planned, Merged, Complaint, Rotten, Sealed, Traced
  <2> QED
    BY <2>4, <2>5
<1>14. RestoreSound'
  BY <1>4, <1>11 DEF RestoreInv, RestoreSound, PassedIsWhole, NoFalseAlarm, NothingLeftBehind
<1>15. BackupsTraced' /\ Sealed(liveDb)' /\ Sealed(rebuild.got)' /\ Traced(rebuild.got)'
  BY <1>4 DEF RestoreInv, BackupsTraced, Sealed, Traced
<1> QED
  BY <1>4, <1>10, <1>12, <1>13, <1>14, <1>15 DEF RestoreInv

\* A test that leaves, or writes: what is on the scratch cluster is no longer what another may count on.
LEMMA ScratchMoves ==
    ASSUME RestoreInv, NEW p \in TestServers, NEW u \in TestState, TestRunKept(u)',
           tests' = [tests EXCEPT ![p] = u], OnScratch(p)' => OnScratch(p) /\ u.crowded = tests[p].crowded,
           scratch' \in Documents, scratch' = scratch \/ OnScratch(p),
           testJobs' \subseteq TestServers \X ArchiveKinds,
           outcome' \in [said : {"none", "passed", "failed"}, kind : ArchiveKinds, whole : BOOLEAN,
                         cause : BOOLEAN],
           used' \in [{"tests", "reboots", "mishaps"} -> Nat], RestoreSound',
           UNCHANGED <<liveDb, wiped, archive, rebuild>>
    PROVE  RestoreInv'
<1>1. tests \in [TestServers -> TestState]
  BY RestoreFields DEF RestoreInv
<1>2. tests' \in [TestServers -> TestState]
      /\ \A q \in TestServers : tests'[q] = IF q = p THEN u ELSE tests[q]
  BY <1>1
<1>3. RestoreTypeOK'
  BY <1>2 DEF RestoreInv, RestoreTypeOK, TestState
<1>4. ASSUME NEW q \in TestServers
      PROVE  TestRunKept(tests[q])'
  <2>1. CASE q = p
    <3>1. tests'[q] = u
      BY <1>2, <2>1
    <3> QED
      BY <3>1 DEF TestRunKept, Complaint, Rotten, Sealed, Traced, Planned, Merged
  <2>2. CASE q # p
    <3>1. PICK t : t = tests[q]
      OBVIOUS
    <3>2. tests'[q] = t /\ TestRunKept(t)
      BY <1>2, <2>2, <3>1 DEF RestoreInv
    <3>3. t.kind = "test" /\ (t.pc = "plan" \/ Planned(t)) => scratch' = scratch \/ t.crowded
      BY <2>2, <3>1 DEF RestoreInv, Crowding, OnScratch, Planned
    <3> QED
      BY <3>2, <3>3 DEF TestRunKept, Complaint, Rotten, Sealed, Traced, Planned, Merged
  <2> QED
    BY <2>1, <2>2
<1>5. Crowding'
  <2>1. \A q \in TestServers : OnScratch(q)' => OnScratch(q) /\ tests'[q].crowded = tests[q].crowded
    BY <1>2 DEF OnScratch
  <2> QED
    BY <2>1 DEF RestoreInv, Crowding
<1>6. BackupsTraced' /\ Sealed(liveDb)' /\ Sealed(rebuild.got)' /\ Traced(rebuild.got)'
  BY DEF RestoreInv, BackupsTraced, Sealed, Traced
<1> QED
  BY <1>3, <1>4, <1>5, <1>6 DEF RestoreInv

LEMMA CleanUpKeeps ==
    ASSUME RestoreInv, NEW p \in TestServers, CleanUp(p)
    PROVE  RestoreInv'
<1>1. tests[p] \in TestState /\ TestRunKept(tests[p]) /\ tests[p].pc = "cleanup"
  BY TestQuiet DEF CleanUp
<1>2. PICK b \in BOOLEAN : b = (tests[p].whole \/ tests[p].crowded)
  OBVIOUS
<1>3. PICK c \in BOOLEAN : c = Cause(p)
  BY DEF Cause
<1>4. PICK v : v = IF tests[p].failed THEN "failed" ELSE "passed"
  OBVIOUS
<1>5. /\ scratch' = (IF tests[p].kind = "test" THEN Empty ELSE scratch)
      /\ outcome' = [said |-> v, kind |-> tests[p].kind, whole |-> b, cause |-> c]
      /\ tests' = [tests EXCEPT ![p] = NoRestoreTest]
      /\ testJobs' \subseteq testJobs
      /\ UNCHANGED <<liveDb, wiped, archive, rebuild, used>>
  BY <1>2, <1>3, <1>4 DEF CleanUp, LeftClean
<1>6. outcome' \in [said : {"none", "passed", "failed"}, kind : ArchiveKinds, whole : BOOLEAN,
                    cause : BOOLEAN]
  BY <1>1, <1>4, <1>5 DEF TestState
<1>7. PassedIsWhole'
  BY <1>1, <1>2, <1>4, <1>5 DEF PassedIsWhole, TestRunKept
<1>8. NoFalseAlarm'
  <2>1. Complaint(tests[p]) => c
    BY <1>3 DEF Complaint, Rotten, Cause
  <2> QED
    BY <1>1, <1>4, <1>5, <2>1 DEF NoFalseAlarm, TestRunKept
<1>9. \A q \in TestServers : tests'[q] = IF q = p THEN NoRestoreTest ELSE tests[q]
  BY <1>5, RestoreFields DEF RestoreInv
<1>10. ~OnScratch(p)' /\ (tests[p].kind = "test" => OnScratch(p))
  BY <1>1, <1>9 DEF OnScratch, NoRestoreTest
<1>11. NothingLeftBehind'
  <2>1. CASE tests[p].kind = "test"
    BY <1>5, <2>1 DEF NothingLeftBehind
  <2>2. CASE tests[p].kind # "test"
    <3>1. \A q \in TestServers : OnScratch(q) => OnScratch(q)'
      BY <1>9, <2>2 DEF OnScratch
    <3> QED
      BY <1>5, <2>2, <3>1 DEF RestoreInv, RestoreSound, NothingLeftBehind
  <2> QED
    BY <2>1, <2>2
<1>12. TestRunKept(NoRestoreTest)'
  BY DEF TestRunKept, NoRestoreTest, Planned
<1>13. scratch' \in Documents /\ (scratch' = scratch \/ OnScratch(p))
  BY <1>5, <1>10, RestoreFields DEF RestoreInv
<1>14. NoRestoreTest \in TestState /\ testJobs' \subseteq TestServers \X ArchiveKinds
       /\ used' \in [{"tests", "reboots", "mishaps"} -> Nat]
  BY <1>5, RestoreFields, TestQuiet DEF RestoreInv
<1>15. RestoreSound' /\ UNCHANGED <<liveDb, wiped, archive, rebuild>>
  BY <1>5, <1>7, <1>8, <1>11 DEF RestoreSound
<1> QED
  BY <1>5, <1>6, <1>10, <1>12, <1>13, <1>14, <1>15, ScratchMoves

LEMMA RebootKeeps ==
    ASSUME RestoreInv, NEW p \in TestServers, Reboot(p)
    PROVE  RestoreInv'
<1>1. /\ tests' = [tests EXCEPT ![p] = NoRestoreTest] /\ testJobs' = {}
      /\ used' = [used EXCEPT !.mishaps = @ + 1, !.reboots = @ + 1]
      /\ UNCHANGED <<liveDb, wiped, archive, scratch, outcome, rebuild>>
  BY DEF Reboot
<1>2. used' \in [{"tests", "reboots", "mishaps"} -> Nat] /\ used'.reboots = used.reboots + 1
      /\ used.reboots \in Nat
  <2>1. used \in [{"tests", "reboots", "mishaps"} -> Nat]
    BY TestQuiet
  <2>2. used' = [x \in {"tests", "reboots", "mishaps"} |-> IF x = "tests" THEN used[x] ELSE used[x] + 1]
    BY <1>1, <2>1
  <2> QED
    BY <2>1, <2>2
<1>3. used'.reboots # 0
  BY <1>2
<1>4. RestoreSound'
  BY <1>1, <1>3 DEF RestoreInv, RestoreSound, PassedIsWhole, NoFalseAlarm, NothingLeftBehind
<1>5. ~OnScratch(p)'
  BY <1>1, RestoreFields DEF RestoreInv, OnScratch, NoRestoreTest
<1>6. TestRunKept(NoRestoreTest)'
  BY DEF TestRunKept, NoRestoreTest, Planned
<1>7. NoRestoreTest \in TestState /\ scratch' \in Documents /\ testJobs' \subseteq TestServers \X ArchiveKinds
      /\ outcome' \in [said : {"none", "passed", "failed"}, kind : ArchiveKinds, whole : BOOLEAN,
                       cause : BOOLEAN]
  BY <1>1, RestoreFields, TestQuiet DEF RestoreInv
<1> QED
  BY <1>1, <1>2, <1>4, <1>5, <1>6, <1>7, ScratchMoves

LEMMA LoadKeeps ==
    ASSUME RestoreInv, NEW p \in TestServers, Load(p)
    PROVE  RestoreInv'
<1>1. PICK f \in tests[p].todo :
        /\ tests' = [tests EXCEPT ![p] = IF f.sound THEN GoodFile(p, f) ELSE BadFile(p)]
        /\ scratch' = IF f.sound /\ tests[p].kind = "test"
                        THEN [scratch EXCEPT ![f.coll] = Cleared(p, f) \cup f.ids] ELSE scratch
  BY DEF Load
<1>2. tests[p] \in TestState /\ TestRunKept(tests[p]) /\ tests[p].pc = "load"
      /\ UNCHANGED <<liveDb, wiped, archive, testJobs, outcome, rebuild, used>>
  BY TestQuiet DEF Load
<1>3. f \in File /\ f.coll \in Colls /\ f.ids \subseteq DocIds /\ tests[p].got \in [Colls -> SUBSET DocIds]
  <2>1. tests[p].todo \subseteq File /\ tests[p].got \in Documents
    BY <1>2 DEF TestState
  <2> QED
    BY <1>1, <2>1 DEF File, Documents
<1>4. scratch \in [Colls -> SUBSET DocIds]
  BY RestoreFields DEF RestoreInv, Documents
<1>5. CASE ~f.sound
  <2>1. PICK u : u = [tests[p] EXCEPT !.pc = "cleanup", !.failed = TRUE]
    OBVIOUS
  <2>2. tests' = [tests EXCEPT ![p] = u] /\ scratch' = scratch
    BY <1>1, <1>5, <2>1 DEF BadFile
  <2>3. /\ u \in TestState /\ u.pc = "cleanup" /\ u.kind = tests[p].kind /\ u.failed
        /\ u.crowded = tests[p].crowded
    BY <1>2, <2>1 DEF TestState
  <2>4. Rotten
    BY <1>1, <1>2, <1>5 DEF TestRunKept
  <2>5. TestRunKept(u)
    BY <2>3, <2>4 DEF TestRunKept, Planned, Complaint
  <2>6. tests'[p] = u
    BY <2>2, RestoreFields DEF RestoreInv
  <2>7. OnScratch(p)' <=> OnScratch(p)
    BY <1>2, <2>3, <2>6 DEF OnScratch
  <2> QED
    BY <1>2, <2>2, <2>3, <2>5, <2>7, TestMoves, TestQuiet
<1>6. CASE f.sound
  <2>1. PICK S : S = tests[p].todo \ {f}
    OBVIOUS
  <2>2. PICK d : d = [tests[p].got EXCEPT ![f.coll] = @ \cup f.ids]
    OBVIOUS
  <2>3. PICK u : u = [tests[p] EXCEPT !.todo = S, !.got = d]
    OBVIOUS
  <2>4. tests' = [tests EXCEPT ![p] = u]
    <3>1. Joined(tests[p].got, f) = d
      BY <2>2 DEF Joined
    <3>2. GoodFile(p, f) = u
      BY <2>1, <2>3, <3>1 DEF GoodFile
    <3> QED
      BY <1>1, <1>6, <3>2
  <2>5. d \in [Colls -> SUBSET DocIds]
        /\ \A c \in Colls : d[c] = IF c = f.coll THEN tests[p].got[c] \cup f.ids ELSE tests[p].got[c]
    BY <1>3, <2>2
  <2>6. /\ u \in TestState /\ u.pc = "load" /\ u.kind = tests[p].kind /\ u.todo = S /\ u.got = d
        /\ u.plan = tests[p].plan /\ u.failed = tests[p].failed /\ u.crowded = tests[p].crowded
    BY <1>2, <2>1, <2>3, <2>5 DEF TestState, Documents
  <2>7. \A c \in Colls : u.plan[c] = u.got[c] \cup Merged(u.todo)[c]
    <3>1. \A c \in Colls : tests[p].plan[c] = tests[p].got[c] \cup Merged(tests[p].todo)[c]
      BY <1>2 DEF TestRunKept
    <3>2. ASSUME NEW c \in Colls
          PROVE  Merged(tests[p].todo)[c] = Merged(S)[c] \cup (IF c = f.coll THEN f.ids ELSE {})
      BY <1>1, <2>1 DEF Merged
    <3> QED
      BY <2>5, <2>6, <3>1, <3>2
  <2>8. /\ scratch' \in Documents
        /\ tests[p].kind = "test" => scratch' = d \/ tests[p].crowded
        /\ tests[p].kind # "test" => scratch' = scratch
    <3>1. CASE tests[p].kind # "test"
      BY <1>1, <1>4, <3>1 DEF Documents
    <3>2. CASE tests[p].kind = "test"
      <4>1. scratch' = [scratch EXCEPT ![f.coll] = Cleared(p, f) \cup f.ids]
        BY <1>1, <1>6, <3>2
      <4>2. Cleared(p, f) \subseteq DocIds
        BY <1>3, <1>4 DEF Cleared
      <4>3. scratch' \in [Colls -> SUBSET DocIds]
            /\ \A c \in Colls : scratch'[c] = IF c = f.coll THEN Cleared(p, f) \cup f.ids ELSE scratch[c]
        BY <1>3, <1>4, <4>1, <4>2
      <4>4. scratch = tests[p].got \/ tests[p].crowded
        BY <1>2, <3>2 DEF TestRunKept, Planned
      <4>5. scratch = tests[p].got => Cleared(p, f) = tests[p].got[f.coll]
        BY DEF Cleared
      <4>6. scratch = tests[p].got => \A c \in Colls : scratch'[c] = d[c]
        BY <2>5, <4>3, <4>5
      <4> QED
        BY <2>5, <3>2, <4>3, <4>4, <4>6 DEF Documents
    <3> QED
      BY <3>1, <3>2
  <2>9. TestRunKept(u)'
    <3>1. Sealed(u.plan)' /\ Traced(u.plan)'
      BY <1>2, <2>6 DEF TestRunKept, Planned, Sealed, Traced
    <3>2. \A g \in u.todo : g.sound \/ Rotten'
      BY <1>2, <2>1, <2>6 DEF TestRunKept, Rotten
    <3>3. ~u.failed
      BY <1>2, <2>6 DEF TestRunKept
    <3> QED
      BY <2>6, <2>7, <2>8, <3>1, <3>2, <3>3 DEF TestRunKept, Planned, Merged
  <2>10. tests'[p] = u
    BY <2>4, RestoreFields DEF RestoreInv
  <2>11. (OnScratch(p)' <=> OnScratch(p)) /\ (tests[p].kind = "test" => OnScratch(p))
    BY <1>2, <2>6, <2>10 DEF OnScratch
  <2>12. NothingLeftBehind'
    <3>1. CASE tests[p].kind = "test"
      BY <2>11, <3>1 DEF NothingLeftBehind
    <3>2. CASE tests[p].kind # "test"
      <4>1. \A q \in TestServers : OnScratch(q) => OnScratch(q)'
        BY <2>4, <2>11, RestoreFields DEF RestoreInv, OnScratch
      <4> QED
        BY <1>2, <2>8, <3>2, <4>1 DEF RestoreInv, RestoreSound, NothingLeftBehind
    <3> QED
      BY <3>1, <3>2
  <2>13. RestoreSound'
    BY <1>2, <2>12 DEF RestoreInv, RestoreSound, PassedIsWhole, NoFalseAlarm
  <2>14. scratch' = scratch \/ OnScratch(p)
    BY <2>8, <2>11
  <2>15. /\ testJobs' \subseteq TestServers \X ArchiveKinds
         /\ outcome' \in [said : {"none", "passed", "failed"}, kind : ArchiveKinds, whole : BOOLEAN,
                          cause : BOOLEAN]
         /\ used' \in [{"tests", "reboots", "mishaps"} -> Nat]
    BY <1>2, TestQuiet
  <2> QED
    BY <1>2, <2>4, <2>6, <2>8, <2>9, <2>11, <2>13, <2>14, <2>15, ScratchMoves
<1> QED
  BY <1>5, <1>6

LEMMA RestoreStart == RestoreInit => RestoreInv
<1> SUFFICES ASSUME RestoreInit
             PROVE  RestoreInv
  OBVIOUS
<1>1. /\ liveDb = Empty /\ wiped = {} /\ archive = {} /\ testJobs = {} /\ scratch = Empty
      /\ tests = [p \in TestServers |-> NoRestoreTest] /\ outcome = NoOutcome /\ rebuild = NoRebuild
      /\ used = [tests |-> 0, reboots |-> 0, mishaps |-> 0]
  BY DEF RestoreInit
<1>2. Empty \in Documents /\ Empty["ballots"] = {} /\ Empty["checkpoints"] = {}
  BY DEF Empty, Documents, Colls
<1>3. NoRestoreTest \in TestState
  BY <1>2 DEF NoRestoreTest, TestState, ArchiveKinds
<1>4. used \in [{"tests", "reboots", "mishaps"} -> Nat]
  BY <1>1
<1>5. /\ outcome \in [said : {"none", "passed", "failed"}, kind : ArchiveKinds, whole : BOOLEAN,
                      cause : BOOLEAN]
      /\ rebuild \in [pc : {"idle", "write", "confirmed", "mismatch"}, got : Documents, todo : SUBSET Colls,
                      replace : BOOLEAN]
      /\ rebuild.got = Empty
  BY <1>1, <1>2 DEF NoOutcome, NoRebuild, ArchiveKinds
<1>6. RestoreTypeOK
  BY <1>1, <1>2, <1>3, <1>4, <1>5 DEF RestoreTypeOK, TestState
<1>7. \A p \in TestServers : tests[p] = NoRestoreTest /\ ~OnScratch(p)
  BY <1>1 DEF OnScratch, NoRestoreTest
<1>8. TestRunKept(NoRestoreTest)
  BY DEF TestRunKept, NoRestoreTest, Planned
<1>9. RestoreSound
  BY <1>1 DEF RestoreSound, PassedIsWhole, NoFalseAlarm, NothingLeftBehind, NoOutcome
<1>10. IsFiniteSet(archive)
  BY <1>1, FS_EmptySet
<1>11. Sealed(liveDb) /\ BackupsTraced /\ Sealed(rebuild.got) /\ Traced(rebuild.got)
  BY <1>1, <1>2, <1>5 DEF Sealed, Traced, BackupsTraced
<1> QED
  BY <1>6, <1>7, <1>8, <1>9, <1>10, <1>11 DEF RestoreInv, Crowding

LEMMA RestoreStep == RestoreInv /\ [RestoreNext]_restoreVars => RestoreInv'
<1> SUFFICES ASSUME RestoreInv, [RestoreNext]_restoreVars
             PROVE  RestoreInv'
  OBVIOUS
<1>1. CASE UNCHANGED restoreVars
  <2>1. Rotten => Rotten'
    BY <1>1 DEF restoreVars, Rotten
  <2>2. RestoreTypeOK' /\ Sealed(liveDb)'
    BY <1>1 DEF restoreVars, RestoreInv, RestoreTypeOK, Sealed
  <2> QED
    BY <1>1, <2>1, <2>2, ElectionMoves DEF restoreVars, RestoreInv
<1>2. CASE Seal \/ Wipe \/ ConfirmRebuild
  BY <1>2, SealOnKeeps, WipeOnKeeps, ConfirmRebuildKeeps
<1>3. ASSUME NEW b \in DocIds, Cast(b)
      PROVE  RestoreInv'
  BY <1>3, CastOnKeeps
<1>4. ASSUME NEW kind \in {"full", "incr"}, StartUpload(kind)
      PROVE  RestoreInv'
  BY <1>4, StartUploadKeeps
<1>5. ASSUME NEW a \in archive, FinishUpload(a) \/ Rot(a)
      PROVE  RestoreInv'
  BY <1>5, ArchiveKeeps
<1>6. ASSUME NEW p \in TestServers, NEW kind \in ArchiveKinds, AskJob(p, kind)
      PROVE  RestoreInv'
  BY <1>6, AskJobKeeps
<1>7. ASSUME NEW p \in TestServers,
             RecordJob(p) \/ Skip(p) \/ FlushScratch(p) \/ ReadPlan(p) \/ Load(p) \/ Loaded(p)
             \/ CountRestored(p) \/ CompareIds(p) \/ CleanUp(p) \/ Reboot(p)
      PROVE  RestoreInv'
  BY <1>7, EarlyKeeps, FlushScratchKeeps, ReadPlanKeeps, LoadKeeps, LoadedKeeps, CountRestoredKeeps,
     CompareIdsKeeps, CleanUpKeeps, RebootKeeps
<1>8. ASSUME NEW replace \in BOOLEAN, BeginRebuild(replace)
      PROVE  RestoreInv'
  BY <1>8, BeginRebuildKeeps
<1>9. ASSUME NEW c \in Colls, ClearLive(c) \/ WriteLive(c)
      PROVE  RestoreInv'
  BY <1>9, ClearLiveKeeps, WriteLiveKeeps
<1> QED
  BY <1>1, <1>2, <1>3, <1>4, <1>5, <1>6, <1>7, <1>8, <1>9 DEF RestoreNext

\* Whatever is cast, reset, uploaded or goes bad while tests, checks and the operator's restore run
\* (run_restore_test, _verify_backups, restore_tenant.py): what passes was whole, what fails has a
\* cause, and no votes stay on the scratch cluster.
THEOREM RestoreTestsHold == RestoreSpec => [](RestoreTypeOK /\ RestoreSound)
<1>1. RestoreInv => RestoreTypeOK /\ RestoreSound
  BY DEF RestoreInv
<1> QED
  BY <1>1, RestoreStart, RestoreStep, PTL DEF RestoreSpec

-----------------------------------------------------------------------------
(* The composition: each component takes its own steps, the others rest.       *)

LEMMA EachRuns ==
    Spec => /\ LadderSpec
            /\ CampaignSpec
            /\ BucketSpec
            /\ BudgetSpec
            /\ BackupSpec
            /\ MirrorSpec
            /\ CutoverSpec
            /\ RestoreSpec
            /\ ChainSpec
<1>1. Spec => LadderSpec
  <2>1. Init => LadderInit
    BY DEF Init
  <2>2. [Next]_vars => [LadderNext]_ladderVars
    BY DEF Next, vars
  <2> QED
    BY <2>1, <2>2, PTL DEF Spec, LadderSpec
<1>2. Spec => CampaignSpec
  <2>1. Init => CampaignInit
    BY DEF Init
  <2>2. [Next]_vars => [CampaignNext]_campaignVars
    BY DEF Next, vars
  <2> QED
    BY <2>1, <2>2, PTL DEF Spec, CampaignSpec
<1>3. Spec => BucketSpec
  <2>1. Init => BucketInit
    BY DEF Init
  <2>2. [Next]_vars => [BucketNext]_bucketVars
    BY DEF Next, vars
  <2> QED
    BY <2>1, <2>2, PTL DEF Spec, BucketSpec
<1>4. Spec => BudgetSpec
  <2>1. Init => BudgetInit
    BY DEF Init
  <2>2. [Next]_vars => [BudgetNext]_budgetVars
    BY DEF Next, vars
  <2> QED
    BY <2>1, <2>2, PTL DEF Spec, BudgetSpec
<1>5. Spec => BackupSpec
  <2>1. Init => BackupInit
    BY DEF Init
  <2>2. [Next]_vars => [BackupNext]_backupVars
    BY DEF Next, vars
  <2> QED
    BY <2>1, <2>2, PTL DEF Spec, BackupSpec
<1>6. Spec => MirrorSpec
  <2>1. Init => MirrorInit
    BY DEF Init
  <2>2. [Next]_vars => [MirrorNext]_mirrorVars
    BY DEF Next, vars
  <2> QED
    BY <2>1, <2>2, PTL DEF Spec, MirrorSpec
<1>7. Spec => CutoverSpec
  <2>1. Init => CutoverInit
    BY DEF Init
  <2>2. [Next]_vars => [CutoverNext]_cutoverVars
    BY DEF Next, vars
  <2> QED
    BY <2>1, <2>2, PTL DEF Spec, CutoverSpec
<1>8. Spec => RestoreSpec
  <2>1. Init => RestoreInit
    BY DEF Init
  <2>2. [Next]_vars => [RestoreNext]_restoreVars
    BY DEF Next, vars
  <2> QED
    BY <2>1, <2>2, PTL DEF Spec, RestoreSpec
<1>9. Spec => ChainSpec
  <2>1. Init => ChainInit
    BY DEF Init
  <2>2. [Next]_vars => [ChainNext]_chainVars
    BY DEF Next, vars
  <2> QED
    BY <2>1, <2>2, PTL DEF Spec, ChainSpec
<1> QED
  BY <1>1, <1>2, <1>3, <1>4, <1>5, <1>6, <1>7, <1>8, <1>9

(* The channel of the codes keeps both of its guards, the ladder of sends and *)
(* the bucket of guesses (otp_limits.py, `reserve_send`, `consume_guess`), for *)
(* every ladder and every bucket.                                             *)
THEOREM CodesStayGuarded == Spec => []CodesGuarded
<1>1. LadderTypeOK /\ LadderKept /\ BucketTypeOK /\ BucketNotOverdrawn => CodesGuarded
  BY DEF CodesGuarded
<1> QED
  BY <1>1, EachRuns, LadderHolds, BucketNeverOverdrawn, PTL

\* The copy is what it says it is: the mirror of its source, and the new cluster before it is used.
THEOREM CopiesHold == Spec => []CopiesTrusted
<1>1. MirrorTypeOK /\ MirrorSound /\ CutoverTypeOK /\ ReadyMeansMoved => CopiesTrusted
  BY DEF CopiesTrusted
<1> QED
  BY <1>1, EachRuns, MirrorHolds, CutoverHolds, PTL

(* What is on record as backed up can be restored, and a restore test says so  *)
(* only when it has tried it (backup_tenant, run_restore_test).                *)
THEOREM RestorableAndTested ==
    ASSUME OneScheduler
    PROVE  Spec => []BackupsRestore
<1>1. BackupTypeOK /\ BackupSound /\ RestoreTypeOK /\ RestoreSound => BackupsRestore
  BY DEF BackupsRestore
<1>2. BackupSpec => [](BackupTypeOK /\ BackupSound)
  BY BackupsHold
<1> QED
  BY <1>1, <1>2, EachRuns, RestoreTestsHold, PTL

(* Type correctness of every service behind the election.                      *)
THEOREM ServicesTypeCorrect ==
    ASSUME OneScheduler
    PROVE  Spec => []ServicesTypeOK
<1>1. Spec => [](part \in Parts)
  <2>1. Init => part \in Parts
    BY DEF Init
  <2>2. part \in Parts /\ [Next]_vars => (part \in Parts)'
    BY DEF Next, vars
  <2> QED
    BY <2>1, <2>2, PTL DEF Spec
<1>2. BackupSpec => [](BackupTypeOK /\ BackupSound)
  BY BackupsHold
<1> DEFINE Typed == /\ LadderTypeOK /\ CampaignTypeOK /\ BucketTypeOK /\ BudgetTypeOK /\ BackupTypeOK
                    /\ MirrorTypeOK /\ CutoverTypeOK /\ RestoreTypeOK /\ ChainTypeOK
<1>3. part \in Parts /\ Typed => ServicesTypeOK
  BY DEF Parts, ServicesTypeOK
<1>4. /\ LadderTypeOK /\ LadderKept /\ CampaignTypeOK /\ CampaignSound
      /\ BucketTypeOK /\ BucketNotOverdrawn /\ BudgetTypeOK /\ BudgetKept
      /\ BackupTypeOK /\ BackupSound /\ MirrorTypeOK /\ MirrorSound
      /\ CutoverTypeOK /\ ReadyMeansMoved /\ RestoreTypeOK /\ RestoreSound /\ ChainTypeOK /\ FoundSome
      => Typed
  OBVIOUS
<1> HIDE DEF Typed
<1> QED
  BY <1>1, <1>2, <1>3, <1>4, EachRuns, LadderHolds, CampaignHolds, BucketNeverOverdrawn, BudgetAlwaysKept,
     MirrorHolds, CutoverHolds, RestoreTestsHold, ChainTypeCorrect, PTL

=============================================================================

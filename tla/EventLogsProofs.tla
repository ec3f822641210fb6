--------------------------- MODULE EventLogsProofs ---------------------------
(* Proofs about the attribution of events to programs. *)
EXTENDS EventLogs, SequenceTheorems, TLAPS

\* A prefix keeps its entries.
LEMMA PrefixFacts ==
    ASSUME NEW S, NEW s \in Seq(S), NEW n \in 0 .. Len(s)
    PROVE  /\ SubSeq(s, 1, n) \in Seq(S) /\ Len(SubSeq(s, 1, n)) = n
           /\ \A i \in 1 .. n : SubSeq(s, 1, n)[i] = s[i]
OBVIOUS

\* Pop keeps every entry but the last one.
LEMMA PopFacts ==
    ASSUME NEW S, NEW s \in Seq(S), s # << >>
    PROVE  /\ Len(s) \in Nat \ {0} /\ Top(s) \in S
           /\ Pop(s) \in Seq(S) /\ Len(Pop(s)) = Len(s) - 1
           /\ \A i \in 1 .. Len(s) - 1 : Pop(s)[i] = s[i]
<1>1. Len(s) \in Nat \ {0}
  BY EmptySeq
<1>2. Top(s) \in S
  BY <1>1 DEF Top
<1>3. Len(s) - 1 \in 0 .. Len(s)
  BY <1>1
<1> QED BY <1>1, <1>2, <1>3, PrefixFacts DEF Pop

\* What Append adds and what it keeps.
LEMMA AppendFacts ==
    ASSUME NEW S, NEW s \in Seq(S), NEW e \in S
    PROVE  /\ Append(s, e) \in Seq(S) /\ Len(Append(s, e)) = Len(s) + 1
           /\ Append(s, e)[Len(s) + 1] = e
           /\ \A i \in 1 .. Len(s) : Append(s, e)[i] = s[i]
OBVIOUS

\* The stacks the decoder can have after a line.
LEMMA InvokeType ==
    ASSUME LinesTypeOK, NEW id \in Programs \cup {Label}, NEW depth
    PROVE  /\ AfterInvoke(id, depth) \in Seq(Programs \cup {Label})
           /\ Len(AfterInvoke(id, depth)) <= MaxStackDepth
BY LogAssumption, AppendFacts DEF LinesTypeOK, AfterInvoke

\* Popping a frame leaves a stack of frames.
LEMMA SuccessType ==
    ASSUME LinesTypeOK, NEW id
    PROVE  /\ AfterSuccess(id) \in Seq(Programs \cup {Label})
           /\ Len(AfterSuccess(id)) <= MaxStackDepth
<1>1. CASE stack # << >> /\ Top(stack) = id
  BY <1>1, LogAssumption, PopFacts DEF LinesTypeOK, AfterSuccess
<1>2. CASE ~(stack # << >> /\ Top(stack) = id)
  BY <1>2, LogAssumption DEF LinesTypeOK, AfterSuccess
<1> QED BY <1>1, <1>2

\* No step leaves the types of the stacks, the log and the events.
LEMMA LinesTypeStep == LinesTypeOK /\ [Next]_vars => LinesTypeOK'
<1> SUFFICES ASSUME LinesTypeOK, [Next]_vars PROVE LinesTypeOK'
  OBVIOUS
<1>1. ASSUME NEW len \in FrameLens, NEW p \in Programs, Invoke(p, len)
      PROVE  LinesTypeOK'
  <2>1. /\ AfterInvoke(p, Len(calls) + 1) \in Seq(Programs \cup {Label})
        /\ Len(AfterInvoke(p, Len(calls) + 1)) <= MaxStackDepth
    BY InvokeType
  <2>2. Append(calls, p) \in Seq(Programs) /\ Len(Append(calls, p)) = Len(calls) + 1
    BY AppendFacts DEF LinesTypeOK
  <2> QED BY <1>1, <2>1, <2>2, LogAssumption DEF LinesTypeOK, Invoke, Line
<1>2. ASSUME NEW len \in FrameLens, Return(len) PROVE LinesTypeOK'
  <2>1. /\ AfterSuccess(Top(calls)) \in Seq(Programs \cup {Label})
        /\ Len(AfterSuccess(Top(calls))) <= MaxStackDepth
    BY SuccessType
  <2>2. /\ Pop(calls) \in Seq(Programs) /\ Len(Pop(calls)) = Len(calls) - 1
        /\ Len(calls) \in Nat
    BY <1>2, PopFacts DEF LinesTypeOK, Return
  <2> QED BY <1>2, <2>1, <2>2, LogAssumption DEF LinesTypeOK, Return, Line
<1>3. CASE Emit
  <2>1. Top(calls) \in Programs
    BY <1>3, PopFacts DEF LinesTypeOK, Emit
  <2>2. Append(decoded, Top(calls)) \in Seq(Programs)
    BY <2>1, AppendFacts DEF LinesTypeOK
  <2> QED BY <1>3, <2>2, LogAssumption DEF LinesTypeOK, Emit
<1>4. ASSUME NEW len \in TextLens, Chat(len) PROVE LinesTypeOK'
  BY <1>4, LogAssumption DEF LinesTypeOK, Chat
<1>5. ASSUME NEW len \in TextLens, NEW depth \in 0 .. MaxStackDepth + 1,
             Say(AfterInvoke(Label, depth), len)
      PROVE  LinesTypeOK'
  <2>1. /\ AfterInvoke(Label, depth) \in Seq(Programs \cup {Label})
        /\ Len(AfterInvoke(Label, depth)) <= MaxStackDepth
    BY InvokeType
  <2> QED BY <1>5, <2>1, LogAssumption DEF LinesTypeOK, Say
<1>6. ASSUME NEW len \in TextLens, Say(AfterSuccess(Label), len) PROVE LinesTypeOK'
  BY <1>6, SuccessType, LogAssumption DEF LinesTypeOK, Say
<1>7. CASE UNCHANGED vars
  BY <1>7 DEF LinesTypeOK, vars
<1> QED BY <1>1, <1>2, <1>3, <1>4, <1>5, <1>6, <1>7 DEF Next

\* An empty log has the types.
LEMMA LogTypeInit == Init => LinesTypeOK
<1>1. /\ << >> \in Seq(Programs) /\ << >> \in Seq(Programs \cup {Label})
      /\ Len(<< >>) = 0
  BY EmptySeq
<1> QED BY <1>1, LogAssumption DEF Init, LinesTypeOK

\* The type invariant: no line makes the decoder's stack outgrow its limit.
THEOREM LogTypeCorrect == Spec => []TypeOK
<1>1. Init => LinesTypeOK
  BY LogTypeInit
<1>2. Init => disturbed \in BOOLEAN
  BY Zenon DEF Init
<1>3. disturbed \in BOOLEAN /\ [Next]_vars => (disturbed \in BOOLEAN)'
  BY Zenon DEF Next, vars, Invoke, Return, Line, Emit, Chat, Say
<1> QED BY <1>1, <1>2, <1>3, LinesTypeStep, PTL DEF Spec, TypeOK

-----------------------------------------------------------------------------
\* The log only grows: once no event fits, none fits later.
LEMMA LogGrows == LinesTypeOK /\ [Next]_vars => (Fits(EventLen)' => Fits(EventLen))
<1> SUFFICES ASSUME LinesTypeOK, [Next]_vars PROVE written' \in Nat /\ written' >= written
  BY LogAssumption DEF LinesTypeOK, Fits
<1>1. ASSUME NEW len \in FrameLens, NEW p \in Programs, Invoke(p, len)
      PROVE  written' \in Nat /\ written' >= written
  BY <1>1, LogAssumption DEF LinesTypeOK, Invoke, Line
<1>2. ASSUME NEW len \in FrameLens, Return(len)
      PROVE  written' \in Nat /\ written' >= written
  BY <1>2, LogAssumption DEF LinesTypeOK, Return, Line
<1>3. CASE Emit
  BY <1>3, LogAssumption DEF LinesTypeOK, Emit
<1>4. ASSUME NEW len \in TextLens, NEW next, Chat(len) \/ Say(next, len)
      PROVE  written' \in Nat /\ written' >= written
  BY <1>4, LogAssumption DEF LinesTypeOK, Chat, Say
<1>5. CASE UNCHANGED vars
  BY <1>5 DEF LinesTypeOK, vars
<1> QED BY <1>1, <1>2, <1>3, <1>4, <1>5 DEF Next

\* A line of a frame that is left out leaves no room for an event either.
LEMMA LeftOut ==
    ASSUME LinesTypeOK, NEW len \in FrameLens, Fits(EventLen)
    PROVE  Fits(len)
BY LogAssumption DEF LinesTypeOK, Fits

\* The last frame, if it is a real one, is the program that runs.
LEMMA AlignedTop ==
    ASSUME LinesTypeOK, Aligned, stack # << >>, Top(stack) # Label
    PROVE  calls # << >> /\ Len(stack) = Len(calls) /\ Top(calls) = Top(stack)
<1>1. Len(stack) \in Nat \ {0} /\ Len(stack) \in DOMAIN stack /\ Len(calls) \in Nat
      /\ DOMAIN stack = 1 .. Len(stack) /\ DOMAIN calls = 1 .. Len(calls)
  <2>1. Len(stack) \in Nat \ {0}
    BY PopFacts DEF LinesTypeOK
  <2> QED BY <2>1 DEF LinesTypeOK
<1>2. /\ Len(stack) \in DOMAIN calls /\ stack[Len(stack)] = calls[Len(stack)]
      /\ Len(stack) < Len(calls) => Len(stack) + 1 \in DOMAIN stack
  BY <1>1 DEF Aligned, Top
<1>3. Len(stack) <= Len(calls) /\ ~(Len(stack) + 1 \in DOMAIN stack)
  <2>1. Len(stack) \in 1 .. Len(calls) /\ ~(Len(stack) + 1 \in 1 .. Len(stack))
    BY <1>1, <1>2
  <2> QED BY <2>1, <1>1
<1>4. Len(stack) = Len(calls)
  <2>1. ~(Len(stack) < Len(calls))
    BY <1>2, <1>3, Zenon
  <2>2. Len(stack) \in Nat /\ Len(calls) \in Nat /\ Len(stack) <= Len(calls)
    BY <1>1, <1>3
  <2> QED BY <2>1, <2>2
<1> QED BY <1>1, <1>2, <1>4 DEF Top

\* Aligned survives an invoke line,
LEMMA AlignedInvoke ==
    ASSUME LinesTypeOK, Aligned, NEW p \in Programs,
           stack' = AfterInvoke(p, Len(calls) + 1), calls' = Append(calls, p)
    PROVE  Aligned'
<1>1. CASE stack' = << >>
  BY <1>1 DEF Aligned
<1>2. CASE stack' # << >>
  <2>1. Len(stack) = Len(calls) /\ stack' = Append(stack, p)
    BY <1>2, LogAssumption DEF LinesTypeOK, AfterInvoke
  <2>2. /\ DOMAIN stack = 1 .. Len(stack) /\ Len(stack) \in Nat
        /\ DOMAIN calls = 1 .. Len(calls)
        /\ DOMAIN stack' = 1 .. Len(stack) + 1 /\ DOMAIN calls' = 1 .. Len(stack) + 1
        /\ Len(calls') = Len(stack) + 1
        /\ stack'[Len(stack) + 1] = p /\ calls'[Len(stack) + 1] = p
        /\ \A i \in 1 .. Len(stack) : stack'[i] = stack[i] /\ calls'[i] = calls[i]
    BY <2>1 DEF LinesTypeOK
  <2>3. p # Label
    BY LogAssumption
  <2>4. ASSUME NEW i \in DOMAIN stack', stack'[i] # Label
        PROVE  /\ i \in DOMAIN calls' /\ stack'[i] = calls'[i]
               /\ i < Len(calls') => i + 1 \in DOMAIN stack' /\ stack'[i + 1] # Label
    <3>1. CASE i = Len(stack) + 1
      BY <3>1, <2>2
    <3>2. CASE i = Len(stack)
      BY <3>2, <2>1, <2>2, <2>3, <2>4 DEF Aligned
    <3>3. CASE i < Len(stack)
      <4>1. i \in DOMAIN stack /\ stack[i] # Label /\ i < Len(calls)
        BY <3>3, <2>1, <2>2, <2>4
      <4>2. stack[i] = calls[i] /\ i + 1 \in DOMAIN stack /\ stack[i + 1] # Label
        BY <4>1 DEF Aligned
      <4> QED BY <4>1, <4>2, <2>2
    <3> QED BY <3>1, <3>2, <3>3, <2>2
  <2> QED BY <2>4 DEF Aligned
<1> QED BY <1>1, <1>2

\* a success line,
LEMMA AlignedReturn ==
    ASSUME LinesTypeOK, Aligned, calls # << >>,
           stack' = AfterSuccess(Top(calls)), calls' = Pop(calls)
    PROVE  Aligned'
<1>1. CASE stack' = << >>
  BY <1>1 DEF Aligned
<1>2. CASE stack' # << >>
  <2>1. stack # << >> /\ Top(stack) = Top(calls) /\ stack' = Pop(stack)
    BY <1>2 DEF AfterSuccess
  <2>2. Top(stack) # Label
    BY <2>1, PopFacts, LogAssumption DEF LinesTypeOK
  <2>3. Len(stack) = Len(calls)
    BY <2>1, <2>2, AlignedTop
  <2>4. /\ Len(stack) \in Nat \ {0}
        /\ DOMAIN stack = 1 .. Len(stack) /\ DOMAIN calls = 1 .. Len(stack)
        /\ Pop(stack) \in Seq(Programs \cup {Label}) /\ Len(Pop(stack)) = Len(stack) - 1
        /\ Pop(calls) \in Seq(Programs) /\ Len(Pop(calls)) = Len(stack) - 1
        /\ \A i \in 1 .. Len(stack) - 1 : Pop(stack)[i] = stack[i] /\ Pop(calls)[i] = calls[i]
    BY <2>1, <2>3, PopFacts, SMTT(30) DEF LinesTypeOK
  <2>5. DOMAIN stack' = 1 .. Len(stack) - 1 /\ DOMAIN calls' = 1 .. Len(stack) - 1
    BY <2>1, <2>4
  <2>6. ASSUME NEW i \in DOMAIN stack', stack'[i] # Label
        PROVE  /\ i \in DOMAIN calls' /\ stack'[i] = calls'[i]
               /\ i < Len(calls') => i + 1 \in DOMAIN stack' /\ stack'[i + 1] # Label
    <3>1. i \in DOMAIN stack /\ stack[i] # Label /\ stack'[i] = stack[i] /\ calls'[i] = calls[i]
      BY <2>1, <2>4, <2>5, <2>6
    <3>2. stack[i] = calls[i] /\ (i < Len(calls) => stack[i + 1] # Label)
      BY <3>1 DEF Aligned
    <3> QED BY <3>1, <3>2, <2>1, <2>3, <2>4, <2>5
  <2> QED BY <2>6 DEF Aligned
<1> QED BY <1>1, <1>2

\* a text that looks like an invoke line,
LEMMA AlignedSayInvoke ==
    ASSUME LinesTypeOK, Aligned, NEW depth,
           stack' = AfterInvoke(Label, depth), calls' = calls
    PROVE  Aligned'
<1>1. CASE stack' = << >>
  BY <1>1 DEF Aligned
<1>2. CASE stack' # << >>
  <2>1. stack' = Append(stack, Label)
    BY <1>2 DEF AfterInvoke
  <2>2. /\ Len(stack) \in Nat /\ DOMAIN stack = 1 .. Len(stack)
        /\ DOMAIN stack' = 1 .. Len(stack) + 1 /\ stack'[Len(stack) + 1] = Label
        /\ \A i \in 1 .. Len(stack) : stack'[i] = stack[i]
    BY <2>1 DEF LinesTypeOK
  <2> QED BY <2>2 DEF Aligned
<1> QED BY <1>1, <1>2

\* and one that looks like a success line.
LEMMA AlignedSaySuccess ==
    ASSUME LinesTypeOK, Aligned, stack' = AfterSuccess(Label), calls' = calls
    PROVE  Aligned'
<1>1. CASE stack' = << >>
  BY <1>1 DEF Aligned
<1>2. CASE stack' # << >>
  <2>1. stack # << >> /\ Top(stack) = Label /\ stack' = Pop(stack)
    BY <1>2 DEF AfterSuccess
  <2>2. /\ Len(stack) \in Nat \ {0} /\ DOMAIN stack = 1 .. Len(stack)
        /\ Pop(stack) \in Seq(Programs \cup {Label}) /\ Len(Pop(stack)) = Len(stack) - 1
        /\ \A i \in 1 .. Len(stack) - 1 : Pop(stack)[i] = stack[i]
        /\ stack[Len(stack)] = Label
    BY <2>1, PopFacts DEF LinesTypeOK, Top
  <2>3. DOMAIN stack' = 1 .. Len(stack) - 1
    BY <2>1, <2>2
  <2>4. ASSUME NEW i \in DOMAIN stack', stack'[i] # Label
        PROVE  /\ i \in DOMAIN calls' /\ stack'[i] = calls'[i]
               /\ i < Len(calls') => i + 1 \in DOMAIN stack' /\ stack'[i + 1] # Label
    <3>1. i \in DOMAIN stack /\ stack[i] # Label /\ stack'[i] = stack[i]
      BY <2>1, <2>2, <2>3, <2>4
    <3>2. /\ i \in DOMAIN calls /\ stack[i] = calls[i]
          /\ i < Len(calls) => i + 1 \in DOMAIN stack /\ stack[i + 1] # Label
      BY <3>1 DEF Aligned
    <3> QED BY <3>1, <3>2, <2>1, <2>2, <2>3
  <2> QED BY <2>4 DEF Aligned
<1> QED BY <1>1, <1>2

\* The decoder follows the call stack for as long as an event fits the log.
LEMMA FollowsStep == LinesTypeOK /\ Follows /\ [Next]_vars => Follows'
<1> SUFFICES ASSUME LinesTypeOK, Follows, [Next]_vars, Fits(EventLen)' PROVE Aligned'
  BY DEF Follows
<1>1. Fits(EventLen) /\ Aligned
  BY LogGrows DEF Follows
<1>2. ASSUME NEW len \in FrameLens, NEW p \in Programs, Invoke(p, len) PROVE Aligned'
  BY <1>1, <1>2, LeftOut, AlignedInvoke DEF Invoke, Line
<1>3. ASSUME NEW len \in FrameLens, Return(len) PROVE Aligned'
  BY <1>1, <1>3, LeftOut, AlignedReturn DEF Return, Line
<1>4. CASE Emit
  BY <1>1, <1>4 DEF Emit, Aligned
<1>5. ASSUME NEW len \in TextLens, Chat(len) PROVE Aligned'
  BY <1>1, <1>5 DEF Chat, Aligned
<1>6. ASSUME NEW len \in TextLens, NEW depth \in 0 .. MaxStackDepth + 1,
             Say(AfterInvoke(Label, depth), len)
      PROVE  Aligned'
  BY <1>1, <1>6, AlignedSayInvoke DEF Say
<1>7. ASSUME NEW len \in TextLens, Say(AfterSuccess(Label), len) PROVE Aligned'
  BY <1>1, <1>7, AlignedSaySuccess DEF Say
<1>8. CASE UNCHANGED vars
  BY <1>1, <1>8 DEF vars, Aligned
<1> QED BY <1>2, <1>3, <1>4, <1>5, <1>6, <1>7, <1>8 DEF Next

\* Only an event of the program that runs is decoded.
LEMMA AttributedStep == LinesTypeOK /\ Follows /\ Attributed /\ [Next]_vars => Attributed'
<1> SUFFICES ASSUME LinesTypeOK, Follows, Attributed, [Next]_vars PROVE Attributed'
  OBVIOUS
<1>1. CASE decoded' = decoded
  BY <1>1 DEF Attributed
<1>2. CASE decoded' # decoded
  <2>1. Emit /\ Fits(EventLen) /\ Counts /\ decoded' = Append(decoded, Top(calls))
    BY <1>2 DEF Next, vars, Invoke, Return, Emit, Chat, Say
  <2>2. Top(calls) = AgentBond
    BY <2>1, AlignedTop, LogAssumption DEF Follows, Counts
  <2>3. /\ Len(decoded) \in Nat /\ DOMAIN decoded = 1 .. Len(decoded)
        /\ DOMAIN decoded' = 1 .. Len(decoded) + 1
        /\ decoded'[Len(decoded) + 1] = AgentBond
        /\ \A i \in 1 .. Len(decoded) : decoded'[i] = decoded[i]
    BY <2>1, <2>2, LogAssumption DEF LinesTypeOK
  <2> QED BY <2>3 DEF Attributed
<1> QED BY <1>1, <1>2

\* Every decoded event is one the program itself emitted (Attributed), for any
\* number of programs, any depth of calls, any texts and any limit of the log,
\* provided that a line with an event is at least as long as a frame's line.
THEOREM AttributionCorrect == Spec => []Attributed
<1>1. Init => LinesTypeOK
  BY LogTypeInit
<1>2. Init => Follows /\ Attributed
  BY DEF Init, Follows, Aligned, Attributed
<1> QED BY <1>1, <1>2, LinesTypeStep, FollowsStep, AttributedStep, PTL DEF Spec

\* In step with the call stack, the decoder has every event.
LEMMA InStepStep == LinesTypeOK /\ InStep /\ [Next]_vars => InStep'
<1> SUFFICES ASSUME LinesTypeOK, InStep, [Next]_vars, ~disturbed'
             PROVE  stack' = calls' /\ missed' = 0
  BY Zenon DEF InStep
<1>1. disturbed' = disturbed => stack = calls /\ missed = 0
  <2>1. disturbed' = disturbed => ~disturbed
    OBVIOUS
  <2> QED BY <2>1, Zenon DEF InStep
<1>2. ASSUME NEW len \in FrameLens, NEW p \in Programs, Invoke(p, len)
      PROVE  stack' = calls' /\ missed' = 0
  <2>1. stack' = AfterInvoke(p, Len(calls) + 1) /\ disturbed' = disturbed
    BY <1>2, Zenon DEF Invoke, Line
  <2>2. stack = calls /\ missed = 0
    BY <2>1, <1>1, Zenon
  <2> QED BY <1>2, <2>1, <2>2, LogAssumption DEF LinesTypeOK, Invoke, AfterInvoke
<1>3. ASSUME NEW len \in FrameLens, Return(len) PROVE stack' = calls' /\ missed' = 0
  <2>1. stack' = AfterSuccess(Top(calls)) /\ disturbed' = disturbed
    BY <1>3, Zenon DEF Return, Line
  <2>2. stack = calls /\ missed = 0
    BY <2>1, <1>1, Zenon
  <2> QED BY <1>3, <2>1, <2>2 DEF Return, AfterSuccess
<1>4. CASE Emit
  <2>1. Fits(EventLen) /\ disturbed' = disturbed
    BY <1>4, Zenon DEF Emit
  <2>2. stack = calls /\ missed = 0
    BY <2>1, <1>1, Zenon
  <2> QED BY <1>4, <2>1, <2>2 DEF Emit, Counts
<1>5. ASSUME NEW len \in TextLens, Chat(len) PROVE stack' = calls' /\ missed' = 0
  BY <1>1, <1>5, Zenon DEF Chat
<1>6. ASSUME NEW len, NEW next, Say(next, len) PROVE FALSE
  BY <1>6, Zenon DEF Say
<1>7. CASE UNCHANGED vars
  BY <1>1, <1>7, Zenon DEF vars
<1> QED BY <1>2, <1>3, <1>4, <1>5, <1>6, <1>7 DEF Next

\* In a complete log without imitations no event of the program is missed
\* (NothingMissed), for any depth of calls the decoder's stack has room for.
THEOREM CompletenessCorrect == Spec => []NothingMissed
<1>1. Init => InStep
  BY DEF Init, InStep
<1>2. LinesTypeOK /\ InStep => NothingMissed
  <2>1. InStep /\ missed # 0 => disturbed
    BY Zenon DEF InStep
  <2>2. missed > 0 => missed # 0
    OBVIOUS
  <2> QED BY <2>1, <2>2, Zenon DEF NothingMissed
<1> QED BY <1>1, <1>2, LogTypeInit, LinesTypeStep, InStepStep, PTL DEF Spec

==============================================================================

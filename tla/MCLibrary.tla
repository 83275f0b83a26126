------------------------------ MODULE MCLibrary ------------------------------
EXTENDS Library, TLC

CONSTANTS q1, q2, s1, a1, brief, long, t1, t2

TwoQuestions == {q1, q2}
OneSet == {s1}
OneAssessment == {a1}
TwoTerms == {brief, long}
TwoThreads == {t1, t2}

\* One question, or two in either order; a set.
ShortLists ==
  {<<x>> : x \in Questions \cup Sets}
    \cup {<<p[1], p[2]>> : p \in {x \in Questions \X Questions : x[1] # x[2]}}

\* One recipient or two, one of them pinned.
SmallBatches == {<<NoQuestion>>, <<NoQuestion, NoQuestion>>} \cup {<<q>> : q \in Questions}

OnlyBrief == {brief}

Pairs == {l \in ShortLists : Len(l) = 2}

\* Assessments and who sits them; questions and who is sent one; a set handed
\* out in batches; a little of everything.
FourCases ==
  {[lists |-> ShortLists, variants |-> Pairs, batches |-> {}, invited |-> Assessments,
    invites |-> 2, edits |-> 2, requests |-> 2],
   [lists |-> {}, variants |-> {}, batches |-> {}, invited |-> Questions,
    invites |-> 2, edits |-> 2, requests |-> 3],
   [lists |-> {}, variants |-> Pairs, batches |-> SmallBatches, invited |-> {},
    invites |-> 4, edits |-> 1, requests |-> 0],
   [lists |-> ShortLists, variants |-> Pairs, batches |-> SmallBatches, invited |-> Questions \cup Assessments,
    invites |-> 1, edits |-> 1, requests |-> 2]}

Interchangeable == Permutations(Questions) \cup Permutations(Threads)
=============================================================================

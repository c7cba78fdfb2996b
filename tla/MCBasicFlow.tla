----------------------------- MODULE MCBasicFlow ----------------------------
(***************************************************************************)
(* Programs for BasicFlow: all bodies of a few lines, put into a main with *)
(* a subroutine behind it.                                                 *)
(***************************************************************************)
EXTENDS BasicFlow

VarNames == {"i", "j", "k", "loop_var"}

Word(op) == [op |-> op, to |-> 0, args |-> 0, parens |-> TRUE, var |-> "i", first |-> 0, last |-> 0]
For(v, a, b) == [Word("FOR") EXCEPT !.var = v, !.first = a, !.last = b]
Loop(n) == [Word("LOOP") EXCEPT !.var = "loop_var", !.first = 1, !.last = n]
CallWord(n) == [Word("CALL") EXCEPT !.args = n]

Wrap(head, bodies, tail) == {<<head>> \o b \o <<tail>> : b \in bodies}

Join(A, word, B) == {a \o <<word>> \o b : a \in A, b \in B}

\* The sequences of n lines made of these simple statements and blocks, from those
\* of 0 .. n - 1 lines: shorter[k + 1] has those of k lines.
Longer(shorter, simple, heads) ==
  LET n == Len(shorter)
      of(k) == shorter[k + 1]
      block(k) == UNION {Wrap(h, of(k - 2), Word(Close[h.op])) : h \in heads}
      choice(k) == UNION {Wrap(Word("IF"), Join(of(a), Word("ELSE"), of(k - 3 - a)),
                               Word("ENDIF")) : a \in 0 .. k - 3}
      cases(k) == UNION {Wrap(Word("SELECT"),
                              Join({<<Word("CASE")>> \o b : b \in of(a)}, Word("DEFAULT"),
                                   of(k - 4 - a)), Word("ENDSELECT")) : a \in 0 .. k - 4}
      first(k) == IF k = 1 THEN {<<s>> : s \in simple}
                  ELSE block(k) \cup choice(k) \cup cases(k)
  IN  UNION {{f \o r : f \in first(k), r \in of(n - k)} : k \in 1 .. n}

\* Calls name the subroutine behind main.
Whole(body, sub) ==
  LET text == <<Word("SUB")>> \o body \o <<Word("ENDSUB"), Word("SUB")>> \o sub
                \o <<Word("ENDSUB")>>
  IN  [l \in DOMAIN text |-> IF text[l].op \in {"CALL", "GOSUB"}
                             THEN [text[l] EXCEPT !.to = Len(body) + 3] ELSE text[l]]

\* All bodies of up to five lines.
SafeWords == {Word("BREAK"), Word("CONTINUE"), Word("GOTO"), CallWord(1)}
SafeHeads == {Word("IF"), Word("WHILE"), For("i", 1, 2), For("j", 1, 1), Loop(2)}
Safe0 == {<<>>}
Safe1 == Longer(<<Safe0>>, SafeWords, SafeHeads)
Safe2 == Longer(<<Safe0, Safe1>>, SafeWords, SafeHeads)
Safe3 == Longer(<<Safe0, Safe1, Safe2>>, SafeWords, SafeHeads)
Safe4 == Longer(<<Safe0, Safe1, Safe2, Safe3>>, SafeWords, SafeHeads)
Safe5 == Longer(<<Safe0, Safe1, Safe2, Safe3, Safe4>>, SafeWords, SafeHeads)
\* And those of six and seven lines made of these.
DeepWords == {Word("BREAK")}
DeepHeads == {Word("IF"), Word("WHILE"), For("j", 1, 2)}
Deep1 == Longer(<<Safe0>>, DeepWords, DeepHeads)
Deep2 == Longer(<<Safe0, Deep1>>, DeepWords, DeepHeads)
Deep3 == Longer(<<Safe0, Deep1, Deep2>>, DeepWords, DeepHeads)
Deep4 == Longer(<<Safe0, Deep1, Deep2, Deep3>>, DeepWords, DeepHeads)
Deep5 == Longer(<<Safe0, Deep1, Deep2, Deep3, Deep4>>, DeepWords, DeepHeads)
Deep6 == Longer(<<Safe0, Deep1, Deep2, Deep3, Deep4, Deep5>>, DeepWords, DeepHeads)
Deep7 == Longer(<<Safe0, Deep1, Deep2, Deep3, Deep4, Deep5, Deep6>>, DeepWords, DeepHeads)
\* And those with ELSEIF.
Short == Safe0 \cup Safe1 \cup Safe2
Elseifs == {<<Word("IF"), Word("GOTO"), Word("ELSEIF")>> \o a \o <<Word("ENDIF")>> : a \in Short}
     \cup {<<Word("IF"), Word("GOTO"), Word("ELSEIF"), Word("GOTO"), Word("ELSEIF")>>
              \o a \o <<Word("ELSE")>> \o b \o <<Word("ENDIF")>> : a, b \in Safe0 \cup Safe1}
     \cup {<<Word("WHILE"), Word("IF"), w, Word("ELSEIF")>> \o a \o <<Word("ENDIF"), Word("WEND")>> :
              w \in {Word("BREAK"), Word("CONTINUE")}, a \in Short}
\* And those with END, also in a loop.
Ends == {a \o <<Word("END")>> \o b : a, b \in Short}
          \cup {<<h, Word("IF"), Word("END"), Word("ELSE")>> \o a \o <<Word("ENDIF"), Word(Close[h.op])>> :
                  h \in {Word("WHILE"), For("i", 1, 2)}, a \in Safe0 \cup Safe1}
Bodies == Safe1 \cup Safe2 \cup Safe3 \cup Safe4 \cup Safe5 \cup Deep6 \cup Deep7
            \cup Elseifs \cup Ends

\* GOTO names the end of main.
SafePrograms ==
  LET sub == <<For("k", 1, 2), Word("STMT"), Word("NEXT")>>
      Exits(b) == [l \in DOMAIN b |-> IF b[l].op = "GOTO"
                                      THEN [b[l] EXCEPT !.to = Len(b) + 2] ELSE b[l]]
  IN  {p \in {Whole(Exits(b), sub) : b \in Bodies} :
         Tidy(p) /\ GotoInMain(p) /\ Straight(p) /\ Apart(p)}

\* Every three lines, and a subroutine that may call itself.
AnyWords == {Word(op) : op \in Ops \ {"FOR", "LOOP", "GOTO", "CALL", "SUB", "STMT"}}
              \cup {For("i", 1, 2), For("i", 2, 1), Loop(2), CallWord(1),
                  [CallWord(0) EXCEPT !.parens = FALSE]}
              \cup {[Word("GOTO") EXCEPT !.to = t] : t \in {0, 2, 5}}
\* A WHILE that is left where its text does not end.
Strays == {<<Word("WHILE"), Word("IF"), Word("WEND"), Word("ENDIF"), Word("WEND")>>,
           <<Word("WHILE"), Word("WHILE"), Word("WEND"), Word("CONTINUE"), Word("WEND")>>}
AnyPrograms == {Whole(b, <<Word("IF"), CallWord(1), Word("ENDIF")>>) :
                  b \in [1 .. 3 -> AnyWords] \cup Strays}
\* Programs that do not do what their text says.
Samples == {
  Whole(<<For("i", 1, 2), Word("STMT"), Word("CONTINUE"), Word("NEXT")>>, <<>>),
  Whole(<<Word("IF"), CallWord(1), Word("ENDIF")>>,
        <<[Word("GOTO") EXCEPT !.to = 8], Word("STMT")>>)}
=============================================================================

--------------------------- MODULE MCUserPrograms ---------------------------
EXTENDS UserPrograms

Entry(n, t) == [name |-> n, text |-> t]
OneFile(texts) == {<< Entry(Dot, << >>), Entry("f", t) >> : t \in texts}
TwoFiles(texts) == {<< Entry("f", t), Entry("f", u) >> : t, u \in texts}

Texts(n) == SeqOf({"a", "b", NL}, n)

MCBytes == {"a", "b", "g", "e", "f", Dot, Space, NUL, NL, Junk}

\* Many command lines on one directory; a few on many directories.
MCWorlds ==
  << [lines |-> SeqOf({"g", "a", Space}, 4) \cup {<< "g", Space, "a", "a", "b" >>,
                << "g", "g", "g", Space, "a" >>, exit},
      dirs |-> OneFile({<< "b", NL, "a", "a" >>})],
     [lines |-> {<< "g", Space, "a" >>, << "g", Space, "a", "b" >>},
      dirs |-> OneFile(Texts(5)) \cup TwoFiles(Texts(2))] >>

MCExecutables == {<< "g" >>, << "g", "g" >>, << "g", "g", "g" >>}
=============================================================================

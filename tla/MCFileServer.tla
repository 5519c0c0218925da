---------------------------- MODULE MCFileServer ----------------------------
(***************************************************************************)
(* Files of the inode's one block only, filled to its end; of the blocks   *)
(* of the indirect block as well; and of two double indirect blocks and    *)
(* more.  Each is read alone, and the small ones together and from a disk  *)
(* that fails.  The root lists a removed file of the name of another, two  *)
(* names of which one begins with the other, and a directory of two        *)
(* blocks.                                                                 *)
(***************************************************************************)
EXTENDS FileServer

MCSize == [i \in Inodes |-> CASE i = "tiny" -> 2 [] i = "small" -> 5 [] i = "large" -> 15]

Entry(name, inode, block) == [name |-> name, inode |-> inode, block |-> block]
MCEntries ==
  [tiny |-> <<>>, small |-> <<>>, large |-> <<>>,
   root |-> <<Entry(".", "root", 0), Entry("a", Unused, 0), Entry("ab", "tiny", 0),
              Entry("a", "sub", 0), Entry("b", "big", 0)>>,
   sub  |-> <<Entry("..", "root", 0), Entry("ab", "small", 0), Entry("a", "large", 0)>>,
   big  |-> <<Entry("..", "root", 0), Entry("b", Unused, 0), Entry("a", "sub", 0),
              Entry("ab", "large", 1), Entry("b", "tiny", 1)>>]
MCLetters ==
  [n \in {".", "..", "a", "b", "ab", "abba", Empty} |->
     CASE n = "." -> <<".">> [] n = ".." -> <<".", ".">> [] n = "a" -> <<"a">>
       [] n = "b" -> <<"b">> [] n = "ab" -> <<"a", "b">>
       [] n = "abba" -> <<"a", "b", "b", "a">> [] n = Empty -> <<>>]
MCPaths ==
  {<<>>, <<"/", "/", "ab">>, <<"ab", "/">>, <<"a", "/", "ab">>, <<"a", "/", "/", "ab">>,
   <<"a", "/", "..", "/", "a", "/", "a">>, <<"ab", "/", "a">>, <<"b", "/", "ab">>,
   <<"b", "/", "a", "/", "ab">>, <<"b", "/", "b", "/", "a">>, <<"a", "/", "b">>, <<"abba">>}

Load(files, paths, fails) == [files |-> files, paths |-> paths, fails |-> fails]
MCWorkloads ==
  {Load({i}, {}, FALSE) : i \in Inodes}
    \cup {Load({"tiny"}, MCPaths, FALSE), Load({"tiny"}, MCPaths, TRUE),
          Load({"tiny", "small"}, {}, FALSE), Load({"tiny", "small"}, {}, TRUE)}
=============================================================================

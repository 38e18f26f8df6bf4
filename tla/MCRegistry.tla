---------------------------- MODULE MCRegistry ----------------------------
(* Plugin files for Registry.                                               *)
EXTENDS Registry

File(index, name, kind, labels) ==
  [index |-> index, name |-> name, kind |-> kind, labels |-> labels]

\* A table, a plugin whose item has the name of one of its columns, an index
\* taken twice, a name taken twice, an item of the same name by another split of
\* its words, index 0, the agent's own names, an item named as the table of
\* another plugin, an item and a plugin of one name, a plugin that takes the name
\* of the agent's own subtree, and one that nothing clashes with.
MCFiles ==
  {File(1, <<"disk">>, "table", <<<<"io", "wait">>, <<"size">>>>),
   File(2, <<"disk", "io">>, "value", <<<<"read">>, <<"wait">>>>),
   File(2, <<"load">>, "value", <<<<"one">>>>),
   File(3, <<"disk">>, "value", <<<<"io", "wait">>, <<"io">>>>),
   File(0, <<"zero">>, "value", <<<<"one">>>>),
   File(4, <<"info">>, "value", <<<<"version">>>>),
   File(5, <<"snmpy", "global">>, "value", <<<<"one">>>>),
   File(6, <<"snmpy", "info">>, "table", <<<<"one">>>>),
   File(7, <<"net">>, "value", <<<<"if", "table">>>>),
   File(8, <<"net", "if">>, "table", <<<<"name">>>>),
   File(10, <<"info">>, "value", <<<<"up">>>>),
   File(9, <<"time">>, "value", <<<<"now">>, <<"zone">>>>)}
=============================================================================

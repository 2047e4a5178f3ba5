----------------------------- MODULE MCClients -----------------------------
(* Small instances of Clients for TLC.                                      *)
EXTENDS Clients, TLC

CallSymmetry == Permutations(Calls)

Server(family, version, tls, innodb) ==
    [family |-> family, version |-> version, prefixed |-> FALSE,
     mariadb |-> family = "mariadb", tls |-> tls, innodb |-> innodb]

MCServers ==
    {Server("postgres", v, TRUE, TRUE) : v \in {<<11, 22>>, <<13, 1>>, <<18, 6>>}}
    \cup {Server("postgres", <<16, 2>>, FALSE, TRUE)}
    \cup {Server("mysql", v, TRUE, TRUE) : v \in {<<5, 7, 44>>, <<8, 4, 11>>, <<9, 0, 1>>}}
    \cup {Server("mysql", <<8, 0, 46>>, TRUE, FALSE)}
    \cup {[Server("mariadb", <<10, 6, 28>>, TRUE, TRUE) EXCEPT !.prefixed = TRUE],
          Server("mariadb", <<10, 11, 19>>, FALSE, TRUE),
          Server("mariadb", <<11, 5, 2>>, TRUE, TRUE)}

MCForms ==
    [engine : {"postgres", "mysql", "mariadb"}, tls : {TRUE}]
    \cup {[engine |-> "mariadb", tls |-> FALSE]}

(* How a client of each engine states its version                           *)
Says(engine, v) ==
    CASE engine = "postgres" -> <<[word |-> "(PostgreSQL)", number |-> v]>>
      [] engine = "mysql"    -> <<[word |-> "Ver", number |-> v]>>
      [] engine = "mariadb"  -> IF v[1] = 12
             THEN <<[word |-> "from", number |-> v], [word |-> "client", number |-> <<15, 2>>]>>
             ELSE <<[word |-> "Ver", number |-> <<10, 19>>], [word |-> "Distrib", number |-> v]>>

Tool(engine, v) == [version |-> v, says |-> Says(engine, v)]

Directories ==
    {<<"postgres", <<n>> >> : n \in {13, 16, 18}}
    \cup {<<"mysql", <<8, 0>> >>, <<"mysql", <<8, 4>> >>}
    \cup {<<"mariadb", v>> : v \in {<<10, 6>>, <<10, 11>>, <<12, 3>>}}

Places == {<<dir[1], dir[2], Tools(dir[1])[k]>> : dir \in Directories, k \in 1..3}

(* pg_restore and mysql are a patch ahead of the other tools.               *)
Complete ==
    [p \in Places |->
       Tool(p[1], LET patch == IF p[3] \in {"pg_restore", "mysql"} THEN 9 ELSE 5
                  IN  IF p[1] = "postgres" THEN <<p[2][1], patch>> ELSE Append(p[2], patch))]

Other(place, engine, v) == [Complete EXCEPT ![place] = Tool(engine, v)]

MCImages ==
    {Complete,
     Other(<<"mysql", <<8, 0>>, "mysqldump">>, "mysql", <<8, 4, 5>>),
     Other(<<"mariadb", <<10, 11>>, "mariadb-dump">>, "mariadb", <<10, 6, 5>>),
     [Complete EXCEPT ![<<"postgres", <<18>>, "pg_dump">>] =
        [version |-> <<0, 0>>, says |-> <<[word |-> "version", number |-> <<18, 5>>]>>]],
     [p \in Places \ {<<"postgres", <<13>>, "pg_restore">>} |-> Complete[p]]}

=============================================================================

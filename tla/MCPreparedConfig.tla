-------------------------- MODULE MCPreparedConfig --------------------------
EXTENDS PreparedConfig

Text(version, mine) ==
    (IF version = 2 THEN <<<<"schema", 2>>>> ELSE <<>>)
      \o <<<<"format", 1>>, <<"section", "video">>, <<"section", "machine">>, mine>>
Block(version, mine) ==
    <<mine, <<"begin">>>> \o (IF version = 2 THEN <<<<"schema", 2>>>> ELSE <<>>)
      \o <<<<"key", "kernel", "c64">>, <<"include", "active">>, <<"end">>>>
Cmdline(mine) ==
    <<<<"token", "audio_out", mine>>, <<"token", "quiet", 0>>, <<"token", "network", mine>>>>

\* A release that treats each of the four rewritable areas in one of four ways:
\* it still has the old version, accepts it, migrates it or resets it.
Requirement(mode) ==
    [target |-> IF mode = "keeps" THEN 1 ELSE 2,
     accepted |-> CASE mode = "keeps" -> {1} [] mode = "accepts" -> {1, 2}
                    [] OTHER -> {2}]
MCRelease(mode, paths) ==
    LET migrated == {a \in DOMAIN mode : mode[a] \in {"migrates", "resets"}}
    IN  [requirements |-> [a \in Areas |->
            IF a \in DOMAIN mode THEN Requirement(mode[a]) ELSE [target |-> 1, accepted |-> {1}]],
         migrations |-> {m \in CompiledMigrations :
            m.area \in migrated /\ m.lossy = (mode[m.area] = "resets")},
         templates |-> [p \in paths |->
            CASE p = "config.txt" -> Block(2, <<"comment">>)
              [] p = "tryboot.txt" -> TrybootConfig(Block(2, <<"comment">>))
              [] p \in {"machines.ini", "machines.defaults.ini"} -> Text(2, <<"key", "vol", 9>>)
              [] p = "cmdline.txt" -> Cmdline(9) \o
                   <<<<"token", "schema_cmdline", Requirement(mode["CmdlineManagedKeys"]).target>>,
                     <<"token", "schema_network", Requirement(mode["Network"]).target>>>>
              [] OTHER -> Selector("c64")],
         kernels |-> {"c64", "vic20"}]

MCTemplates == {"config.txt", "cmdline.txt", "machines.ini", "machines.defaults.ini",
                "active", "candidate", "tryboot.txt"}
\* Every way of treating every area at least once, and the shared file's pairs.
MCMode(m, c, k, n) ==
    [Machines |-> m, ConfigManagedBlock |-> c, CmdlineManagedKeys |-> k, Network |-> n]
MCReleases ==
    {MCRelease(mode, MCTemplates) : mode \in
       {MCMode("accepts", "accepts", "accepts", "accepts"),
        MCMode("migrates", "migrates", "migrates", "accepts"),
        MCMode("migrates", "migrates", "migrates", "keeps"),
        MCMode("resets", "resets", "resets", "keeps"),
        MCMode("resets", "migrates", "keeps", "resets"),
        MCMode("accepts", "accepts", "resets", "resets")}}

Card == [p \in {"machines.ini", "config.txt", "cmdline.txt", "settings.txt",
                "BMX-BUILD.json", "active", "candidate"} |->
           CASE p = "machines.ini" -> Text(1, <<"key", "vol", 5>>)
             [] p = "config.txt" -> Block(1, <<"key", "gpu_mem", "64">>)
             [] p = "cmdline.txt" -> Cmdline(5)
             [] p = "settings.txt" -> <<<<"key", "name", 5>>>>
             [] p = "BMX-BUILD.json" -> <<<<"build", 1>>>>
             [] p = "active" -> Selector("vic20")
             [] p = "candidate" -> Selector("c64")]
\* With both machines files, under an old header or not, and a marker on the
\* command line.
MCConfigs ==
    {Card,
     [p \in DOMAIN Card \cup {"machines.defaults.ini"} |->
        CASE p = "machines.defaults.ini" -> Text(1, <<"key", "vol", 6>>)
          [] p = "cmdline.txt" -> Cmdline(5) \o <<<<"token", "schema_network", 2>>>>
          [] OTHER -> Card[p]],
     [Card EXCEPT !["machines.ini"] = <<<<"schema", 1>>>> \o @]}

MCEdits == {<<"config.txt", Block(1, <<"key", "gpu_mem", "64">>)>>,
            <<"config.txt", Block(1, <<"key", "gpu_mem", "16">>)>>,
            <<"cmdline.txt", Cmdline(5)>>,
            <<"active", Selector("c64")>>}
=============================================================================

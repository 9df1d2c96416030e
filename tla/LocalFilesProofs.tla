--------------------------- MODULE LocalFilesProofs ---------------------------
(***************************************************************************)
(* The files the programs of this Mac share keep what was written to them, *)
(* whatever the jobs, the number of processes and the bounds.  FilesInv is *)
(* inductive part by part: each component's part is kept by the actions of *)
(* its component, and by all others because they leave its variables       *)
(* alone.  The types are kept the same way, with one fact more: what a     *)
(* task is told has the type its component expects (TaskTold).             *)
(***************************************************************************)
EXTENDS LocalFiles, RouteChoiceProofs, FiniteSetTheorems, SequenceTheorems, TLAPS

-----------------------------------------------------------------------------
(* Registry: each action of a save keeps RegistryInv                       *)

\* The copy a process takes is the registry with its change.
LEMMA RegistryLoads ==
  ASSUME Reg!RegistryInv, NEW p \in Procs, NEW u, Reg!LoadHosts(p, u)
  PROVE  Reg!RegistryInv'
<1>1. Reg!RegistryShape'
  BY DEF Reg!RegistryInv, Reg!RegistryShape, Reg!LoadHosts, Reg!Apply
<1>2. ASSUME ~clobbered' PROVE Reg!Undisturbed'
  <2>1. Reg!Undisturbed /\ Reg!RegistryShape
    BY <1>2 DEF Reg!RegistryInv, Reg!LoadHosts, Reg!Apply
  <2>2. Reg!Readable(hosts)' /\ Reg!Entries(hosts)' = truth'
    BY <1>2, <2>1 DEF Reg!Undisturbed, Reg!RegistryShape, Reg!Readable, Reg!Entries, Reg!LoadHosts, Reg!Apply
  <2>3. \A q, r \in Procs : Reg!AtTmp(q)' /\ Reg!AtTmp(r)' => q = r
    BY <1>2, <2>1 DEF Reg!Undisturbed, Reg!RegistryShape, Reg!AtTmp, Reg!LoadHosts, Reg!Apply
  <2>4. ASSUME NEW q \in Procs
        PROVE  /\ (fd[q] # "none" => saving[q] = "opened")'
               /\ (saving[q] = "opened" => fd[q] = "tmp" /\ tmp = Reg!Empty)'
               /\ (saving[q] = "written" => tmp = Reg!Whole(table[q]))'
               /\ (saving[q] # "out" /\ ~stale[q] => table[q] = Reg!Apply(truth, update[q]))'
    BY <1>2, <2>1 DEF Reg!Undisturbed, Reg!RegistryShape, Reg!AtTmp, Reg!LoadHosts, Reg!Apply, Reg!Empty, Reg!Whole
  <2> QED BY <2>2, <2>3, <2>4 DEF Reg!Undisturbed
<1> QED BY <1>1, <1>2 DEF Reg!RegistryInv

\* Opening the temporary file empties it, for the one process that has it.
LEMMA RegistryOpens ==
  ASSUME Reg!RegistryInv, NEW p \in Procs, Reg!OpenTmp(p)
  PROVE  Reg!RegistryInv'
<1>1. Reg!RegistryShape'
  BY DEF Reg!RegistryInv, Reg!RegistryShape, Reg!OpenTmp
<1>2. ASSUME ~clobbered' PROVE Reg!Undisturbed'
  <2>1. Reg!Undisturbed /\ Reg!RegistryShape
    BY <1>2 DEF Reg!RegistryInv, Reg!OpenTmp
  <2>2. Reg!Readable(hosts)' /\ Reg!Entries(hosts)' = truth'
    BY <1>2, <2>1 DEF Reg!Undisturbed, Reg!RegistryShape, Reg!Readable, Reg!Entries, Reg!OpenTmp
  <2>3. \A q, r \in Procs : Reg!AtTmp(q)' /\ Reg!AtTmp(r)' => q = r
    BY <1>2, <2>1 DEF Reg!Undisturbed, Reg!RegistryShape, Reg!AtTmp, Reg!OpenTmp
  <2>4. ASSUME NEW q \in Procs
        PROVE  /\ (fd[q] # "none" => saving[q] = "opened")'
               /\ (saving[q] = "opened" => fd[q] = "tmp" /\ tmp = Reg!Empty)'
               /\ (saving[q] = "written" => tmp = Reg!Whole(table[q]))'
               /\ (saving[q] # "out" /\ ~stale[q] => table[q] = Reg!Apply(truth, update[q]))'
    BY <1>2, <2>1 DEF Reg!Undisturbed, Reg!RegistryShape, Reg!AtTmp, Reg!OpenTmp, Reg!Empty, Reg!Whole
  <2> QED BY <2>2, <2>3, <2>4 DEF Reg!Undisturbed
<1> QED BY <1>1, <1>2 DEF Reg!RegistryInv

\* The whole copy reaches the temporary file.
LEMMA RegistryWrites ==
  ASSUME Reg!RegistryInv, NEW p \in Procs, Reg!WriteTmp(p)
  PROVE  Reg!RegistryInv'
<1>1. Reg!RegistryShape'
  BY DEF Reg!RegistryInv, Reg!RegistryShape, Reg!WriteTmp, Reg!Opened, Reg!ChangeOpened, Reg!Overwrite
<1>2. ASSUME ~clobbered' PROVE Reg!Undisturbed'
  <2>1. Reg!Undisturbed /\ Reg!RegistryShape
    BY <1>2 DEF Reg!RegistryInv, Reg!WriteTmp, Reg!Opened, Reg!ChangeOpened, Reg!Overwrite
  <2>2. Reg!Readable(hosts)' /\ Reg!Entries(hosts)' = truth'
    BY <1>2, <2>1 DEF Reg!Undisturbed, Reg!RegistryShape, Reg!Readable, Reg!Entries, Reg!WriteTmp, Reg!Opened, Reg!ChangeOpened, Reg!Overwrite
  <2>3. \A q, r \in Procs : Reg!AtTmp(q)' /\ Reg!AtTmp(r)' => q = r
    BY <1>2, <2>1 DEF Reg!Undisturbed, Reg!RegistryShape, Reg!AtTmp, Reg!WriteTmp, Reg!Opened, Reg!ChangeOpened, Reg!Overwrite
  <2>4. ASSUME NEW q \in Procs
        PROVE  /\ (fd[q] # "none" => saving[q] = "opened")'
               /\ (saving[q] = "opened" => fd[q] = "tmp" /\ tmp = Reg!Empty)'
               /\ (saving[q] = "written" => tmp = Reg!Whole(table[q]))'
               /\ (saving[q] # "out" /\ ~stale[q] => table[q] = Reg!Apply(truth, update[q]))'
    BY <1>2, <2>1 DEF Reg!Undisturbed, Reg!RegistryShape, Reg!AtTmp, Reg!WriteTmp, Reg!Opened, Reg!ChangeOpened, Reg!Overwrite, Reg!Empty, Reg!Whole
  <2> QED BY <2>2, <2>3, <2>4 DEF Reg!Undisturbed
<1> QED BY <1>1, <1>2 DEF Reg!RegistryInv

\* A failed write leaves the registry alone.
LEMMA RegistryWriteFails ==
  ASSUME Reg!RegistryInv, NEW p \in Procs, Reg!WriteTmpFails(p)
  PROVE  Reg!RegistryInv'
<1>1. Reg!RegistryShape'
  BY DEF Reg!RegistryInv, Reg!RegistryShape, Reg!WriteTmpFails, Reg!Opened, Reg!ChangeOpened, Reg!Leave
<1>2. ASSUME ~clobbered' PROVE Reg!Undisturbed'
  <2>1. Reg!Undisturbed /\ Reg!RegistryShape
    BY <1>2 DEF Reg!RegistryInv, Reg!WriteTmpFails, Reg!Opened, Reg!ChangeOpened, Reg!Leave
  <2>2. Reg!Readable(hosts)' /\ Reg!Entries(hosts)' = truth'
    BY <1>2, <2>1 DEF Reg!Undisturbed, Reg!RegistryShape, Reg!Readable, Reg!Entries, Reg!WriteTmpFails, Reg!Opened, Reg!ChangeOpened, Reg!Leave
  <2>3. \A q, r \in Procs : Reg!AtTmp(q)' /\ Reg!AtTmp(r)' => q = r
    BY <1>2, <2>1 DEF Reg!Undisturbed, Reg!RegistryShape, Reg!AtTmp, Reg!WriteTmpFails, Reg!Opened, Reg!ChangeOpened, Reg!Leave
  <2>4. ASSUME NEW q \in Procs
        PROVE  /\ (fd[q] # "none" => saving[q] = "opened")'
               /\ (saving[q] = "opened" => fd[q] = "tmp" /\ tmp = Reg!Empty)'
               /\ (saving[q] = "written" => tmp = Reg!Whole(table[q]))'
               /\ (saving[q] # "out" /\ ~stale[q] => table[q] = Reg!Apply(truth, update[q]))'
    BY <1>2, <2>1 DEF Reg!Undisturbed, Reg!RegistryShape, Reg!AtTmp, Reg!WriteTmpFails, Reg!Opened, Reg!ChangeOpened, Reg!Leave, Reg!Empty, Reg!Whole
  <2> QED BY <2>2, <2>3, <2>4 DEF Reg!Undisturbed
<1> QED BY <1>1, <1>2 DEF Reg!RegistryInv

\* The rename installs the registry with the change.
LEMMA RegistryRenames ==
  ASSUME Reg!RegistryInv, NEW p \in Procs, Reg!RenameTmp(p)
  PROVE  Reg!RegistryInv'
<1>1. Reg!RegistryShape'
  BY DEF Reg!RegistryInv, Reg!RegistryShape, Reg!RenameTmp, Reg!Missing, Reg!IsWhole
<1>2. ASSUME ~clobbered' PROVE Reg!Undisturbed'
  <2>1. Reg!Undisturbed /\ Reg!RegistryShape
    BY <1>2 DEF Reg!RegistryInv, Reg!RenameTmp, Reg!Missing, Reg!IsWhole
  <2>2. Reg!Readable(hosts)' /\ Reg!Entries(hosts)' = truth'
    BY <1>2, <2>1 DEF Reg!Undisturbed, Reg!RegistryShape, Reg!Readable, Reg!Entries, Reg!RenameTmp, Reg!IsWhole, Reg!Whole
  <2>3. \A q, r \in Procs : Reg!AtTmp(q)' /\ Reg!AtTmp(r)' => q = r
    BY <1>2, <2>1 DEF Reg!Undisturbed, Reg!RegistryShape, Reg!AtTmp, Reg!RenameTmp, Reg!Missing, Reg!IsWhole
  <2>4. ASSUME NEW q \in Procs
        PROVE  /\ (fd[q] # "none" => saving[q] = "opened")'
               /\ (saving[q] = "opened" => fd[q] = "tmp" /\ tmp = Reg!Empty)'
               /\ (saving[q] = "written" => tmp = Reg!Whole(table[q]))'
               /\ (saving[q] # "out" /\ ~stale[q] => table[q] = Reg!Apply(truth, update[q]))'
    BY <1>2, <2>1 DEF Reg!Undisturbed, Reg!RegistryShape, Reg!AtTmp, Reg!RenameTmp, Reg!Missing, Reg!IsWhole, Reg!Empty, Reg!Whole
  <2> QED BY <2>2, <2>3, <2>4 DEF Reg!Undisturbed
<1> QED BY <1>1, <1>2 DEF Reg!RegistryInv

\* A rename that fails leaves the registry alone.
LEMMA RegistryRenameFails ==
  ASSUME Reg!RegistryInv, NEW p \in Procs, Reg!RenameTmpFails(p)
  PROVE  Reg!RegistryInv'
<1>1. Reg!RegistryShape'
  BY DEF Reg!RegistryInv, Reg!RegistryShape, Reg!RenameTmpFails, Reg!Leave
<1>2. ASSUME ~clobbered' PROVE Reg!Undisturbed'
  <2>1. Reg!Undisturbed /\ Reg!RegistryShape
    BY <1>2 DEF Reg!RegistryInv, Reg!RenameTmpFails, Reg!Leave
  <2>2. Reg!Readable(hosts)' /\ Reg!Entries(hosts)' = truth'
    BY <1>2, <2>1 DEF Reg!Undisturbed, Reg!RegistryShape, Reg!Readable, Reg!Entries, Reg!RenameTmpFails, Reg!Leave
  <2>3. \A q, r \in Procs : Reg!AtTmp(q)' /\ Reg!AtTmp(r)' => q = r
    BY <1>2, <2>1 DEF Reg!Undisturbed, Reg!RegistryShape, Reg!AtTmp, Reg!RenameTmpFails, Reg!Leave
  <2>4. ASSUME NEW q \in Procs
        PROVE  /\ (fd[q] # "none" => saving[q] = "opened")'
               /\ (saving[q] = "opened" => fd[q] = "tmp" /\ tmp = Reg!Empty)'
               /\ (saving[q] = "written" => tmp = Reg!Whole(table[q]))'
               /\ (saving[q] # "out" /\ ~stale[q] => table[q] = Reg!Apply(truth, update[q]))'
    BY <1>2, <2>1 DEF Reg!Undisturbed, Reg!RegistryShape, Reg!AtTmp, Reg!RenameTmpFails, Reg!Leave, Reg!Empty, Reg!Whole
  <2> QED BY <2>2, <2>3, <2>4 DEF Reg!Undisturbed
<1> QED BY <1>1, <1>2 DEF Reg!RegistryInv

\* A death leaves at most a temporary file behind.
LEMMA RegistryCrashes ==
  ASSUME Reg!RegistryInv, NEW S \in SUBSET Procs, Reg!RegistryCrash(S)
  PROVE  Reg!RegistryInv'
<1>1. Reg!RegistryShape'
  BY DEF Reg!RegistryInv, Reg!RegistryShape, Reg!RegistryCrash, Reg!Leave
<1>2. ASSUME ~clobbered' PROVE Reg!Undisturbed'
  <2>1. Reg!Undisturbed /\ Reg!RegistryShape
    BY <1>2 DEF Reg!RegistryInv, Reg!RegistryCrash, Reg!Leave
  <2>2. Reg!Readable(hosts)' /\ Reg!Entries(hosts)' = truth'
    BY <1>2, <2>1 DEF Reg!Undisturbed, Reg!RegistryShape, Reg!Readable, Reg!Entries, Reg!RegistryCrash, Reg!Leave
  <2>3. \A q, r \in Procs : Reg!AtTmp(q)' /\ Reg!AtTmp(r)' => q = r
    BY <1>2, <2>1 DEF Reg!Undisturbed, Reg!RegistryShape, Reg!AtTmp, Reg!RegistryCrash, Reg!Leave
  <2>4. ASSUME NEW q \in Procs
        PROVE  /\ (fd[q] # "none" => saving[q] = "opened")'
               /\ (saving[q] = "opened" => fd[q] = "tmp" /\ tmp = Reg!Empty)'
               /\ (saving[q] = "written" => tmp = Reg!Whole(table[q]))'
               /\ (saving[q] # "out" /\ ~stale[q] => table[q] = Reg!Apply(truth, update[q]))'
    BY <1>2, <2>1 DEF Reg!Undisturbed, Reg!RegistryShape, Reg!AtTmp, Reg!RegistryCrash, Reg!Leave, Reg!Empty, Reg!Whole
  <2> QED BY <2>2, <2>3, <2>4 DEF Reg!Undisturbed
<1> QED BY <1>1, <1>2 DEF Reg!RegistryInv

-----------------------------------------------------------------------------
(* ConfigFile: each action of a writer keeps ConfigInv                     *)

\* A copy taken while nobody rewrites the file is the configuration, changed.
LEMMA ConfigLoads ==
  ASSUME Cfg!ConfigInv, NEW p \in Procs, NEW c, Cfg!LoadConfig(p, c)
  PROVE  Cfg!ConfigInv'
<1>1. Cfg!ConfigShape'
  BY DEF Cfg!ConfigInv, Cfg!ConfigShape, Cfg!LoadConfig
<1>2. ASSUME ~mixed' PROVE Cfg!OneWriter'
  <2>1. ~mixed /\ Cfg!OneWriter /\ Cfg!ConfigShape
    BY <1>2 DEF Cfg!ConfigInv, Cfg!LoadConfig
  <2>2. ((\A q \in Procs : editing[q] # "opened") =>
           configFile # Cfg!Torn /\ Cfg!Decoded(configFile) = intended)'
    BY <1>2, <2>1 DEF Cfg!OneWriter, Cfg!ConfigShape, Cfg!Decoded, Cfg!IsWhole, Cfg!LoadConfig
  <2>3. ASSUME NEW q \in Procs, NEW r \in Procs
        PROVE  /\ (editing[q] = "opened" /\ editing[r] = "opened" => q = r)'
               /\ (editing[q] = "opened" /\ editing[r] = "loaded" => outdated[r])'
    BY <1>2, <2>1 DEF Cfg!OneWriter, Cfg!ConfigShape, Cfg!LoadConfig
  <2>4. ASSUME NEW q \in Procs
        PROVE  /\ (editing[q] = "opened" =>
                      configFile = Cfg!Empty /\ draft[q] = Cfg!Changed(intended, change[q]))'
               /\ (editing[q] = "loaded" /\ ~outdated[q] =>
                      draft[q] = Cfg!Changed(intended, change[q]))'
    BY <1>2, <2>1 DEF Cfg!OneWriter, Cfg!ConfigShape, Cfg!LoadConfig
  <2> QED BY <2>2, <2>3, <2>4 DEF Cfg!OneWriter
<1> QED BY <1>1, <1>2 DEF Cfg!ConfigInv

\* A writer that empties the file makes all other copies outdated.
LEMMA ConfigOpens ==
  ASSUME Cfg!ConfigInv, NEW p \in Procs, Cfg!OpenConfig(p)
  PROVE  Cfg!ConfigInv'
<1>1. Cfg!ConfigShape'
  BY DEF Cfg!ConfigInv, Cfg!ConfigShape, Cfg!OpenConfig
<1>2. ASSUME ~mixed' PROVE Cfg!OneWriter'
  <2>1. ~mixed /\ Cfg!OneWriter /\ Cfg!ConfigShape
    BY <1>2 DEF Cfg!ConfigInv, Cfg!OpenConfig
  <2>2. ((\A q \in Procs : editing[q] # "opened") =>
           configFile # Cfg!Torn /\ Cfg!Decoded(configFile) = intended)'
    BY <1>2, <2>1 DEF Cfg!OneWriter, Cfg!ConfigShape, Cfg!Decoded, Cfg!IsWhole, Cfg!OpenConfig
  <2>3. ASSUME NEW q \in Procs, NEW r \in Procs
        PROVE  /\ (editing[q] = "opened" /\ editing[r] = "opened" => q = r)'
               /\ (editing[q] = "opened" /\ editing[r] = "loaded" => outdated[r])'
    BY <1>2, <2>1 DEF Cfg!OneWriter, Cfg!ConfigShape, Cfg!OpenConfig
  <2>4. ASSUME NEW q \in Procs
        PROVE  /\ (editing[q] = "opened" =>
                      configFile = Cfg!Empty /\ draft[q] = Cfg!Changed(intended, change[q]))'
               /\ (editing[q] = "loaded" /\ ~outdated[q] =>
                      draft[q] = Cfg!Changed(intended, change[q]))'
    BY <1>2, <2>1 DEF Cfg!OneWriter, Cfg!ConfigShape, Cfg!OpenConfig
  <2> QED BY <2>2, <2>3, <2>4 DEF Cfg!OneWriter
<1> QED BY <1>1, <1>2 DEF Cfg!ConfigInv

\* The whole copy reaches the file.
LEMMA ConfigWrites ==
  ASSUME Cfg!ConfigInv, NEW p \in Procs, Cfg!WriteConfig(p)
  PROVE  Cfg!ConfigInv'
<1>1. Cfg!ConfigShape'
  BY DEF Cfg!ConfigInv, Cfg!ConfigShape, Cfg!WriteConfig, Cfg!CloseConfig, Cfg!Overwrite, Cfg!Whole, Cfg!Torn, Cfg!Empty
<1>2. ASSUME ~mixed' PROVE Cfg!OneWriter'
  <2>1. ~mixed /\ Cfg!OneWriter /\ Cfg!ConfigShape
    BY <1>2 DEF Cfg!ConfigInv, Cfg!WriteConfig, Cfg!CloseConfig, Cfg!Overwrite, Cfg!Whole, Cfg!Torn, Cfg!Empty
  <2>2. ((\A q \in Procs : editing[q] # "opened") =>
           configFile # Cfg!Torn /\ Cfg!Decoded(configFile) = intended)'
    BY <1>2, <2>1 DEF Cfg!OneWriter, Cfg!ConfigShape, Cfg!Decoded, Cfg!IsWhole, Cfg!WriteConfig, Cfg!CloseConfig, Cfg!Overwrite, Cfg!Whole, Cfg!Torn, Cfg!Empty
  <2>3. ASSUME NEW q \in Procs, NEW r \in Procs
        PROVE  /\ (editing[q] = "opened" /\ editing[r] = "opened" => q = r)'
               /\ (editing[q] = "opened" /\ editing[r] = "loaded" => outdated[r])'
    BY <1>2, <2>1 DEF Cfg!OneWriter, Cfg!ConfigShape, Cfg!WriteConfig, Cfg!CloseConfig, Cfg!Overwrite, Cfg!Whole, Cfg!Torn, Cfg!Empty
  <2>4. ASSUME NEW q \in Procs
        PROVE  /\ (editing[q] = "opened" =>
                      configFile = Cfg!Empty /\ draft[q] = Cfg!Changed(intended, change[q]))'
               /\ (editing[q] = "loaded" /\ ~outdated[q] =>
                      draft[q] = Cfg!Changed(intended, change[q]))'
    BY <1>2, <2>1 DEF Cfg!OneWriter, Cfg!ConfigShape, Cfg!WriteConfig, Cfg!CloseConfig, Cfg!Overwrite, Cfg!Whole, Cfg!Torn, Cfg!Empty
  <2> QED BY <2>2, <2>3, <2>4 DEF Cfg!OneWriter
<1> QED BY <1>1, <1>2 DEF Cfg!ConfigInv

\* A failed write counts as mixed up.
LEMMA ConfigWriteFails ==
  ASSUME Cfg!ConfigInv, NEW p \in Procs, Cfg!WriteConfigFails(p)
  PROVE  Cfg!ConfigInv'
<1>1. Cfg!ConfigShape'
  BY DEF Cfg!ConfigInv, Cfg!ConfigShape, Cfg!WriteConfigFails, Cfg!CloseConfig
<1>2. ASSUME ~mixed' PROVE Cfg!OneWriter'
  <2>1. ~mixed /\ Cfg!OneWriter /\ Cfg!ConfigShape
    BY <1>2 DEF Cfg!ConfigInv, Cfg!WriteConfigFails, Cfg!CloseConfig
  <2>2. ((\A q \in Procs : editing[q] # "opened") =>
           configFile # Cfg!Torn /\ Cfg!Decoded(configFile) = intended)'
    BY <1>2, <2>1 DEF Cfg!OneWriter, Cfg!ConfigShape, Cfg!Decoded, Cfg!IsWhole, Cfg!WriteConfigFails, Cfg!CloseConfig
  <2>3. ASSUME NEW q \in Procs, NEW r \in Procs
        PROVE  /\ (editing[q] = "opened" /\ editing[r] = "opened" => q = r)'
               /\ (editing[q] = "opened" /\ editing[r] = "loaded" => outdated[r])'
    BY <1>2, <2>1 DEF Cfg!OneWriter, Cfg!ConfigShape, Cfg!WriteConfigFails, Cfg!CloseConfig
  <2>4. ASSUME NEW q \in Procs
        PROVE  /\ (editing[q] = "opened" =>
                      configFile = Cfg!Empty /\ draft[q] = Cfg!Changed(intended, change[q]))'
               /\ (editing[q] = "loaded" /\ ~outdated[q] =>
                      draft[q] = Cfg!Changed(intended, change[q]))'
    BY <1>2, <2>1 DEF Cfg!OneWriter, Cfg!ConfigShape, Cfg!WriteConfigFails, Cfg!CloseConfig
  <2> QED BY <2>2, <2>3, <2>4 DEF Cfg!OneWriter
<1> QED BY <1>1, <1>2 DEF Cfg!ConfigInv

\* So does a death in the middle of a write; any other leaves the file alone.
LEMMA ConfigCrashes ==
  ASSUME Cfg!ConfigInv, NEW S \in SUBSET Procs, Cfg!ConfigCrash(S)
  PROVE  Cfg!ConfigInv'
<1>1. Cfg!ConfigShape'
  BY DEF Cfg!ConfigInv, Cfg!ConfigShape, Cfg!ConfigCrash, Cfg!CloseConfig
<1>2. ASSUME ~mixed' PROVE Cfg!OneWriter'
  <2>1. ~mixed /\ Cfg!OneWriter /\ Cfg!ConfigShape
    BY <1>2 DEF Cfg!ConfigInv, Cfg!ConfigCrash, Cfg!CloseConfig
  <2>2. ((\A q \in Procs : editing[q] # "opened") =>
           configFile # Cfg!Torn /\ Cfg!Decoded(configFile) = intended)'
    BY <1>2, <2>1 DEF Cfg!OneWriter, Cfg!ConfigShape, Cfg!Decoded, Cfg!IsWhole, Cfg!ConfigCrash, Cfg!CloseConfig
  <2>3. ASSUME NEW q \in Procs, NEW r \in Procs
        PROVE  /\ (editing[q] = "opened" /\ editing[r] = "opened" => q = r)'
               /\ (editing[q] = "opened" /\ editing[r] = "loaded" => outdated[r])'
    BY <1>2, <2>1 DEF Cfg!OneWriter, Cfg!ConfigShape, Cfg!ConfigCrash, Cfg!CloseConfig
  <2>4. ASSUME NEW q \in Procs
        PROVE  /\ (editing[q] = "opened" =>
                      configFile = Cfg!Empty /\ draft[q] = Cfg!Changed(intended, change[q]))'
               /\ (editing[q] = "loaded" /\ ~outdated[q] =>
                      draft[q] = Cfg!Changed(intended, change[q]))'
    BY <1>2, <2>1 DEF Cfg!OneWriter, Cfg!ConfigShape, Cfg!ConfigCrash, Cfg!CloseConfig
  <2> QED BY <2>2, <2>3, <2>4 DEF Cfg!OneWriter
<1> QED BY <1>1, <1>2 DEF Cfg!ConfigInv

-----------------------------------------------------------------------------
(* LocalToken: each action keeps TokenInv                                  *)

\* With nobody creating it, the file holds the token.
LEMMA TokenLoads ==
  ASSUME Tok!TokenInv, NEW p \in Procs, Tok!LoadToken(p)
  PROVE  Tok!TokenInv'
<1>1. Tok!TokenShape'
  BY DEF Tok!TokenInv, Tok!TokenShape, Tok!LoadToken
<1>2. ASSUME ~collided' PROVE Tok!OneCreator'
  <2>1. ~collided /\ Tok!OneCreator /\ Tok!TokenShape
    BY <1>2 DEF Tok!TokenInv, Tok!LoadToken
  <2>2. (tokenFile = Tok!Missing \/ (\E q \in Procs : creating[q] = "opened")
           \/ (tokenFile = Tok!Whole(tokenFile.data) /\ tokenFile.data \in Tok!Tokens))'
    BY <1>2, <2>1 DEF Tok!OneCreator, Tok!TokenShape, Tok!LoadToken
  <2>3. \A q, r \in Procs : (creating[q] # "out" /\ creating[r] # "out" => q = r)'
    BY <1>2, <2>1 DEF Tok!OneCreator, Tok!TokenShape, Tok!BeingCreated, Tok!LoadToken
  <2>4. ~Tok!BeingCreated
    BY <1>2 DEF Tok!LoadToken
  <2>5. tokenFile = Tok!Whole(tokenFile.data)
    BY <2>1, <2>4 DEF Tok!OneCreator, Tok!TokenShape, Tok!BeingCreated, Tok!LoadToken
  <2>6. Tok!IsWhole(tokenFile)
    BY <2>5 DEF Tok!IsWhole, Tok!Whole
  <2>7. ASSUME NEW q \in Procs
        PROVE  /\ (creating[q] = "absent" => tokenFile = Tok!Missing)'
               /\ (creating[q] = "opened" => tokenFile = Tok!Empty)'
               /\ (held[q] # NoToken => tokenFile = Tok!Whole(held[q]))'
    BY <2>1, <2>4, <2>5, <2>6 DEF Tok!OneCreator, Tok!TokenShape, Tok!BeingCreated, Tok!LoadToken
  <2> QED BY <2>2, <2>3, <2>7 DEF Tok!OneCreator
<1> QED BY <1>1, <1>2 DEF Tok!TokenInv

\* Only one process finds no file.
LEMMA TokenAbsent ==
  ASSUME Tok!TokenInv, NEW p \in Procs, Tok!NoTokenFile(p)
  PROVE  Tok!TokenInv'
<1>1. Tok!TokenShape'
  BY DEF Tok!TokenInv, Tok!TokenShape, Tok!NoTokenFile
<1>2. ASSUME ~collided' PROVE Tok!OneCreator'
  <2>1. ~collided /\ Tok!OneCreator /\ Tok!TokenShape
    BY <1>2 DEF Tok!TokenInv, Tok!NoTokenFile
  <2>2. (tokenFile = Tok!Missing \/ (\E q \in Procs : creating[q] = "opened")
           \/ (tokenFile = Tok!Whole(tokenFile.data) /\ tokenFile.data \in Tok!Tokens))'
    BY <1>2, <2>1 DEF Tok!OneCreator, Tok!TokenShape, Tok!NoTokenFile
  <2>3. \A q, r \in Procs : (creating[q] # "out" /\ creating[r] # "out" => q = r)'
    BY <1>2, <2>1 DEF Tok!OneCreator, Tok!TokenShape, Tok!BeingCreated, Tok!NoTokenFile
  <2>4. ASSUME NEW q \in Procs
        PROVE  /\ (creating[q] = "absent" => tokenFile = Tok!Missing)'
               /\ (creating[q] = "opened" => tokenFile = Tok!Empty)'
               /\ (held[q] # NoToken => tokenFile = Tok!Whole(held[q]))'
    BY <1>2, <2>1 DEF Tok!OneCreator, Tok!TokenShape, Tok!BeingCreated, Tok!IsWhole,
         Tok!Missing, Tok!Empty, Tok!Whole, Tok!NoTokenFile
  <2> QED BY <2>2, <2>3, <2>4 DEF Tok!OneCreator
<1> QED BY <1>1, <1>2 DEF Tok!TokenInv

\* It empties the file, which nobody has read.
LEMMA TokenOpens ==
  ASSUME Tok!TokenInv, NEW p \in Procs, Tok!OpenToken(p)
  PROVE  Tok!TokenInv'
<1>1. Tok!TokenShape'
  BY DEF Tok!TokenInv, Tok!TokenShape, Tok!OpenToken
<1>2. ASSUME ~collided' PROVE Tok!OneCreator'
  <2>1. ~collided /\ Tok!OneCreator /\ Tok!TokenShape
    BY <1>2 DEF Tok!TokenInv, Tok!OpenToken
  <2>2. (tokenFile = Tok!Missing \/ (\E q \in Procs : creating[q] = "opened")
           \/ (tokenFile = Tok!Whole(tokenFile.data) /\ tokenFile.data \in Tok!Tokens))'
    BY <1>2, <2>1 DEF Tok!OneCreator, Tok!TokenShape, Tok!OpenToken
  <2>3. \A q, r \in Procs : (creating[q] # "out" /\ creating[r] # "out" => q = r)'
    BY <1>2, <2>1 DEF Tok!OneCreator, Tok!TokenShape, Tok!BeingCreated, Tok!OpenToken
  <2>4. ASSUME NEW q \in Procs
        PROVE  /\ (creating[q] = "absent" => tokenFile = Tok!Missing)'
               /\ (creating[q] = "opened" => tokenFile = Tok!Empty)'
               /\ (held[q] # NoToken => tokenFile = Tok!Whole(held[q]))'
    BY <1>2, <2>1 DEF Tok!OneCreator, Tok!TokenShape, Tok!BeingCreated, Tok!IsWhole,
         Tok!Missing, Tok!Empty, Tok!Whole, Tok!OpenToken
  <2> QED BY <2>2, <2>3, <2>4 DEF Tok!OneCreator
<1> QED BY <1>1, <1>2 DEF Tok!TokenInv

\* The token reaches the file.
LEMMA TokenWrites ==
  ASSUME Tok!TokenInv, NEW p \in Procs, Tok!WriteToken(p)
  PROVE  Tok!TokenInv'
<1>1. Tok!TokenShape'
  BY DEF Tok!TokenInv, Tok!TokenShape, Tok!WriteToken, Tok!Tokens
<1>2. ASSUME ~collided' PROVE Tok!OneCreator'
  <2>1. ~collided /\ Tok!OneCreator /\ Tok!TokenShape
    BY <1>2 DEF Tok!TokenInv, Tok!WriteToken, Tok!Tokens
  <2>2. (tokenFile = Tok!Missing \/ (\E q \in Procs : creating[q] = "opened")
           \/ (tokenFile = Tok!Whole(tokenFile.data) /\ tokenFile.data \in Tok!Tokens))'
    BY <1>2, <2>1 DEF Tok!OneCreator, Tok!TokenShape, Tok!WriteToken, Tok!Tokens, Tok!Whole
  <2>3. \A q, r \in Procs : (creating[q] # "out" /\ creating[r] # "out" => q = r)'
    BY <1>2, <2>1 DEF Tok!OneCreator, Tok!TokenShape, Tok!BeingCreated, Tok!WriteToken, Tok!Tokens
  <2>4. ASSUME NEW q \in Procs
        PROVE  /\ (creating[q] = "absent" => tokenFile = Tok!Missing)'
               /\ (creating[q] = "opened" => tokenFile = Tok!Empty)'
               /\ (held[q] # NoToken => tokenFile = Tok!Whole(held[q]))'
    BY <1>2, <2>1 DEF Tok!OneCreator, Tok!TokenShape, Tok!BeingCreated, Tok!IsWhole,
         Tok!Missing, Tok!Empty, Tok!Whole, Tok!WriteToken, Tok!Tokens
  <2> QED BY <2>2, <2>3, <2>4 DEF Tok!OneCreator
<1> QED BY <1>1, <1>2 DEF Tok!TokenInv

\* A failed write counts as a collision.
LEMMA TokenWriteFails ==
  ASSUME Tok!TokenInv, NEW p \in Procs, Tok!WriteTokenFails(p)
  PROVE  Tok!TokenInv'
<1>1. Tok!TokenShape'
  BY DEF Tok!TokenInv, Tok!TokenShape, Tok!WriteTokenFails
<1>2. ASSUME ~collided' PROVE Tok!OneCreator'
  <2>1. ~collided /\ Tok!OneCreator /\ Tok!TokenShape
    BY <1>2 DEF Tok!TokenInv, Tok!WriteTokenFails
  <2>2. (tokenFile = Tok!Missing \/ (\E q \in Procs : creating[q] = "opened")
           \/ (tokenFile = Tok!Whole(tokenFile.data) /\ tokenFile.data \in Tok!Tokens))'
    BY <1>2, <2>1 DEF Tok!OneCreator, Tok!TokenShape, Tok!WriteTokenFails
  <2>3. \A q, r \in Procs : (creating[q] # "out" /\ creating[r] # "out" => q = r)'
    BY <1>2, <2>1 DEF Tok!OneCreator, Tok!TokenShape, Tok!BeingCreated, Tok!WriteTokenFails
  <2>4. ASSUME NEW q \in Procs
        PROVE  /\ (creating[q] = "absent" => tokenFile = Tok!Missing)'
               /\ (creating[q] = "opened" => tokenFile = Tok!Empty)'
               /\ (held[q] # NoToken => tokenFile = Tok!Whole(held[q]))'
    BY <1>2, <2>1 DEF Tok!OneCreator, Tok!TokenShape, Tok!BeingCreated, Tok!IsWhole,
         Tok!Missing, Tok!Empty, Tok!Whole, Tok!WriteTokenFails
  <2> QED BY <2>2, <2>3, <2>4 DEF Tok!OneCreator
<1> QED BY <1>1, <1>2 DEF Tok!TokenInv

\* So does a death that leaves the file empty.
LEMMA TokenCrashes ==
  ASSUME Tok!TokenInv, NEW S \in SUBSET Procs, Tok!TokenCrash(S)
  PROVE  Tok!TokenInv'
<1>1. Tok!TokenShape'
  BY DEF Tok!TokenInv, Tok!TokenShape, Tok!TokenCrash
<1>2. ASSUME ~collided' PROVE Tok!OneCreator'
  <2>1. ~collided /\ Tok!OneCreator /\ Tok!TokenShape
    BY <1>2 DEF Tok!TokenInv, Tok!TokenCrash
  <2>2. (tokenFile = Tok!Missing \/ (\E q \in Procs : creating[q] = "opened")
           \/ (tokenFile = Tok!Whole(tokenFile.data) /\ tokenFile.data \in Tok!Tokens))'
    BY <1>2, <2>1 DEF Tok!OneCreator, Tok!TokenShape, Tok!TokenCrash
  <2>3. \A q, r \in Procs : (creating[q] # "out" /\ creating[r] # "out" => q = r)'
    BY <1>2, <2>1 DEF Tok!OneCreator, Tok!TokenShape, Tok!BeingCreated, Tok!TokenCrash
  <2>4. ASSUME NEW q \in Procs
        PROVE  /\ (creating[q] = "absent" => tokenFile = Tok!Missing)'
               /\ (creating[q] = "opened" => tokenFile = Tok!Empty)'
               /\ (held[q] # NoToken => tokenFile = Tok!Whole(held[q]))'
    BY <1>2, <2>1 DEF Tok!OneCreator, Tok!TokenShape, Tok!BeingCreated, Tok!IsWhole,
         Tok!Missing, Tok!Empty, Tok!Whole, Tok!TokenCrash
  <2> QED BY <2>2, <2>3, <2>4 DEF Tok!OneCreator
<1> QED BY <1>1, <1>2 DEF Tok!TokenInv

\* Once somebody has the token the file stays as it is.
LEMMA TokenFileStays ==
  ASSUME Tok!TokenInv, ~collided, TokensFromFile, NEW p \in Procs,
         Tok!OpenToken(p) \/ Tok!WriteToken(p)
  PROVE  bearer = NoToken /\ shimToken = NoToken
<1>1. Tok!OneCreator
  BY DEF Tok!TokenInv
<1>2. tokenFile = Tok!Missing \/ tokenFile = Tok!Empty
  BY <1>1 DEF Tok!OneCreator, Tok!OpenToken, Tok!WriteToken
<1>3. \A t : tokenFile # Tok!Whole(t)
  BY <1>2 DEF Tok!Missing, Tok!Empty, Tok!Whole
<1> QED BY <1>3 DEF TokensFromFile

\* Hence who listens and who has shims keep having what the file holds.
LEMMA TokensStay ==
  ASSUME Tok!TokenInv, TokensFromFile, UNCHANGED <<bearer, shimToken>>,
         \/ \E p \in Procs : \/ Tok!LoadToken(p) \/ Tok!NoTokenFile(p) \/ Tok!OpenToken(p)
                             \/ Tok!WriteToken(p) \/ Tok!WriteTokenFails(p)
         \/ UNCHANGED <<tokenFile, collided>>
  PROVE  TokensFromFile'
<1>1. CASE UNCHANGED <<tokenFile, collided>>
  BY <1>1 DEF TokensFromFile, Tok!Whole
<1>2. ASSUME NEW p \in Procs, Tok!LoadToken(p) \/ Tok!NoTokenFile(p) \/ Tok!WriteTokenFails(p)
      PROVE  TokensFromFile'
  BY <1>2 DEF TokensFromFile, Tok!LoadToken, Tok!NoTokenFile, Tok!WriteTokenFails, Tok!Whole
<1>3. ASSUME NEW p \in Procs, Tok!OpenToken(p) \/ Tok!WriteToken(p)
      PROVE  TokensFromFile'
  <2>1. collided' = collided
    BY <1>3 DEF Tok!OpenToken, Tok!WriteToken
  <2>2. CASE collided
    BY <2>1, <2>2 DEF TokensFromFile
  <2>3. CASE ~collided
    BY <1>3, <2>1, <2>3, TokenFileStays DEF TokensFromFile
  <2> QED BY <2>2, <2>3
<1> QED BY <1>1, <1>2, <1>3

-----------------------------------------------------------------------------
(* EventLog: each action of a record keeps EventLogInv                     *)

\* Cardinality is the same operator in the instance.
LEMMA SameCardinality == \A T : Log!Cardinality(T) = Cardinality(T)
BY DEF Log!Cardinality, Cardinality

\* The records under way are finitely many.
LEMMA RecordingFinite ==
  /\ IsFiniteSet(Log!Recording) /\ Cardinality(Log!Recording) \in Nat
  /\ IsFiniteSet(Log!Recording') /\ Cardinality(Log!Recording') \in Nat
<1>1. Log!Recording \subseteq Procs /\ Log!Recording' \subseteq Procs
  BY DEF Log!Recording
<1> QED BY <1>1, ProcsFinite, FS_Subset, FS_CardinalityType

\* What trim keeps of a long list is its last Cap lines.
LEMMA LastLinesAre ==
  ASSUME NEW lines \in Seq(Nat \ {0}), Len(lines) > Cap
  PROVE  /\ Log!LastLines(lines) \in Seq(Nat \ {0})
         /\ Len(Log!LastLines(lines)) = Cap
         /\ \A n \in 1..Cap : Log!LastLines(lines)[n] = lines[Len(lines) - Cap + n]
<1> DEFINE first == Len(lines) - Cap + 1
<1>1. first \in Int /\ Len(lines) \in Int /\ Cap \in Nat \ {0} /\ first >= 1 /\ first <= Len(lines)
  BY CapAssumption
<1>2. \A n \in first..Len(lines) : lines[n] \in Nat \ {0}
  BY <1>1
<1>3. /\ SubSeq(lines, first, Len(lines)) \in Seq(Nat \ {0})
      /\ Len(SubSeq(lines, first, Len(lines))) =
           IF first <= Len(lines) THEN Len(lines) - first + 1 ELSE 0
      /\ \A n \in 1..(Len(lines) - first + 1) :
           SubSeq(lines, first, Len(lines))[n] = lines[first + n - 1]
  <2> HIDE DEF first
  <2> QED BY <1>1, <1>2, SubSeqProperties
<1>4. Len(lines) - first + 1 = Cap /\ \A n \in 1..Cap : first + n - 1 = Len(lines) - Cap + n
  BY <1>1
<1> QED BY <1>1, <1>3, <1>4 DEF Log!LastLines

\* One more line for one more record under way.
LEMMA LogAppends ==
  ASSUME Log!EventLogInv, NEW p \in Procs, Log!AppendEvent(p)
  PROVE  Log!EventLogInv'
<1>1. Log!EventLogShape /\ Log!EventLogShape'
  BY DEF Log!EventLogInv, Log!EventLogShape, Log!AppendEvent
<1>2. Len(log') = Len(log) + 1 /\ Len(log) \in Nat
  BY <1>1 DEF Log!EventLogShape, Log!AppendEvent
<1>3. Cardinality(Log!Recording') = Cardinality(Log!Recording) + 1
  <2>1. Log!Recording' = Log!Recording \cup {p} /\ p \notin Log!Recording
    BY <1>1 DEF Log!EventLogShape, Log!AppendEvent, Log!Recording
  <2>2. IsFiniteSet(Log!Recording)
    BY RecordingFinite
  <2> QED BY <2>1, <2>2, FS_AddElement
<1>4. Len(log') <= Cap + killed' + Cardinality(Log!Recording')
  <2>1. killed' = killed /\ killed \in Nat
    BY <1>1 DEF Log!AppendEvent, Log!EventLogShape
  <2>2. Len(log) <= Cap + killed + Cardinality(Log!Recording)
    BY SameCardinality DEF Log!EventLogInv
  <2> QED BY <1>2, <1>3, <2>1, <2>2, RecordingFinite, CapAssumption
<1>5. ASSUME NEW q \in Procs, Log!Trimming(q)'
      PROVE  Len(kept'[q]) <= Cap
  BY <1>1, <1>5 DEF Log!EventLogInv, Log!EventLogShape, Log!AppendEvent, Log!Trimming
<1>6. ASSUME ~overrun' PROVE Log!SameLines'
  <2>1. Log!SameLines /\ \A q \in Procs : ~Log!Trimming(q) /\ ~Log!Trimming(q)'
    BY <1>1, <1>6 DEF Log!EventLogInv, Log!EventLogShape, Log!AppendEvent, Log!Trimming
  <2>2. Log!Newest(log) /\ Len(log) >= (IF appended < Cap THEN appended ELSE Cap)
    BY <2>1 DEF Log!SameLines, Log!Trimming
  <2>3. ASSUME NEW n \in DOMAIN log' PROVE log'[n] = appended' - Len(log') + n
    BY <1>1, <2>2 DEF Log!Newest, Log!EventLogShape, Log!AppendEvent
  <2>4. Len(log') >= (IF appended' < Cap THEN appended' ELSE Cap)
    <3>1. appended' = appended + 1 /\ appended \in Nat
      BY <1>1 DEF Log!EventLogShape, Log!AppendEvent
    <3> QED BY <1>2, <2>2, <3>1, CapAssumption
  <2> QED BY <2>1, <2>3, <2>4 DEF Log!SameLines, Log!Newest
<1> QED BY <1>1, <1>4, <1>5, <1>6, SameCardinality DEF Log!EventLogInv

\* What is kept is the last Cap lines of the log.
LEMMA LogReadsBack ==
  ASSUME Log!EventLogInv, NEW p \in Procs, Log!ReadBack(p)
  PROVE  Log!EventLogInv'
<1>1. Log!EventLogShape /\ Len(log) \in Nat
  BY DEF Log!EventLogInv, Log!EventLogShape
<1>2. log' = log /\ appended' = appended /\ killed' = killed /\ overrun' = overrun
  BY DEF Log!ReadBack
<1>3. \A q \in Procs : recording'[q] = "emptied" <=> recording[q] = "emptied"
  BY <1>1 DEF Log!EventLogShape, Log!ReadBack
<1>4. CASE Len(log) <= Cap
  <2>1. recording' = [recording EXCEPT ![p] = "out"] /\ kept' = kept
    BY <1>4 DEF Log!ReadBack
  <2>2. Log!EventLogShape'
    BY <1>1, <1>2, <2>1 DEF Log!EventLogShape
  <2>3. Len(log') <= Cap + killed' + Cardinality(Log!Recording')
    <3>1. Cardinality(Log!Recording') \in Nat /\ killed \in Nat
      BY <1>1, RecordingFinite DEF Log!EventLogShape
    <3> QED BY <1>1, <1>2, <1>4, <3>1, CapAssumption
  <2>4. \A q \in Procs : Log!Trimming(q)' => Log!Trimming(q)
    BY <1>1, <2>1 DEF Log!Trimming, Log!EventLogShape, Log!ReadBack
  <2>5. \A q \in Procs : Log!Trimming(q)' => Len(kept'[q]) <= Cap
    BY <2>1, <2>4 DEF Log!EventLogInv
  <2>6. Log!SameLines => Log!SameLines'
    BY <1>2, <1>3, <2>1, <2>4 DEF Log!SameLines, Log!Newest
  <2> QED BY <1>2, <2>2, <2>3, <2>5, <2>6, SameCardinality DEF Log!EventLogInv
<1>5. CASE Len(log) > Cap
  <2>1. /\ recording' = [recording EXCEPT ![p] = "trim"]
        /\ kept' = [kept EXCEPT ![p] = Log!LastLines(log)]
    BY <1>1, <1>5, CapAssumption DEF Log!ReadBack
  <2>2. /\ Log!LastLines(log) \in Seq(Nat \ {0}) /\ Len(Log!LastLines(log)) = Cap
        /\ \A n \in 1..Cap : Log!LastLines(log)[n] = log[Len(log) - Cap + n]
    BY <1>1, <1>5, LastLinesAre DEF Log!EventLogShape
  <2>3. Log!EventLogShape'
    BY <1>1, <1>2, <2>1, <2>2 DEF Log!EventLogShape
  <2>4. Len(log') <= Cap + killed' + Cardinality(Log!Recording')
    <3>1. Log!Recording' = Log!Recording
      BY <1>1, <2>1 DEF Log!EventLogShape, Log!ReadBack, Log!Recording
    <3> QED BY <1>2, <3>1, SameCardinality DEF Log!EventLogInv
  <2>5. ASSUME NEW q \in Procs, Log!Trimming(q)'
        PROVE  \/ q = p /\ kept'[q] = Log!LastLines(log)
               \/ Log!Trimming(q) /\ kept'[q] = kept[q]
    <3>1. CASE q = p
      <4>1. kept \in [Procs -> Seq(Nat \ {0})]
        BY <1>1 DEF Log!EventLogShape
      <4>2. kept'[p] = Log!LastLines(log)
        BY <2>1, <4>1
      <4> QED BY <3>1, <4>2
    <3>2. CASE q # p
      BY <1>1, <2>1, <2>5, <3>2 DEF Log!EventLogShape, Log!Trimming
    <3> QED BY <3>1, <3>2
  <2>6. \A q \in Procs : Log!Trimming(q)' => Len(kept'[q]) <= Cap
    <3>1. Cap <= Cap
      BY CapAssumption
    <3> QED BY <2>2, <2>5, <3>1 DEF Log!EventLogInv
  <2>7. ASSUME ~overrun' PROVE Log!SameLines'
    <3>1. Log!SameLines
      BY <1>2, <2>7 DEF Log!EventLogInv
    <3>2. Log!Newest(log)
      BY <3>1 DEF Log!SameLines
    <3>3. appended > Cap
      <4>1. 1 \in DOMAIN log /\ log[1] \in Nat \ {0} /\ appended \in Nat
        BY <1>1, <1>5, CapAssumption DEF Log!EventLogShape
      <4>2. log[1] = appended - Len(log) + 1
        BY <3>2, <4>1 DEF Log!Newest
      <4> QED BY <1>1, <1>5, <4>1, <4>2, CapAssumption
    <3>4. ASSUME NEW n \in DOMAIN Log!LastLines(log)
          PROVE  Log!LastLines(log)[n] = appended - Cap + n
      <4>1. n \in 1..Cap /\ Len(log) - Cap + n \in DOMAIN log
        BY <1>1, <1>5, <2>2, CapAssumption DEF Log!EventLogShape
      <4>2. Log!LastLines(log)[n] = appended - Len(log) + (Len(log) - Cap + n)
        BY <2>2, <3>2, <4>1 DEF Log!Newest
      <4>3. appended \in Nat
        BY <1>1 DEF Log!EventLogShape
      <4> QED BY <1>1, <4>1, <4>2, <4>3, CapAssumption
    <3>5. Log!Newest(Log!LastLines(log))
      BY <2>2, <3>4 DEF Log!Newest
    <3>6. ASSUME NEW q \in Procs, Log!Trimming(q)'
          PROVE  Log!Newest(kept'[q]) /\ Len(kept'[q]) = Cap /\ appended > Cap
      BY <2>2, <2>5, <3>1, <3>3, <3>5, <3>6 DEF Log!SameLines
    <3> QED BY <1>2, <1>3, <3>1, <3>2, <3>6 DEF Log!SameLines, Log!Newest
  <2> QED BY <2>3, <2>4, <2>6, <2>7, SameCardinality DEF Log!EventLogInv
<1> QED BY <1>1, <1>4, <1>5, CapAssumption

\* An emptied log is about to be written.
LEMMA LogEmpties ==
  ASSUME Log!EventLogInv, NEW p \in Procs, Log!EmptyLog(p)
  PROVE  Log!EventLogInv'
<1>1. Log!EventLogShape /\ Log!EventLogShape'
  BY DEF Log!EventLogInv, Log!EventLogShape, Log!EmptyLog
<1>2. log' = <<>> /\ kept' = kept /\ appended' = appended /\ killed' = killed /\ overrun' = overrun
  BY DEF Log!EmptyLog
<1>3. Len(log') <= Cap + killed' + Cardinality(Log!Recording')
  <2>1. Cardinality(Log!Recording') \in Nat /\ killed \in Nat /\ Len(log') = 0
    BY <1>1, <1>2, RecordingFinite DEF Log!EventLogShape
  <2> QED BY <1>2, <2>1, CapAssumption
<1>4. \A q \in Procs : Log!Trimming(q)' <=> Log!Trimming(q)
  BY <1>1 DEF Log!EventLogShape, Log!EmptyLog, Log!Trimming
<1>5. recording'[p] = "emptied"
  BY <1>1 DEF Log!EventLogShape, Log!EmptyLog
<1>6. \A q \in Procs : Log!Trimming(q)' => Len(kept'[q]) <= Cap
  BY <1>2, <1>4 DEF Log!EventLogInv
<1>7. ASSUME ~overrun' PROVE Log!SameLines'
  <2>1. Log!SameLines
    BY <1>2, <1>7 DEF Log!EventLogInv
  <2>2. \A n \in DOMAIN log' : log'[n] = appended' - Len(log') + n
    BY <1>2
  <2> QED BY <1>2, <1>4, <1>5, <2>1, <2>2 DEF Log!SameLines, Log!Newest
<1> QED BY <1>1, <1>3, <1>6, <1>7, SameCardinality DEF Log!EventLogInv

\* What is written is the newest Cap events.
LEMMA LogWrites ==
  ASSUME Log!EventLogInv, NEW p \in Procs, Log!WriteKept(p)
  PROVE  Log!EventLogInv'
<1>1. Log!EventLogShape /\ Log!EventLogShape'
  BY DEF Log!EventLogInv, Log!EventLogShape, Log!WriteKept
<1>2. log' = kept[p] /\ appended' = appended /\ killed' = killed /\ overrun' = overrun
  BY DEF Log!WriteKept
<1>3. Log!Trimming(p) /\ Len(log') <= Cap /\ Len(log') \in Nat
  BY <1>1, <1>2 DEF Log!EventLogInv, Log!WriteKept, Log!Trimming, Log!EventLogShape
<1>4. Len(log') <= Cap + killed' + Cardinality(Log!Recording')
  <2>1. Cardinality(Log!Recording') \in Nat /\ killed \in Nat
    BY <1>1, RecordingFinite DEF Log!EventLogShape
  <2> QED BY <1>2, <1>3, <2>1, CapAssumption
<1>5. \A q \in Procs : Log!Trimming(q)' => Log!Trimming(q) /\ kept'[q] = kept[q]
  BY <1>1 DEF Log!EventLogShape, Log!WriteKept, Log!Trimming
<1>6. \A q \in Procs : Log!Trimming(q)' => Len(kept'[q]) <= Cap
  BY <1>5 DEF Log!EventLogInv
<1>7. ASSUME ~overrun' PROVE Log!SameLines'
  <2>1. Log!SameLines
    BY <1>2, <1>7 DEF Log!EventLogInv
  <2>2. Log!Newest(kept[p]) /\ Len(kept[p]) = Cap /\ appended > Cap
    BY <1>3, <2>1 DEF Log!SameLines
  <2>3. Len(log') >= (IF appended' < Cap THEN appended' ELSE Cap)
    <3>1. appended \in Nat
      BY <1>1 DEF Log!EventLogShape
    <3> QED BY <1>2, <2>2, <3>1, CapAssumption
  <2> QED BY <1>2, <1>5, <2>1, <2>2, <2>3 DEF Log!SameLines, Log!Newest
<1> QED BY <1>1, <1>4, <1>6, <1>7, SameCardinality DEF Log!EventLogInv

\* A death adds to the records cut off what it takes from those under way.
LEMMA LogCrashes ==
  ASSUME Log!EventLogInv, NEW S \in SUBSET Procs, Log!EventLogCrash(S)
  PROVE  Log!EventLogInv'
<1> DEFINE C == S \cap Log!Recording
<1>1. Log!EventLogShape /\ log' = log /\ appended' = appended
  BY DEF Log!EventLogInv, Log!EventLogCrash
<1>2. killed' = killed + Cardinality(C)
  BY SameCardinality DEF Log!EventLogCrash
<1>3. Cardinality(C) \in Nat
  <2>1. C \subseteq Log!Recording /\ IsFiniteSet(Log!Recording)
    BY RecordingFinite
  <2> QED BY <2>1, FS_Subset, FS_CardinalityType
<1>4. Log!EventLogShape'
  <2>1. kept' \in [Procs -> Seq(Nat \ {0})]
    BY <1>1 DEF Log!EventLogShape, Log!EventLogCrash
  <2>2. recording' \in [Procs -> {"out", "appended", "trim", "emptied"}]
    BY <1>1 DEF Log!EventLogShape, Log!EventLogCrash
  <2>3. killed' \in Nat
    <3>1. killed \in Nat
      BY <1>1 DEF Log!EventLogShape
    <3> QED BY <1>2, <1>3, <3>1
  <2> QED BY <1>1, <2>1, <2>2, <2>3 DEF Log!EventLogShape
<1>5. Cardinality(Log!Recording') = Cardinality(Log!Recording) - Cardinality(C)
  <2>1. Log!Recording' = Log!Recording \ C /\ Log!Recording \cap C = C
    BY <1>1 DEF Log!EventLogShape, Log!EventLogCrash, Log!Recording
  <2>2. IsFiniteSet(Log!Recording)
    BY RecordingFinite
  <2>3. Cardinality(Log!Recording \ C) =
          Cardinality(Log!Recording) - Cardinality(Log!Recording \cap C)
    BY <2>2, FS_Difference
  <2> QED BY <2>1, <2>3
<1>6. Len(log') <= Cap + killed' + Cardinality(Log!Recording')
  <2>1. Len(log) <= Cap + killed + Cardinality(Log!Recording)
    BY SameCardinality DEF Log!EventLogInv
  <2>2. killed \in Nat
    BY <1>1 DEF Log!EventLogShape
  <2> HIDE DEF C
  <2>3. Cap + killed' + Cardinality(Log!Recording') = Cap + killed + Cardinality(Log!Recording)
    BY <1>2, <1>3, <1>5, <2>2, RecordingFinite, CapAssumption
  <2> QED BY <1>1, <2>1, <2>3
<1>7. \A q \in Procs : Log!Trimming(q)' => Log!Trimming(q) /\ kept'[q] = kept[q]
  BY <1>1 DEF Log!EventLogShape, Log!EventLogCrash, Log!Trimming
<1>8. \A q \in Procs : Log!Trimming(q)' => Len(kept'[q]) <= Cap
  BY <1>7 DEF Log!EventLogInv
<1>9. ASSUME ~overrun' PROVE Log!SameLines'
  <2>1. Log!SameLines /\ \A q \in S : recording[q] # "emptied"
    BY <1>9 DEF Log!EventLogInv, Log!EventLogCrash
  <2>2. \A q \in Procs : recording[q] = "emptied" => recording'[q] = "emptied"
    BY <2>1 DEF Log!EventLogCrash
  <2> QED BY <1>1, <1>7, <2>1, <2>2 DEF Log!SameLines, Log!Newest
<1> QED BY <1>4, <1>6, <1>8, <1>9, SameCardinality DEF Log!EventLogInv

-----------------------------------------------------------------------------
(* MachinePicker                                                           *)

\* A machine is added under the name it was named by, with aliases ticked.
LEMMA PickerAdds ==
  ASSUME Picker!PickerInv, Picker!SaveMachine
  PROVE  Picker!PickerInv'
<1> DEFINE g == [name |-> input, routes |-> selected]
<1>1. g \in Picker!Group /\ groups \in Seq(Picker!Group)
  BY DEF Picker!PickerInv, Picker!Group
<1>2. /\ groups' = Append(groups, g) /\ selected' = {} /\ input' = NoName /\ screen' = "name"
      /\ reopened' = reopened /\ filter' = NoFilter /\ screen = "select" /\ selected # {}
  BY DEF Picker!SaveMachine
<1>3. groups' \in Seq(Picker!Group)
  BY <1>1, <1>2
<1>4. ASSUME ~reopened' PROVE Picker!Buildable(groups')
  <2>1. Picker!Buildable(groups) /\ input # NoName /\ ~Picker!HasGroup(input)
    BY <1>2, <1>4 DEF Picker!PickerInv
  <2>2. ASSUME NEW n \in DOMAIN groups'
        PROVE  IF n = Len(groups) + 1 THEN groups'[n] = g
                                      ELSE n \in DOMAIN groups /\ groups'[n] = groups[n]
    BY <1>1, <1>2, <2>2
  <2>3. ASSUME NEW n \in DOMAIN groups' PROVE groups'[n].name # NoName /\ groups'[n].routes # {}
    BY <1>2, <2>1, <2>2 DEF Picker!Buildable
  <2>4. ASSUME NEW n \in DOMAIN groups', NEW m \in DOMAIN groups', n # m
        PROVE  groups'[n].name # groups'[m].name
    <3>1. g.name = input /\ \A k \in DOMAIN groups : groups[k].name # input
      BY <2>1 DEF Picker!HasGroup
    <3> QED BY <2>1, <2>2, <2>4, <3>1 DEF Picker!Buildable
  <2> QED BY <2>3, <2>4 DEF Picker!Buildable
<1> QED BY <1>2, <1>3, <1>4 DEF Picker!PickerInv

LEMMA PickerSteps ==
  ASSUME Picker!PickerInv, Picker!PickerNext
  PROVE  Picker!PickerInv'
<1>1. CASE Picker!SaveMachine
  BY <1>1, PickerAdds
<1>2. CASE Picker!TypeName
  BY <1>2 DEF Picker!PickerInv, Picker!TypeName, Picker!Buildable
<1>3. CASE Picker!EnterName
  BY <1>3 DEF Picker!PickerInv, Picker!EnterName, Picker!Buildable, Picker!HasGroup
<1>4. CASE Picker!ReviewFromName \/ Picker!ReviewFromSelect \/ Picker!Accept \/ Picker!Cancel
  BY <1>4 DEF Picker!PickerInv, Picker!ReviewFromName, Picker!ReviewFromSelect,
       Picker!Accept, Picker!Cancel, Picker!Buildable
<1>5. CASE Picker!OpenFilter \/ Picker!CloseFilter \/ Picker!TypeFilter \/ Picker!MoveCursor
  BY <1>5 DEF Picker!PickerInv, Picker!OpenFilter, Picker!CloseFilter, Picker!TypeFilter,
       Picker!MoveCursor, Picker!Buildable, Picker!HasGroup
<1>6. CASE Picker!ToggleAlias \/ Picker!ResetSelection
  <2>1. Picker!Shown(filter) \subseteq 1..Aliases
    BY MatchingAssumption DEF Picker!Shown, Picker!PickerInv
  <2>2. selected' \subseteq 1..Aliases
    BY <1>6, <2>1 DEF Picker!PickerInv, Picker!ToggleAlias, Picker!ResetSelection
  <2> QED BY <1>6, <2>2 DEF Picker!PickerInv, Picker!ToggleAlias, Picker!ResetSelection,
       Picker!Buildable, Picker!HasGroup
<1>7. CASE Picker!ReopenList
  BY <1>7 DEF Picker!PickerInv, Picker!ReopenList
<1> QED BY <1>1, <1>2, <1>3, <1>4, <1>5, <1>6, <1>7 DEF Picker!PickerNext

-----------------------------------------------------------------------------
(* The composition                                                         *)

\* A part of the invariant says nothing of other parts' variables.
LEMMA OthersStay ==
  /\ Reg!RegistryInv /\ UNCHANGED regVars => Reg!RegistryInv'
  /\ Log!EventLogInv /\ UNCHANGED logVars => Log!EventLogInv'
  /\ Tok!TokenInv /\ UNCHANGED tokenVars => Tok!TokenInv'
  /\ Cfg!ConfigInv /\ UNCHANGED configVars => Cfg!ConfigInv'
  /\ Picker!PickerInv /\ UNCHANGED pickerVars => Picker!PickerInv'
<1>1. Reg!RegistryInv /\ UNCHANGED regVars => Reg!RegistryInv'
  BY DEF regVars, Reg!RegistryInv, Reg!RegistryShape, Reg!Undisturbed, Reg!Readable,
     Reg!Entries, Reg!AtTmp, Reg!Apply
<1>2. Log!EventLogInv /\ UNCHANGED logVars => Log!EventLogInv'
  <2>1. ASSUME UNCHANGED logVars
        PROVE  /\ Log!EventLogShape => Log!EventLogShape'
               /\ Log!Recording' = Log!Recording
               /\ \A p \in Procs : Log!Trimming(p)' <=> Log!Trimming(p)
               /\ Log!SameLines => Log!SameLines'
    BY <2>1 DEF logVars, Log!EventLogShape, Log!Recording, Log!Trimming, Log!SameLines,
       Log!Newest
  <2>2. ASSUME Log!EventLogInv, UNCHANGED logVars
        PROVE  Len(log') <= Cap + killed' + Log!Cardinality(Log!Recording')
    BY <2>1, <2>2 DEF logVars, Log!EventLogInv
  <2> QED BY <2>1, <2>2 DEF logVars, Log!EventLogInv
<1>3. Tok!TokenInv /\ UNCHANGED tokenVars => Tok!TokenInv'
  BY DEF tokenVars, Tok!TokenInv, Tok!TokenShape, Tok!OneCreator, Tok!Whole
<1>4. Cfg!ConfigInv /\ UNCHANGED configVars => Cfg!ConfigInv'
  BY DEF configVars, Cfg!ConfigInv, Cfg!ConfigShape, Cfg!OneWriter, Cfg!Decoded
<1>5. Picker!PickerInv /\ UNCHANGED pickerVars => Picker!PickerInv'
  BY DEF pickerVars, Picker!PickerInv, Picker!Buildable, Picker!HasGroup
<1> QED BY <1>1, <1>2, <1>3, <1>4, <1>5

LEMMA FilesInvHoldsAtStart ==
  ASSUME Init
  PROVE  FilesInv
<1>1. Reg!RegistryInv
  BY DEF Init, Reg!RegistryInit, Reg!RegistryInv, Reg!RegistryShape, Reg!Undisturbed,
     Reg!Readable, Reg!Entries, Reg!AtTmp, Reg!IsWhole, Reg!Missing
<1>2. Log!EventLogInv
  <2>1. Log!EventLogShape
    BY DEF Init, Log!EventLogInit, Log!EventLogShape
  <2>2. Len(log) = 0 /\ log = <<>> /\ killed = 0 /\ appended = 0
    BY DEF Init, Log!EventLogInit
  <2>3. Len(log) <= Cap + killed + Log!Cardinality(Log!Recording)
    BY <2>2, RecordingFinite, SameCardinality, CapAssumption
  <2>4. \A p \in Procs : ~Log!Trimming(p)
    BY DEF Init, Log!EventLogInit, Log!Trimming
  <2>5. Log!SameLines
    BY <2>2, <2>4, CapAssumption DEF Log!SameLines, Log!Newest
  <2> QED BY <2>1, <2>3, <2>4, <2>5 DEF Log!EventLogInv
<1>3. Tok!TokenInv
  BY DEF Init, Tok!LocalTokenInit, Tok!TokenInv, Tok!TokenShape, Tok!OneCreator
<1>4. Cfg!ConfigInv
  <2>1. PICK w \in Workloads :
          /\ owner = w.owner /\ todo = w.jobs
          /\ Cfg!ConfigFileInit(w.machines)
          /\ ChoiceInit /\ (w.measures \/ Unmeasured)
    BY Zenon DEF Init
  <2>2. /\ editing = [p \in Procs |-> "out"] /\ outdated = [p \in Procs |-> FALSE]
        /\ change = [p \in Procs |-> Cfg!NoChange] /\ draft = [p \in Procs |-> Cfg!NoConfig]
    BY <2>1 DEF Cfg!ConfigFileInit
  <2>3. CASE w.machines = {}
    <3>1. configFile = Cfg!Missing /\ intended = Cfg!NoConfig
      BY <2>1, <2>3 DEF Cfg!ConfigFileInit, Cfg!NoConfig
    <3>2. configFile # Cfg!Torn /\ Cfg!Decoded(configFile) = intended
      BY <3>1 DEF Cfg!Decoded, Cfg!IsWhole, Cfg!Missing, Cfg!Torn
    <3> QED BY <2>2, <3>2 DEF Cfg!ConfigInv, Cfg!ConfigShape, Cfg!OneWriter
  <2>4. CASE w.machines # {}
    <3>1. configFile = Cfg!Whole(intended)
      BY <2>1, <2>4 DEF Cfg!ConfigFileInit
    <3>2. configFile # Cfg!Torn /\ Cfg!Decoded(configFile) = intended
      BY <3>1 DEF Cfg!Decoded, Cfg!IsWhole, Cfg!Whole, Cfg!Torn
    <3> QED BY <2>2, <3>2 DEF Cfg!ConfigInv, Cfg!ConfigShape, Cfg!OneWriter
  <2> QED BY <2>3, <2>4
<1>5. Picker!PickerInv
  BY DEF Init, Picker!PickerInit, Picker!PickerInv, Picker!Buildable
<1>6. TokensFromFile
  BY DEF Init, TokensFromFile
<1> QED BY <1>1, <1>2, <1>3, <1>4, <1>5, <1>6 DEF FilesInv

\* Who takes the token to listen, or to install shims, has it from the file.
LEMMA TokenTaken ==
  ASSUME FilesInv, NEW p \in Procs, Listen(p) \/ InstallShims(p)
  PROVE  TokensFromFile'
<1>1. tokenFile' = tokenFile /\ collided' = collided
  BY DEF Listen, InstallShims, tokenVars
<1>2. CASE collided
  BY <1>1, <1>2 DEF TokensFromFile
<1>3. CASE ~collided
  <2>1. held[p] # NoToken => tokenFile = Tok!Whole(held[p])
    BY <1>3 DEF FilesInv, Tok!TokenInv, Tok!OneCreator
  <2>2. (bearer' = held[p] \/ bearer' = bearer) /\ (shimToken' = held[p] \/ shimToken' = shimToken)
    BY DEF Listen, InstallShims
  <2>3. /\ bearer # NoToken => tokenFile = Tok!Whole(bearer)
        /\ shimToken # NoToken => tokenFile = Tok!Whole(shimToken)
    BY <1>3 DEF FilesInv, TokensFromFile
  <2>4. /\ bearer' # NoToken => tokenFile' = Tok!Whole(bearer')
        /\ shimToken' # NoToken => tokenFile' = Tok!Whole(shimToken')
    BY <1>1, <2>1, <2>2, <2>3
  <2> QED BY <2>4 DEF TokensFromFile, Tok!Whole
<1> QED BY <1>2, <1>3

\* An action of one component: the part it touches is kept by that
\* component's lemmas, the others by OthersStay.
LEMMA StepKeepsFiles ==
  ASSUME FilesInv, NEW p \in Procs, Step(p)
  PROVE  FilesInv'
<1> USE OthersStay DEF FilesInv
<1>1. CASE RecordHost(p)
  <2>1. Reg!RegistryInv'
    BY <1>1, RegistryLoads, RegistryOpens, RegistryWrites, RegistryWriteFails, RegistryRenames,
       RegistryRenameFails DEF RecordHost, Reg!LoadHostsFails, Reg!regVars, regVars
  <2>2. TokensFromFile'
    BY <1>1, TokensStay DEF RecordHost, others, tokenVars
  <2> QED BY <1>1, <2>1, <2>2 DEF RecordHost
<1>2. CASE RecordEvent(p)
  <2>1. Log!EventLogInv'
    BY <1>2, LogAppends, LogReadsBack, LogEmpties, LogWrites DEF RecordEvent
  <2>2. TokensFromFile'
    BY <1>2, TokensStay DEF RecordEvent, others, tokenVars
  <2> QED BY <1>2, <2>1, <2>2 DEF RecordEvent
<1>3. CASE UseToken(p)
  <2>1. Tok!TokenInv'
    BY <1>3, TokenLoads, TokenAbsent, TokenOpens, TokenWrites, TokenWriteFails DEF UseToken
  <2>2. TokensFromFile'
    BY <1>3, TokensStay DEF UseToken, others
  <2> QED BY <1>3, <2>1, <2>2 DEF UseToken
<1>4. CASE Listen(p) \/ InstallShims(p)
  BY <1>4, TokenTaken DEF Listen, InstallShims
<1>5. CASE EditConfig(p)
  <2>1. Cfg!ConfigInv'
    BY <1>5, ConfigLoads, ConfigOpens, ConfigWrites, ConfigWriteFails
    DEF EditConfig, Cfg!LoadConfigFails, Cfg!configVars, configVars
  <2>2. TokensFromFile'
    BY <1>5, TokensStay DEF EditConfig, others, tokenVars
  <2> QED BY <1>5, <2>1, <2>2 DEF EditConfig
<1>6. CASE PickMachines(p)
  <2>1. TokensFromFile'
    BY <1>6, TokensStay DEF PickMachines, others, tokenVars
  <2> QED BY <1>6, <2>1, PickerSteps DEF PickMachines
<1>7. CASE ReadConfig(p) \/ BuildConfig(p) \/ RunTest(p) \/ TestEnds(p)
  <2>1. UNCHANGED <<regVars, logVars, tokenVars, configVars, pickerVars, bearer, shimToken>>
    BY <1>7 DEF ReadConfig, BuildConfig, RunTest, TestEnds, others
  <2>2. TokensFromFile'
    BY <2>1, TokensStay DEF tokenVars
  <2> QED BY <2>1, <2>2
<1> QED BY <1>1, <1>2, <1>3, <1>4, <1>5, <1>6, <1>7 DEF Step

\* A death takes the goroutines of one process from every component.
LEMMA CrashKeepsFiles ==
  ASSUME FilesInv, NEW o, Crash(o)
  PROVE  FilesInv'
<1> DEFINE S == {p \in Procs : owner[p] = o}
<1>1. /\ Reg!RegistryCrash(S) /\ Log!EventLogCrash(S) /\ Tok!TokenCrash(S) /\ Cfg!ConfigCrash(S)
      /\ S \in SUBSET Procs
  BY DEF Crash
<1>2. Reg!RegistryInv' /\ Log!EventLogInv' /\ Tok!TokenInv' /\ Cfg!ConfigInv'
  <2> HIDE DEF S
  <2> QED BY <1>1, RegistryCrashes, LogCrashes, TokenCrashes, ConfigCrashes DEF FilesInv
<1>3. Picker!PickerInv'
  <2>1. CASE UNCHANGED pickerVars
    BY <2>1, OthersStay DEF FilesInv
  <2>2. CASE screen' = "cancelled" /\ UNCHANGED <<filterMode, filter, cursor, selected,
                                                  groups, input, reopened>>
    BY <2>2 DEF FilesInv, Picker!PickerInv, Picker!Buildable
  <2> QED BY <2>1, <2>2 DEF Crash
<1>4. TokensFromFile'
  <2>1. tokenFile' = tokenFile /\ (~collided' => ~collided)
    BY <1>1 DEF Tok!TokenCrash
  <2>2. (bearer' = NoToken \/ bearer' = bearer) /\ shimToken' = shimToken
    BY DEF Crash
  <2>3. TokensFromFile
    BY DEF FilesInv
  <2>4. ~collided' => /\ bearer' # NoToken => tokenFile' = Tok!Whole(bearer')
                      /\ shimToken' # NoToken => tokenFile' = Tok!Whole(shimToken')
    BY <2>1, <2>2, <2>3 DEF TokensFromFile
  <2> QED BY <2>4 DEF TokensFromFile, Tok!Whole
<1> QED BY <1>2, <1>3, <1>4 DEF FilesInv

LEMMA FilesInvIsInductive == FilesInv /\ [Next]_vars => FilesInv'
<1> SUFFICES ASSUME FilesInv, [Next]_vars PROVE FilesInv'
  OBVIOUS
<1>1. CASE UNCHANGED vars
  <2>1. UNCHANGED <<regVars, logVars, tokenVars, configVars, pickerVars, bearer, shimToken>>
    BY <1>1 DEF vars, workVars
  <2>2. TokensFromFile'
    BY <2>1, TokensStay DEF FilesInv, tokenVars
  <2> QED BY <2>1, <2>2, OthersStay DEF FilesInv
<1> QED BY <1>1, StepKeepsFiles, CrashKeepsFiles DEF Next, Finished

\* The files stay as their writers left them (LoadHosts, OpenTmp, AppendEvent,
\* LoadToken, OpenConfig, EnterName and the rest), for any jobs and bounds.
THEOREM FilesInvHolds == Spec => []FilesInv
BY FilesInvHoldsAtStart, FilesInvIsInductive, PTL DEF Spec

-----------------------------------------------------------------------------
(* What it means                                                           *)

\* hosts.json can be read and holds what every save that ended recorded,
\* unless two saves met (registry.Load, UpdateHost, Save).
THEOREM RegistryIsKept == Spec => []RegistryKept
<1>1. FilesInv => RegistryKept
  BY DEF FilesInv, RegistryKept, Reg!RegistryKept, Reg!RegistryInv, Reg!Undisturbed
<1> QED BY <1>1, FilesInvHolds, PTL

\* The event log holds the newest events in order and is trimmed (eventlog.Record).
THEOREM LogIsKept == Spec => []LogKept
<1>1. FilesInv => LogKept
  <2>1. ASSUME Log!EventLogInv PROVE Log!LogKept
    BY <2>1 DEF Log!EventLogInv, Log!SameLines, Log!Newest, Log!LogKept
  <2> QED BY <2>1 DEF FilesInv, LogKept
<1> QED BY <1>1, FilesInvHolds, PTL

\* Onboarding, installation and the iTerm setup keep each other's part of
\* config.toml, unless two of them met or one was cut off (Config.Save).
THEOREM ConfigIsKept == Spec => []ConfigKept
<1>1. FilesInv => ConfigKept
  BY DEF FilesInv, ConfigKept, Cfg!ConfigKept, Cfg!ConfigInv, Cfg!OneWriter, Cfg!ConfigShape
<1> QED BY <1>1, FilesInvHolds, PTL

\* Remote shims have the token a listening daemon asks for, unless its
\* creation was disturbed (token.LoadOrCreate).
THEOREM ShimsAreAuthorized == Spec => []ShimsAuthorized
<1>1. ASSUME FilesInv, ~collided, bearer # NoToken
      PROVE  bearer # EmptyToken /\ (shimToken # NoToken => shimToken = bearer)
  <2>1. tokenFile = Tok!Whole(bearer) /\ (shimToken # NoToken => tokenFile = Tok!Whole(shimToken))
    BY <1>1 DEF FilesInv, TokensFromFile
  <2>2. Tok!OneCreator
    BY <1>1 DEF FilesInv, Tok!TokenInv
  <2>3. tokenFile # Tok!Missing /\ tokenFile # Tok!Empty /\ tokenFile.data = bearer
    BY <2>1 DEF Tok!Whole, Tok!Missing, Tok!Empty
  <2>4. bearer \in Tok!Tokens
    BY <2>2, <2>3 DEF Tok!OneCreator
  <2>5. bearer # EmptyToken
    BY <2>4, TokensAssumption DEF Tok!Tokens
  <2>6. shimToken # NoToken => shimToken = bearer
    BY <2>1, <2>3 DEF Tok!Whole
  <2> QED BY <2>5, <2>6
<1>2. FilesInv => ShimsAuthorized
  BY <1>1 DEF ShimsAuthorized, Authorized
<1> QED BY <1>2, FilesInvHolds, PTL

\* A configuration with a machine can be built from what the user accepts in
\* onboarding, unless they went back from the review (TUIModel.Update).
THEOREM GroupsAreBuildable == Spec => []GroupsBuildable
<1>1. FilesInv => GroupsBuildable
  BY DEF FilesInv, GroupsBuildable, Picker!GroupsBuildable, Picker!PickerInv
<1> QED BY <1>1, FilesInvHolds, PTL

-----------------------------------------------------------------------------
(* The test paste                                                          *)

\* A measurement runs only as the test paste lets it: nothing else touches it.
LEMMA MeasuresUndisturbed ==
  ASSUME [Next]_vars
  PROVE  [ChoiceNext]_choiceVars
<1>1. ASSUME NEW p \in Procs, Step(p) PROVE [ChoiceNext]_choiceVars
  <2>1. CASE RunTest(p)
    BY <2>1 DEF RunTest, LookUp, TestNext, Measure, Measured, TryUpload, Remeasured, TryAgain
  <2>2. CASE ~RunTest(p)
    BY <1>1, <2>2 DEF Step, RecordHost, RecordEvent, UseToken, Listen, InstallShims, ReadConfig,
       EditConfig, PickMachines, BuildConfig, TestEnds, trialVars
  <2> QED BY <2>1, <2>2
<1>2. ASSUME NEW o, Crash(o) PROVE UNCHANGED choiceVars
  BY <1>2 DEF Crash, trialVars
<1>3. ASSUME UNCHANGED vars PROVE UNCHANGED choiceVars
  BY <1>3 DEF vars, trialVars
<1> QED BY <1>1, <1>2, <1>3 DEF Next, Finished

\* The programs at the local files implement RefreshHost as it is alone.
THEOREM MeasuresAsAlone == Spec => ChoiceSpec
<1>1. Init => ChoiceInit
  <2> SUFFICES ASSUME Init PROVE ChoiceInit
    OBVIOUS
  <2>1. \E w \in Workloads :
          /\ owner = w.owner /\ todo = w.jobs
          /\ Cfg!ConfigFileInit(w.machines)
          /\ ChoiceInit /\ (w.measures \/ Unmeasured)
    BY Zenon DEF Init
  <2> QED BY <2>1
<1>2. [Next]_vars => [ChoiceNext]_choiceVars
  BY MeasuresUndisturbed
<1> QED BY <1>1, <1>2, PTL DEF Spec, ChoiceSpec

\* The test paste goes over a route at most the tie window slower than the
\* fastest that works, if it measures at all (Manager.RefreshHost).
THEOREM TestNotMuchSlower == Spec => []NotMuchSlower
BY MeasuresAsAlone, NotMuchSlowerAlways, PTL

\* and the priority decides among routes that are close.
THEOREM TestByPriority == Spec => []PriorityDecides
BY MeasuresAsAlone, PriorityAlwaysDecides, PTL

\* A test paste fails only after a measurement, and over the route it picked,
\* however old the route remembered in the registry (testpaste.Run).
THEOREM TestMeasuresFirst == Spec => []TestMeasuresBeforeFailing
<1>1. Init => TestInv
  BY DEF Init, TestInit, TestInv
<1>2. TestInv /\ [Next]_vars => TestInv'
  <2> SUFFICES ASSUME TestInv, [Next]_vars PROVE TestInv'
    OBVIOUS
  <2>1. ASSUME NEW p \in Procs, RunTest(p) PROVE TestInv'
    <3>1. CASE \E name : LookUp(name)
      BY <3>1 DEF LookUp, TestInv
    <3>2. CASE Measure
      BY <3>2 DEF Measure, testVars, TestInv
    <3>3. CASE Measured
      BY <3>3 DEF Measured, choiceVars, TestInv
    <3>4. CASE TryUpload
      BY <3>4 DEF TryUpload, choiceVars, TestInv
    <3>5. CASE Remeasured
      BY <3>5 DEF Remeasured, choiceVars, TestInv
    <3>6. CASE TryAgain
      BY <3>6 DEF TryAgain, choiceVars, TestInv
    <3> QED BY <2>1, <3>1, <3>2, <3>3, <3>4, <3>5, <3>6 DEF RunTest, TestNext
  <2>2. ASSUME UNCHANGED trialVars PROVE TestInv'
    BY <2>2 DEF trialVars, choiceVars, testVars, TestInv
  <2>3. ASSUME NEW p \in Procs, Step(p), ~RunTest(p) PROVE UNCHANGED trialVars
    BY <2>3 DEF Step, RecordHost, RecordEvent, UseToken, Listen, InstallShims, ReadConfig,
       EditConfig, PickMachines, BuildConfig, TestEnds
  <2>4. ASSUME NEW o, Crash(o) PROVE TestInv'
    <3>1. CASE trial' = "out"
      BY <3>1 DEF TestInv
    <3>2. CASE UNCHANGED trialVars
      BY <3>2, <2>2
    <3> QED BY <2>4, <3>1, <3>2 DEF Crash
  <2>5. ASSUME UNCHANGED vars PROVE TestInv'
    BY <2>5, <2>2 DEF vars
  <2> QED BY <2>1, <2>2, <2>3, <2>4, <2>5 DEF Next, Finished
<1>3. TestInv => TestMeasuresBeforeFailing
  BY DEF TestInv, TestMeasuresBeforeFailing
<1> QED BY <1>1, <1>2, <1>3, PTL DEF Spec

-----------------------------------------------------------------------------
(* Type correctness, component by component                                *)

\* What FileContents says of a file, for the registry, the token and the
\* configuration alike.
LEMMA FileKinds ==
  ASSUME NEW X, NEW x \in X
  PROVE  /\ Reg!Holds(Reg!Missing, X) /\ Reg!Holds(Reg!Empty, X) /\ Reg!Holds(Reg!Torn, X)
         /\ Reg!Holds(Reg!Whole(x), X)
         /\ \A old : \A c \in Reg!Overwrite(old, x) : Reg!Holds(c, X)
BY DEF Reg!Holds, Reg!Whole, Reg!Overwrite

\* Applying an update to a table gives a table.
LEMMA ApplyType ==
  ASSUME NEW t \in Reg!Table, NEW u \in Reg!Update
  PROVE  Reg!Apply(t, u) \in Reg!Table
<1>1. u.host \in Hosts /\ u.field \in Reg!Fields /\ u.value \in Values
  BY DEF Reg!Update
<1>2. t[u.host] \in [Reg!Fields -> Values \cup {NoValue}]
  BY <1>1 DEF Reg!Table
<1>3. [t[u.host] EXCEPT ![u.field] = u.value] \in [Reg!Fields -> Values \cup {NoValue}]
  BY <1>1, <1>2
<1> QED BY <1>3 DEF Reg!Table, Reg!Apply

\* A file of the registry reads as a table.
LEMMA EntriesType ==
  ASSUME NEW file, Reg!Holds(file, Reg!Table)
  PROVE  Reg!Entries(file) \in Reg!Table
<1>1. Reg!NoEntries \in Reg!Table
  BY DEF Reg!NoEntries, Reg!Table
<1>2. Reg!IsWhole(file) => file.data \in Reg!Table
  BY DEF Reg!IsWhole, Reg!Holds, Reg!Missing, Reg!Empty, Reg!Torn
<1> QED BY <1>1, <1>2 DEF Reg!Entries

\* Typed, and a process that saves has an update to save.
RegistryTyped ==
  Reg!RegistryTypeOK /\ \A p \in Procs : saving[p] # "out" => update[p] \in Reg!Update

\* The registry, its temporary file and the copies of them keep their types.
LEMMA RegistryTypes ==
  ASSUME RegistryTyped, NEW p \in Procs,
         \/ \E u \in Reg!Update : Reg!LoadHosts(p, u)
         \/ Reg!LoadHostsFails(p) \/ Reg!OpenTmp(p) \/ Reg!WriteTmp(p) \/ Reg!WriteTmpFails(p)
         \/ Reg!RenameTmp(p) \/ Reg!RenameTmpFails(p)
  PROVE  RegistryTyped'
<1> USE DEF RegistryTyped, Reg!RegistryTypeOK
<1>0. Reg!NoEntries \in Reg!Table
  BY DEF Reg!NoEntries, Reg!Table
<1>1. ASSUME NEW u \in Reg!Update, Reg!LoadHosts(p, u) PROVE RegistryTyped'
  <2>1. Reg!Apply(Reg!Entries(hosts), u) \in Reg!Table
    BY EntriesType, ApplyType
  <2> QED BY <1>1, <2>1 DEF Reg!LoadHosts
<1>2. CASE Reg!LoadHostsFails(p)
  BY <1>2 DEF Reg!LoadHostsFails, Reg!regVars
<1>3. CASE Reg!OpenTmp(p)
  BY <1>3, FileKinds, <1>0 DEF Reg!OpenTmp
<1>4. CASE Reg!WriteTmp(p)
  <2>1. \A c \in Reg!Overwrite(Reg!Opened(p), table[p]) : Reg!Holds(c, Reg!Table)
    BY FileKinds
  <2>2. Reg!Holds(hosts', Reg!Table) /\ Reg!Holds(tmp', Reg!Table)
    BY <1>4, <2>1 DEF Reg!WriteTmp, Reg!ChangeOpened
  <2> QED BY <1>4, <2>2 DEF Reg!WriteTmp
<1>5. CASE Reg!WriteTmpFails(p)
  <2>1. Reg!Holds(hosts', Reg!Table) /\ Reg!Holds(tmp', Reg!Table)
    BY <1>5, <1>0, FileKinds DEF Reg!WriteTmpFails, Reg!ChangeOpened
  <2> QED BY <1>0, <1>5, <2>1 DEF Reg!WriteTmpFails, Reg!Leave
<1>6. CASE Reg!RenameTmp(p)
  <2>1. update[p] \in Reg!Update /\ truth' \in Reg!Table
    BY <1>6, ApplyType DEF Reg!RenameTmp
  <2> QED BY <1>0, <1>6, <2>1, FileKinds DEF Reg!RenameTmp
<1>7. CASE Reg!RenameTmpFails(p)
  BY <1>0, <1>7 DEF Reg!RenameTmpFails, Reg!Leave
<1> QED BY <1>1, <1>2, <1>3, <1>4, <1>5, <1>6, <1>7

\* Also the death of a process leaves them so.
LEMMA RegistryCrashTypes ==
  ASSUME RegistryTyped, NEW S \in SUBSET Procs, Reg!RegistryCrash(S)
  PROVE  RegistryTyped'
<1>1. Reg!NoEntries \in Reg!Table
  BY DEF Reg!NoEntries, Reg!Table
<1> QED BY <1>1 DEF RegistryTyped, Reg!RegistryTypeOK, Reg!RegistryCrash, Reg!Leave

-----------------------------------------------------------------------------
\* The event log has numbers of events that were appended.
LEMMA LogTypes ==
  ASSUME Log!EventLogTypeOK, NEW p \in Procs,
         Log!AppendEvent(p) \/ Log!ReadBack(p) \/ Log!EmptyLog(p) \/ Log!WriteKept(p)
  PROVE  Log!EventLogTypeOK'
<1> USE DEF Log!EventLogTypeOK
<1>1. CASE Log!AppendEvent(p)
  <2>1. appended' = appended + 1 /\ 1..appended \subseteq 1..appended' /\ appended + 1 \in 1..appended'
    BY <1>1 DEF Log!AppendEvent
  <2>2. log' = Append(log, appended + 1) /\ log \in Seq(1..appended') /\ kept' = kept
    BY <1>1, <2>1 DEF Log!AppendEvent
  <2>3. log' \in Seq(1..appended')
    BY <2>1, <2>2
  <2>4. kept' \in [Procs -> Seq(1..appended')]
    BY <2>1, <2>2
  <2> QED BY <1>1, <2>1, <2>3, <2>4 DEF Log!AppendEvent
<1>2. CASE Log!ReadBack(p)
  <2>1. CASE Len(log) <= Cap
    BY <1>2, <2>1 DEF Log!ReadBack
  <2>2. CASE ~(Len(log) <= Cap)
    <3>1. Log!LastLines(log) \in Seq(1..appended)
      BY <2>2, CapAssumption DEF Log!LastLines
    <3> QED BY <1>2, <2>2, <3>1 DEF Log!ReadBack
  <2> QED BY <2>1, <2>2
<1>3. CASE Log!EmptyLog(p)
  BY <1>3 DEF Log!EmptyLog
<1>4. CASE Log!WriteKept(p)
  BY <1>4 DEF Log!WriteKept
<1> QED BY <1>1, <1>2, <1>3, <1>4

\* Also when goroutines die.
LEMMA LogCrashTypes ==
  ASSUME Log!EventLogTypeOK, NEW S \in SUBSET Procs, Log!EventLogCrash(S)
  PROVE  Log!EventLogTypeOK'
<1>1. Log!Cardinality(S \cap Log!Recording) \in Nat
  <2> DEFINE cut == S \cap Log!Recording
  <2>1. cut \subseteq Procs
    OBVIOUS
  <2> HIDE DEF cut
  <2>2. Cardinality(cut) \in Nat
    BY <2>1, ProcsFinite, FS_Subset, FS_CardinalityType
  <2>3. Log!Cardinality(cut) = Cardinality(cut)
    BY SameCardinality
  <2> QED BY <2>2, <2>3 DEF cut
<1>2. <<>> \in Seq(1..appended)
  OBVIOUS
<1> DEFINE more == Log!Cardinality(S \cap Log!Recording)
<1>3. killed' = killed + more
  BY DEF Log!EventLogCrash
<1> HIDE DEF more
<1>4. killed' \in Nat
  BY <1>1, <1>3 DEF Log!EventLogTypeOK, more
<1> QED BY <1>2, <1>4 DEF Log!EventLogTypeOK, Log!EventLogCrash

-----------------------------------------------------------------------------
\* The token file and the tokens of the processes.
LEMMA TokenTypes ==
  ASSUME Tok!LocalTokenTypeOK, NEW p \in Procs,
         \/ Tok!LoadToken(p) \/ Tok!NoTokenFile(p) \/ Tok!OpenToken(p) \/ Tok!WriteToken(p)
         \/ Tok!WriteTokenFails(p)
  PROVE  Tok!LocalTokenTypeOK'
<1> USE DEF Tok!LocalTokenTypeOK
<1>1. CASE Tok!LoadToken(p)
  <2>1. Tok!IsWhole(tokenFile) => tokenFile.data \in Tok!Tokens
    BY DEF Tok!IsWhole, Tok!Holds, Tok!Missing, Tok!Empty, Tok!Torn
  <2> QED BY <1>1, <2>1 DEF Tok!LoadToken
<1>2. CASE Tok!NoTokenFile(p) \/ Tok!WriteTokenFails(p)
  BY <1>2 DEF Tok!NoTokenFile, Tok!WriteTokenFails
<1>3. CASE Tok!OpenToken(p)
  BY <1>3 DEF Tok!OpenToken, Tok!Holds, Tok!Empty, Tok!Torn
<1>4. CASE Tok!WriteToken(p)
  <2>1. Drawn[p] \in Tok!Tokens
    BY DEF Tok!Tokens
  <2>2. Tok!Holds(Tok!Whole(Drawn[p]), Tok!Tokens) /\ Tok!Whole(Drawn[p]) # Tok!Torn
    BY <2>1 DEF Tok!Holds, Tok!Whole, Tok!Torn
  <2> QED BY <1>4, <2>1, <2>2 DEF Tok!WriteToken
<1> QED BY <1>1, <1>2, <1>3, <1>4

\* Also when processes die.
LEMMA TokenCrashTypes ==
  ASSUME Tok!LocalTokenTypeOK, NEW S \in SUBSET Procs, Tok!TokenCrash(S)
  PROVE  Tok!LocalTokenTypeOK'
BY DEF Tok!LocalTokenTypeOK, Tok!TokenCrash

-----------------------------------------------------------------------------
\* A change of a configuration gives a configuration.
LEMMA ChangedType ==
  ASSUME NEW cfg \in Cfg!Config, NEW c \in Cfg!Change
  PROVE  Cfg!Changed(cfg, c) \in Cfg!Config
<1>1. cfg.machines \in SUBSET Machines /\ cfg.local \in Cfg!Local
  BY DEF Cfg!Config
<1>2. CASE c \in [op : {"install"}, install : Installs \cup {Unset}, key : HotKeys \cup {Unset}]
  <2>1. Cfg!WithInstall(cfg.local, c) \in Cfg!Local
    BY <1>1, <1>2 DEF Cfg!WithInstall, Cfg!Local
  <2>2. Cfg!Changed(cfg, c) = [cfg EXCEPT !.local = Cfg!WithInstall(cfg.local, c)]
    BY <1>2 DEF Cfg!Changed
  <2> QED BY <2>1, <2>2 DEF Cfg!Config
<1>3. CASE c \in [op : {"iterm"}, key : HotKeys]
  <2>1. Cfg!WithIterm(cfg.local, c) \in Cfg!Local
    BY <1>1, <1>3 DEF Cfg!WithIterm, Cfg!Local
  <2>2. Cfg!Changed(cfg, c) = [cfg EXCEPT !.local = Cfg!WithIterm(cfg.local, c)]
    BY <1>3 DEF Cfg!Changed
  <2> QED BY <2>1, <2>2 DEF Cfg!Config
<1>4. CASE c \in [op : {"onboard"}, machines : (SUBSET Machines) \ {{}}]
  BY <1>4 DEF Cfg!Changed, Cfg!Config
<1> QED BY <1>2, <1>3, <1>4 DEF Cfg!Change

\* Typed, and a process that saves has a change to make.
ConfigTyped ==
  Cfg!ConfigFileTypeOK /\ \A p \in Procs : editing[p] # "out" => change[p] \in Cfg!Change

\* FileKinds, of the configuration.
LEMMA ConfigFileKinds ==
  ASSUME NEW X, NEW x \in X
  PROVE  /\ Cfg!Holds(Cfg!Missing, X) /\ Cfg!Holds(Cfg!Empty, X) /\ Cfg!Holds(Cfg!Torn, X)
         /\ Cfg!Holds(Cfg!Whole(x), X)
         /\ \A old : \A c \in Cfg!Overwrite(old, x) : Cfg!Holds(c, X)
BY DEF Cfg!Holds, Cfg!Whole, Cfg!Overwrite

\* An empty configuration, and one with machines only.
LEMMA NoConfigType ==
  ASSUME NEW m \in SUBSET Machines
  PROVE  /\ Cfg!NoConfig \in Cfg!Config
         /\ [Cfg!NoConfig EXCEPT !.machines = m] \in Cfg!Config
BY DEF Cfg!NoConfig, Cfg!NoLocal, Cfg!Config, Cfg!Local

\* The configuration, its copies and what is intended stay configurations.
LEMMA ConfigTypes ==
  ASSUME ConfigTyped, NEW p \in Procs,
         \/ \E c \in Cfg!Change : Cfg!LoadConfig(p, c) \/ Cfg!LoadConfigFails(p, c)
         \/ Cfg!OpenConfig(p) \/ Cfg!WriteConfig(p) \/ Cfg!WriteConfigFails(p)
  PROVE  ConfigTyped'
<1> USE DEF ConfigTyped, Cfg!ConfigFileTypeOK
<1>0. Cfg!NoConfig \in Cfg!Config
  BY NoConfigType
<1>1. ASSUME NEW c \in Cfg!Change, Cfg!LoadConfig(p, c) PROVE ConfigTyped'
  <2>1. Cfg!Decoded(configFile) \in Cfg!Config
    BY <1>0 DEF Cfg!Decoded, Cfg!IsWhole, Cfg!Holds, Cfg!Missing, Cfg!Empty, Cfg!Torn
  <2>2. Cfg!Changed(Cfg!Decoded(configFile), c) \in Cfg!Config
    BY <2>1, ChangedType
  <2> QED BY <1>1, <2>2 DEF Cfg!LoadConfig
<1>2. ASSUME NEW c \in Cfg!Change, Cfg!LoadConfigFails(p, c) PROVE ConfigTyped'
  BY <1>2 DEF Cfg!LoadConfigFails, Cfg!configVars
<1>3. CASE Cfg!OpenConfig(p)
  BY <1>0, <1>3, ConfigFileKinds DEF Cfg!OpenConfig
<1>4. CASE Cfg!WriteConfig(p)
  <2>1. Cfg!Holds(configFile', Cfg!Config)
    BY <1>4, ConfigFileKinds DEF Cfg!WriteConfig
  <2>2. intended' \in Cfg!Config
    BY <1>4, ChangedType DEF Cfg!WriteConfig
  <2> QED BY <1>0, <1>4, <2>1, <2>2 DEF Cfg!WriteConfig, Cfg!CloseConfig
<1>5. CASE Cfg!WriteConfigFails(p)
  BY <1>0, <1>5, ConfigFileKinds DEF Cfg!WriteConfigFails, Cfg!CloseConfig
<1> QED BY <1>1, <1>2, <1>3, <1>4, <1>5

\* Also when processes die.
LEMMA ConfigCrashTypes ==
  ASSUME ConfigTyped, NEW S \in SUBSET Procs, Cfg!ConfigCrash(S)
  PROVE  ConfigTyped'
BY NoConfigType DEF ConfigTyped, Cfg!ConfigFileTypeOK, Cfg!ConfigCrash, Cfg!CloseConfig

-----------------------------------------------------------------------------
\* Cardinality is the same operator in the instance.
LEMMA SamePickerCardinality == \A T : Picker!Cardinality(T) = Cardinality(T)
BY DEF Picker!Cardinality, Cardinality

\* The cursor stays on the list: clamped when the list changes, and moved
\* between its ends.
LEMMA PickerTypes ==
  ASSUME Picker!PickerTypeOK, Picker!PickerNext
  PROVE  Picker!PickerTypeOK'
<1>1. CASE Picker!SaveMachine
  <2>1. Cardinality(1..Aliases) = Aliases /\ Aliases \in Nat
    <3>1. Cardinality(1..Aliases) = IF 1 > Aliases THEN 0 ELSE Aliases - 1 + 1
      BY BoundsAssumption, FS_Interval
    <3> QED BY <3>1, BoundsAssumption
  <2>2. Picker!Shown(filter') = 1..Aliases
    BY <1>1 DEF Picker!SaveMachine, Picker!Shown
  <2>3. cursor' \in Nat /\ (1..Aliases # {} => cursor' < Aliases)
    BY <1>1, <2>1 DEF Picker!SaveMachine, Picker!ClampedTo, Picker!PickerTypeOK
  <2>4. [name |-> input, routes |-> selected] \in Picker!Group
    BY DEF Picker!PickerTypeOK, Picker!Group
  <2>5. groups' \in Seq(Picker!Group)
    BY <1>1, <2>4 DEF Picker!SaveMachine, Picker!PickerTypeOK
  <2> QED BY <1>1, <2>1, <2>2, <2>3, <2>5, SamePickerCardinality DEF Picker!SaveMachine, Picker!PickerTypeOK
<1>2. CASE Picker!TypeFilter
  <2>1. filter' \in Filters \cup {NoFilter} /\ Picker!Shown(filter') \subseteq 1..Aliases
    BY <1>2, MatchingAssumption DEF Picker!TypeFilter, Picker!Shown
  <2> DEFINE n == Cardinality(Picker!Shown(filter'))
  <2>2. n \in Nat /\ (Picker!Shown(filter') # {} => n # 0)
    <3>1. IsFiniteSet(1..Aliases)
      BY BoundsAssumption, FS_Interval
    <3> QED BY <2>1, <3>1, FS_Subset, FS_CardinalityType, FS_EmptySet
  <2>3. cursor' = Picker!ClampedTo(n)
    BY <1>2, SamePickerCardinality DEF Picker!TypeFilter
  <2>4. cursor' \in Nat /\ (Picker!Shown(filter') # {} => cursor' < n)
    <3> HIDE DEF n
    <3> QED BY <2>2, <2>3 DEF Picker!ClampedTo, Picker!PickerTypeOK
  <2> QED BY <1>2, <2>1, <2>4, SamePickerCardinality DEF Picker!TypeFilter, Picker!PickerTypeOK
<1>3. CASE Picker!MoveCursor
  <2>1. cursor' \in Nat /\ cursor' < Picker!Cardinality(Picker!Shown(filter))
    <3>1. Picker!Shown(filter) \subseteq 1..Aliases
      BY MatchingAssumption DEF Picker!PickerTypeOK, Picker!Shown
    <3>2. Picker!Cardinality(Picker!Shown(filter)) \in Nat
      <4>1. IsFiniteSet(1..Aliases)
        BY BoundsAssumption, FS_Interval
      <4>2. Cardinality(Picker!Shown(filter)) \in Nat
        BY <3>1, <4>1, FS_Subset, FS_CardinalityType
      <4> QED BY <4>2, SamePickerCardinality
    <3> QED BY <1>3, <3>2 DEF Picker!MoveCursor
  <2>2. Picker!Shown(filter') = Picker!Shown(filter)
    BY <1>3 DEF Picker!MoveCursor
  <2> QED BY <1>3, <2>1, <2>2 DEF Picker!MoveCursor, Picker!PickerTypeOK
<1>4. CASE Picker!ToggleAlias
  <2>1. Picker!Shown(filter) \subseteq 1..Aliases /\ Picker!Shown(filter') = Picker!Shown(filter)
    BY <1>4, MatchingAssumption DEF Picker!PickerTypeOK, Picker!Shown, Picker!ToggleAlias
  <2> QED BY <1>4, <2>1 DEF Picker!ToggleAlias, Picker!PickerTypeOK
<1>5. ASSUME cursor' = cursor, filter' = filter
      PROVE  Picker!Shown(filter') = Picker!Shown(filter)
  BY <1>5
<1>6. CASE \/ Picker!TypeName \/ Picker!EnterName \/ Picker!ReviewFromName
           \/ Picker!OpenFilter \/ Picker!CloseFilter \/ Picker!ResetSelection
           \/ Picker!ReviewFromSelect \/ Picker!ReopenList \/ Picker!Accept \/ Picker!Cancel
  BY <1>5, <1>6 DEF Picker!PickerTypeOK, Picker!TypeName, Picker!EnterName, Picker!ReviewFromName,
     Picker!OpenFilter, Picker!CloseFilter, Picker!ResetSelection, Picker!ReviewFromSelect,
     Picker!ReopenList, Picker!Accept, Picker!Cancel
<1> QED BY <1>1, <1>2, <1>3, <1>4, <1>6 DEF Picker!PickerNext

-----------------------------------------------------------------------------
(* The work of the processes                                               *)

\* The task of a busy process is a task, told what its operation needs.
LEMMA TaskTold ==
  ASSUME todo \in [Procs -> Seq(Job)], NEW p \in Procs, NEW op, Does(p, op)
  PROVE  /\ Task(p) \in TaskKind /\ Task(p).op = op
         /\ op = "record" => Task(p).update \in Reg!Update
         /\ op = "change" => Task(p).change \in Cfg!Change
         /\ op = "test" => Task(p).host \in Hosts
<1>1. todo[p] \in Seq(Job) /\ todo[p] # <<>>
  BY DEF Does, Busy
<1>2. Head(todo[p]) \in Seq(TaskKind) /\ Head(todo[p]) # <<>>
  BY <1>1 DEF Job
<1>3. Task(p) \in TaskKind /\ Task(p).op = op
  BY <1>2 DEF Task, Does
<1> HIDE DEF Task
<1> QED BY <1>3 DEF TaskKind

\* Going on to the next task, with more tasks, or giving the job up leaves jobs.
LEMMA WorkLeft ==
  ASSUME todo \in [Procs -> Seq(Job)], NEW p \in Procs, Busy(p),
         \/ \E more \in Seq(TaskKind) : Done(p, more)
         \/ GiveUp(p)
         \/ UNCHANGED todo
  PROVE  todo' \in [Procs -> Seq(Job)]
<1>1. todo[p] \in Seq(Job) /\ todo[p] # <<>> /\ Tail(todo[p]) \in Seq(Job)
  BY DEF Busy
<1>2. ASSUME NEW more \in Seq(TaskKind), Done(p, more) PROVE todo' \in [Procs -> Seq(Job)]
  <2> DEFINE rest == more \o Tail(Head(todo[p]))
  <2>1. rest \in Seq(TaskKind)
    <3>1. Head(todo[p]) \in Seq(TaskKind) /\ Head(todo[p]) # <<>>
      BY <1>1 DEF Job
    <3>2. Tail(Head(todo[p])) \in Seq(TaskKind)
      BY <3>1
    <3> QED BY <3>2
  <2>2. todo' = [todo EXCEPT ![p] = IF rest = <<>> THEN Tail(@) ELSE <<rest>> \o Tail(@)]
    BY <1>2 DEF Done
  <2> HIDE DEF rest
  <2>3. CASE rest = <<>>
    BY <1>1, <2>2, <2>3
  <2>4. CASE rest # <<>>
    <3>1. rest \in Job
      BY <2>1, <2>4 DEF Job
    <3>2. <<rest>> \o Tail(todo[p]) \in Seq(Job)
      BY <1>1, <3>1
    <3> QED BY <2>2, <2>4, <3>2
  <2> QED BY <2>3, <2>4
<1>3. CASE GiveUp(p)
  BY <1>1, <1>3 DEF GiveUp
<1> QED BY <1>2, <1>3

\* A finished measurement has chosen a route.
LEMMA RouteChosen ==
  ASSUME ChoiceTypeOK, LoopInv, PriorityInv, stage = "done"
  PROVE  chosen \in Index
<1>1. CASE best # None
  BY <1>1 DEF ChoiceTypeOK, LoopInv
<1>2. CASE best = None
  <2>1. PICK a \in Index : chosen = order[a]
    BY <1>2 DEF PriorityInv, FallbackIsFirst
  <2> QED BY <2>1 DEF ChoiceTypeOK
<1> QED BY <1>1, <1>2

\* What is known of a measurement by itself.
MeasureInv == ChoiceTypeOK /\ LoopInv /\ PriorityInv
\* It holds here, since a measurement runs as it does alone.
LEMMA MeasureInvHolds == Spec => []MeasureInv
BY MeasuresAsAlone, TypeCorrect, LoopInvariant, PriorityInvariant, PTL DEF MeasureInv

\* A test that has uploaded anything did so over a route.
TestTyped ==
  TestTypeOK /\ (trial \in {"upload", "remeasure", "reupload", "passed"} => tried \in Index)

\* The steps of a test paste keep it typed.
LEMMA TestTypes ==
  ASSUME TestTyped, MeasureInv, MeasureInv', (\E name : LookUp(name)) \/ TestNext
  PROVE  TestTyped'
<1> USE DEF TestTyped, TestTypeOK, None
<1>1. ASSUME NEW name, LookUp(name) PROVE TestTyped'
  BY <1>1 DEF LookUp
<1>2. CASE Measure
  BY <1>2 DEF Measure, testVars
<1>3. CASE Measured
  BY <1>3, RouteChosen DEF Measured, MeasureInv
<1>4. CASE TryUpload
  BY <1>4 DEF TryUpload
<1>5. CASE Remeasured
  BY <1>5, RouteChosen DEF Remeasured, MeasureInv
<1>6. CASE TryAgain
  BY <1>6 DEF TryAgain
<1> QED BY <1>1, <1>2, <1>3, <1>4, <1>5, <1>6 DEF TestNext

\* The work, the endpoint and the remote machine.
WorkTyped ==
  /\ bearer \in Tok!Tokens \cup {EmptyToken, NoToken}
  /\ shimToken \in Tok!Tokens \cup {NoToken}
  /\ crashes \in 0..MaxCrashes
  /\ todo \in [Procs -> Seq(Job)]

\* The parts of TypeOK, with what they need to stay true; ChoiceTypeOK comes
\* from MeasuresAsAlone.
FilesTyped ==
  /\ RegistryTyped /\ Log!EventLogTypeOK /\ Tok!LocalTokenTypeOK
  /\ ConfigTyped /\ Picker!PickerTypeOK /\ TestTyped /\ WorkTyped

\* A part says nothing of other parts' variables.
LEMMA OtherTypesStay ==
  /\ RegistryTyped /\ UNCHANGED regVars => RegistryTyped'
  /\ Log!EventLogTypeOK /\ UNCHANGED logVars => Log!EventLogTypeOK'
  /\ Tok!LocalTokenTypeOK /\ UNCHANGED tokenVars => Tok!LocalTokenTypeOK'
  /\ ConfigTyped /\ UNCHANGED configVars => ConfigTyped'
  /\ Picker!PickerTypeOK /\ UNCHANGED pickerVars => Picker!PickerTypeOK'
  /\ TestTyped /\ UNCHANGED trialVars => TestTyped'
<1>1. RegistryTyped /\ UNCHANGED regVars => RegistryTyped'
  BY DEF RegistryTyped, Reg!RegistryTypeOK, regVars
<1>2. Log!EventLogTypeOK /\ UNCHANGED logVars => Log!EventLogTypeOK'
  BY DEF Log!EventLogTypeOK, logVars
<1>3. Tok!LocalTokenTypeOK /\ UNCHANGED tokenVars => Tok!LocalTokenTypeOK'
  BY DEF Tok!LocalTokenTypeOK, tokenVars
<1>4. ConfigTyped /\ UNCHANGED configVars => ConfigTyped'
  BY DEF ConfigTyped, Cfg!ConfigFileTypeOK, configVars
<1>5. Picker!PickerTypeOK /\ UNCHANGED pickerVars => Picker!PickerTypeOK'
  BY DEF Picker!PickerTypeOK, pickerVars
<1>6. TestTyped /\ UNCHANGED trialVars => TestTyped'
  BY DEF TestTyped, TestTypeOK, trialVars, testVars
<1> QED BY <1>1, <1>2, <1>3, <1>4, <1>5, <1>6

\* The files, the work and the test as the programs find them.
LEMMA FilesTypedAtStart ==
  ASSUME Init
  PROVE  FilesTyped
<1>0. PICK w \in Workloads : todo = w.jobs /\ Cfg!ConfigFileInit(w.machines)
  <2>1. \E w \in Workloads :
          /\ owner = w.owner /\ todo = w.jobs
          /\ Cfg!ConfigFileInit(w.machines)
          /\ ChoiceInit /\ (w.measures \/ Unmeasured)
    BY Zenon DEF Init
  <2> QED BY <2>1
<1>1. RegistryTyped
  <2>1. Reg!NoEntries \in Reg!Table
    BY DEF Reg!NoEntries, Reg!Table
  <2> QED BY <2>1 DEF Init, Reg!RegistryInit, RegistryTyped, Reg!RegistryTypeOK, Reg!Holds
<1>2. Log!EventLogTypeOK
  <2>1. <<>> \in Seq(1..0)
    OBVIOUS
  <2> QED BY <2>1 DEF Init, Log!EventLogInit, Log!EventLogTypeOK
<1>3. Tok!LocalTokenTypeOK
  BY DEF Init, Tok!LocalTokenInit, Tok!LocalTokenTypeOK, Tok!Holds, Tok!Missing, Tok!Torn
<1>4. ConfigTyped
  <2>1. w.machines \in SUBSET Machines
    BY WorkloadsAssumption
  <2>2. /\ Cfg!NoConfig \in Cfg!Config /\ intended \in Cfg!Config
        /\ configFile \in {Cfg!Missing, Cfg!Whole(intended)}
    BY <1>0, <2>1, NoConfigType DEF Cfg!ConfigFileInit
  <2>3. Cfg!Holds(configFile, Cfg!Config)
    BY <2>2, ConfigFileKinds
  <2> QED BY <1>0, <2>2, <2>3 DEF Cfg!ConfigFileInit, ConfigTyped, Cfg!ConfigFileTypeOK
<1>5. Picker!PickerTypeOK
  <2>1. Cardinality(1..Aliases) = Aliases /\ Aliases \in Nat
    <3>1. Cardinality(1..Aliases) = IF 1 > Aliases THEN 0 ELSE Aliases - 1 + 1
      BY BoundsAssumption, FS_Interval
    <3> QED BY <3>1, BoundsAssumption
  <2>2. Picker!Shown(filter) = 1..Aliases
    BY DEF Init, Picker!PickerInit, Picker!Shown
  <2>3. 1..Aliases # {} => 0 < Aliases
    BY <2>1
  <2>4. <<>> \in Seq(Picker!Group)
    OBVIOUS
  <2>5. Picker!Shown(filter) # {} => cursor < Picker!Cardinality(Picker!Shown(filter))
    <3>1. Picker!Cardinality(Picker!Shown(filter)) = Aliases /\ cursor = 0
      BY <2>1, <2>2, SamePickerCardinality DEF Init, Picker!PickerInit
    <3> QED BY <2>2, <2>3, <3>1
  <2> QED BY <2>4, <2>5 DEF Init, Picker!PickerInit, Picker!PickerTypeOK
<1>6. TestTyped
  BY DEF Init, TestInit, TestTyped, TestTypeOK
<1>7. WorkTyped
  BY <1>0, WorkloadsAssumption, BoundsAssumption DEF Init, WorkTyped
<1> QED BY <1>1, <1>2, <1>3, <1>4, <1>5, <1>6, <1>7 DEF FilesTyped

\* An action of one component: its part by the component's lemma, the others
\* by OtherTypesStay.
LEMMA StepKeepsTypes ==
  ASSUME FilesTyped, FilesInv, MeasureInv, MeasureInv', NEW p \in Procs, Step(p)
  PROVE  FilesTyped'
<1> USE OtherTypesStay DEF FilesTyped
<1>0. /\ todo \in [Procs -> Seq(Job)] /\ <<>> \in Seq(TaskKind)
  BY DEF WorkTyped
<1>1. CASE RecordHost(p)
  <2>1. Task(p).update \in Reg!Update /\ Busy(p)
    BY <1>0, <1>1, TaskTold DEF RecordHost, Does
  <2>2. RegistryTyped'
    BY <1>1, <2>1, RegistryTypes DEF RecordHost
  <2>3. todo' \in [Procs -> Seq(Job)]
    BY <1>0, <1>1, <2>1, WorkLeft DEF RecordHost, Then, NextTask
  <2>4. WorkTyped'
    BY <1>1, <2>3 DEF RecordHost, others, WorkTyped
  <2> QED BY <1>1, <2>2, <2>4 DEF RecordHost
<1>2. CASE RecordEvent(p)
  <2>1. Log!EventLogTypeOK'
    BY <1>2, LogTypes DEF RecordEvent
  <2>2. todo' \in [Procs -> Seq(Job)]
    BY <1>0, <1>2, WorkLeft DEF RecordEvent, Then, NextTask, Does
  <2>3. WorkTyped'
    BY <1>2, <2>2 DEF RecordEvent, others, WorkTyped
  <2> QED BY <1>2, <2>1, <2>3 DEF RecordEvent
<1>3. CASE UseToken(p)
  <2>1. Tok!LocalTokenTypeOK'
    BY <1>3, TokenTypes DEF UseToken
  <2>2. todo' \in [Procs -> Seq(Job)]
    BY <1>0, <1>3, WorkLeft DEF UseToken, Then, NextTask, Does
  <2>3. WorkTyped'
    BY <1>3, <2>2 DEF UseToken, others, WorkTyped
  <2> QED BY <1>3, <2>1, <2>3 DEF UseToken
<1>4. CASE Listen(p) \/ InstallShims(p)
  <2>1. todo' \in [Procs -> Seq(Job)]
    BY <1>0, <1>4, WorkLeft DEF Listen, InstallShims, NextTask, Does
  <2>2. held[p] \in Tok!Tokens \cup {EmptyToken, NoToken}
    BY DEF Tok!LocalTokenTypeOK
  <2>3. WorkTyped'
    BY <1>4, <2>1, <2>2 DEF Listen, InstallShims, WorkTyped
  <2> QED BY <1>4, <2>3 DEF Listen, InstallShims
<1>5. CASE ReadConfig(p)
  <2>1. todo' \in [Procs -> Seq(Job)]
    BY <1>0, <1>5, WorkLeft DEF ReadConfig, NextTask, Does
  <2>2. WorkTyped'
    BY <1>5, <2>1 DEF ReadConfig, others, WorkTyped
  <2> QED BY <1>5, <2>2 DEF ReadConfig
<1>6. CASE EditConfig(p)
  <2>1. Task(p).change \in Cfg!Change
    BY <1>0, <1>6, TaskTold DEF EditConfig
  <2>2. ConfigTyped'
    BY <1>6, <2>1, ConfigTypes DEF EditConfig
  <2>3. todo' \in [Procs -> Seq(Job)]
    BY <1>0, <1>6, WorkLeft DEF EditConfig, Then, NextTask, Does
  <2>4. WorkTyped'
    BY <1>6, <2>3 DEF EditConfig, others, WorkTyped
  <2> QED BY <1>6, <2>2, <2>4 DEF EditConfig
<1>7. CASE PickMachines(p)
  <2>1. Picker!PickerTypeOK' /\ WorkTyped'
    BY <1>7, PickerTypes DEF PickMachines, others, WorkTyped
  <2> QED BY <1>7, <2>1 DEF PickMachines
<1>8. CASE BuildConfig(p)
  <2> DEFINE m == {groups[g].name : g \in DOMAIN groups}
             t == [op |-> "change", warns |-> FALSE, change |-> [op |-> "onboard", machines |-> m]]
  <2>1. ASSUME screen = "done", Picker!Buildable(groups) PROVE <<t>> \in Seq(TaskKind)
    <3>1. groups # <<>> /\ groups \in Seq(Picker!Group)
      BY <2>1 DEF FilesInv, Picker!PickerInv
    <3>2. ASSUME NEW g \in DOMAIN groups PROVE groups[g].name \in Names
      <4>1. groups[g] \in Picker!Group
        BY <3>1
      <4> QED BY <2>1, <4>1 DEF Picker!Group, Picker!Buildable
    <3>3. 1 \in DOMAIN groups
      BY <3>1
    <3>4. m \in (SUBSET Machines) \ {{}}
      <4>1. m \subseteq Machines
        BY <3>2, SharedNamesAssumption
      <4>2. groups[1].name \in m
        BY <3>3
      <4> HIDE DEF m
      <4> QED BY <4>1, <4>2
    <3> HIDE DEF m
    <3>5. [op |-> "onboard", machines |-> m] \in Cfg!Change
      BY <3>4 DEF Cfg!Change
    <3>6. t \in TaskKind
      BY <3>5 DEF TaskKind
    <3> QED BY <3>6
  <2>2. todo' \in [Procs -> Seq(Job)]
    BY <1>0, <1>8, <2>1, WorkLeft DEF BuildConfig, Does
  <2>3. WorkTyped'
    BY <1>8, <2>2 DEF BuildConfig, others, WorkTyped
  <2> QED BY <1>8, <2>3 DEF BuildConfig
<1>9. CASE RunTest(p)
  <2>1. TestTyped' /\ WorkTyped'
    BY <1>9, TestTypes DEF RunTest, others, WorkTyped
  <2> QED BY <1>9, <2>1 DEF RunTest
<1>10. CASE TestEnds(p)
  <2> DEFINE u == [host |-> Task(p).host, field |-> "route", value |-> tried]
  <2>1. ASSUME trial = "passed" PROVE <<[op |-> "record", update |-> u]>> \in Seq(TaskKind)
    <3>1. Task(p).host \in Hosts
      BY <1>0, <1>10, TaskTold DEF TestEnds
    <3>2. tried \in Values
      BY <2>1, SharedNamesAssumption DEF TestTyped
    <3>3. u \in Reg!Update
      BY <3>1, <3>2 DEF Reg!Update, Reg!Fields
    <3> HIDE DEF u
    <3>4. [op |-> "record", update |-> u] \in TaskKind
      BY <3>3 DEF TaskKind
    <3> QED BY <3>4
  <2>2. todo' \in [Procs -> Seq(Job)]
    BY <1>0, <1>10, <2>1, WorkLeft DEF TestEnds, Does
  <2>3. WorkTyped'
    BY <1>10, <2>2 DEF TestEnds, others, WorkTyped
  <2> QED BY <1>10, <2>3 DEF TestEnds
<1> QED BY <1>1, <1>2, <1>3, <1>4, <1>5, <1>6, <1>7, <1>8, <1>9, <1>10 DEF Step

\* A death leaves types as they are, and of the jobs of the dead the others.
LEMMA CrashKeepsTypes ==
  ASSUME FilesTyped, NEW o, Crash(o)
  PROVE  FilesTyped'
<1> DEFINE S == {p \in Procs : owner[p] = o}
<1>1. /\ Reg!RegistryCrash(S) /\ Log!EventLogCrash(S) /\ Tok!TokenCrash(S) /\ Cfg!ConfigCrash(S)
      /\ S \in SUBSET Procs
      /\ todo' = [p \in Procs |-> IF p \in S /\ Busy(p) THEN Tail(todo[p]) ELSE todo[p]]
  BY DEF Crash
<1> HIDE DEF S
<1>2. RegistryTyped' /\ Log!EventLogTypeOK' /\ Tok!LocalTokenTypeOK' /\ ConfigTyped'
  BY <1>1, RegistryCrashTypes, LogCrashTypes, TokenCrashTypes, ConfigCrashTypes DEF FilesTyped
<1>3. Picker!PickerTypeOK'
  <2>1. CASE UNCHANGED pickerVars
    BY <2>1, OtherTypesStay DEF FilesTyped
  <2>2. CASE screen' = "cancelled" /\ UNCHANGED <<filterMode, filter, cursor, selected,
                                                  groups, input, reopened>>
    BY <2>2 DEF FilesTyped, Picker!PickerTypeOK
  <2> QED BY <2>1, <2>2 DEF Crash
<1>4. TestTyped'
  <2>1. CASE UNCHANGED trialVars
    BY <2>1, OtherTypesStay DEF FilesTyped
  <2>2. CASE trial' = "out" /\ UNCHANGED <<choiceVars, tried, remembered>>
    BY <2>2 DEF FilesTyped, TestTyped, TestTypeOK
  <2> QED BY <2>1, <2>2 DEF Crash
<1>5. todo' \in [Procs -> Seq(Job)]
  <2>1. ASSUME NEW p \in Procs, Busy(p) PROVE Tail(todo[p]) \in Seq(Job)
    BY <2>1 DEF FilesTyped, WorkTyped, Busy
  <2> QED BY <1>1, <2>1 DEF FilesTyped, WorkTyped
<1>6. WorkTyped'
  BY <1>5, BoundsAssumption DEF Crash, FilesTyped, WorkTyped
<1> QED BY <1>2, <1>3, <1>4, <1>6 DEF FilesTyped

\* The programs at the local files, for any jobs: every file holds what its
\* programs write or less, the cursor of the list is on it, and what is left
\* of the jobs are jobs.
THEOREM LocalTypesCorrect == Spec => []TypeOK
<1>1. Init => FilesTyped
  BY FilesTypedAtStart
<1>2. FilesTyped /\ FilesInv /\ MeasureInv /\ MeasureInv' /\ [Next]_vars => FilesTyped'
  <2> SUFFICES ASSUME FilesTyped, FilesInv, MeasureInv, MeasureInv', [Next]_vars
               PROVE  FilesTyped'
    OBVIOUS
  <2>1. CASE UNCHANGED vars
    <3>1. WorkTyped'
      BY <2>1 DEF FilesTyped, WorkTyped, vars, workVars
    <3> QED BY <2>1, <3>1, OtherTypesStay DEF FilesTyped, vars
  <2> QED BY <2>1, StepKeepsTypes, CrashKeepsTypes DEF Next, Finished
<1>3. FilesTyped /\ MeasureInv => TypeOK
  BY DEF FilesTyped, MeasureInv, TypeOK, RegistryTyped, ConfigTyped, TestTyped, WorkTyped
<1> QED BY <1>1, <1>2, <1>3, FilesInvHolds, MeasureInvHolds, PTL DEF Spec

=============================================================================

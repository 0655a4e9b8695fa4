---------------------------- MODULE MemmgrConfig ----------------------------
(***************************************************************************)
(* MemmgrConfigManager: what the sections of memmgr_config.xml become.  A  *)
(* node is a record with its name, its type, its value and its children.   *)
(* A value is <<v>>, or <<>> for text that is missing or does not parse:   *)
(* the conversions of XmlHelper then leave the default.  The kill levels   *)
(* are in KillConfig.                                                      *)
(***************************************************************************)
EXTENDS PriorityScale, FiniteSetsExt, SequencesExt

MEMCG_MEM_2_ZRAM_RATIO == 60
MEMCG_ZRAM_2_UFS_RATIO == 10
MEMCG_REFAULT_THRESHOLD == 50
INT_MAX == 2147483647
MAX_UNINTPARAM == 100
MAX_INTPARAM == 1000

\* UINT_MAX KB, in MB
UINT_MB == 4194304

-----------------------------------------------------------------------------
(* Documents: a sequence of sections with three levels of children; what  *)
(* a ZswapdParam's parameters have for a value is a number.                *)
IsSequence(s) == s \in Seq(ToSet(s))

ZswapdParams == {"minScore", "maxScore", "mem2zramRatio", "zram2ufsRatio", "refaultThreshold"}

IsDocument(doc) ==
  /\ IsSequence(doc)
  /\ \A i \in DOMAIN doc : LET kids == doc[i].kids IN
       /\ IsSequence(kids)
       /\ \A j \in DOMAIN kids : LET params == kids[j].kids IN
            /\ IsSequence(params)
            /\ \A k \in DOMAIN params :
                 params[k].name \in ZswapdParams =>
                   params[k].value = <<>> \/ params[k].value[1] \in Int

-----------------------------------------------------------------------------
(* XmlHelper.                                                              *)
CheckNode(node) == node.type \in {"element", "text"}
HasChild(node)  == \E i \in DOMAIN node.kids : node.kids[i].type = "element"
Readable(node)  == CheckNode(node) /\ HasChild(node)

\* The children before the first that fails test.
Before(test(_), kids) ==
  SubSeq(kids, 1, Min({i \in DOMAIN kids : ~test(kids[i])} \union {Len(kids) + 1}) - 1)

Named(kids, name) == {i \in DOMAIN kids : kids[i].name = name}
Values(kids, name) == {kids[i].value : i \in Named(kids, name)}

\* GetModuleParam adds the values of the children to param; insert() keeps the first.
GetModuleParam(param, kids) ==
  [k \in DOMAIN param \union {kids[i].name : i \in DOMAIN kids} |->
    IF k \in DOMAIN param THEN param[k] ELSE kids[Min(Named(kids, k))].value]
ModuleParamOk(kids) == \A i \in DOMAIN kids : CheckNode(kids[i])
NoParam == [k \in {} |-> <<>>]

SetIntParam(param, key, default) ==
  IF key \in DOMAIN param /\ param[key] # <<>> THEN param[key][1] ELSE default
SetUnsignedIntParam(param, key, default) ==
  LET v == SetIntParam(param, key, default) IN IF v \in 0 .. INT_MAX THEN v ELSE default
SetStringParam(param, key, default) == SetIntParam(param, key, default)

\* ParseUnsignedLongLongContent: a negative number, or none, becomes 0.
ParseUnsignedLongLongContent(value) == IF value # <<>> /\ value[1] > 0 THEN value[1] ELSE 0

-----------------------------------------------------------------------------
(* ReclaimConfig: one ZswapdParam for each child, whatever its name.  The  *)
(* parameters of one child are still there when the next one is read.      *)
InRange(v, max, default) == IF v < 0 \/ v > max THEN default ELSE v

\* SetZswapdParamConfig and CheckZswapdParam
ZswapdParam(param) ==
  [minScore |-> InRange(SetIntParam(param, "minScore", 0), MAX_INTPARAM, 0),
   maxScore |-> InRange(SetIntParam(param, "maxScore", RECLAIM_PRIORITY_MAX), MAX_INTPARAM,
                        RECLAIM_PRIORITY_MAX),
   ratios |-> <<InRange(SetUnsignedIntParam(param, "mem2zramRatio", MEMCG_MEM_2_ZRAM_RATIO),
                        MAX_UNINTPARAM, MEMCG_MEM_2_ZRAM_RATIO),
                InRange(SetUnsignedIntParam(param, "zram2ufsRatio", MEMCG_ZRAM_2_UFS_RATIO),
                        MAX_UNINTPARAM, MEMCG_ZRAM_2_UFS_RATIO),
                InRange(SetUnsignedIntParam(param, "refaultThreshold", MEMCG_REFAULT_THRESHOLD),
                        MAX_UNINTPARAM, MEMCG_REFAULT_THRESHOLD)>>]

DefaultReclaim ==
  <<[minScore |-> RECLAIM_PRIORITY_MIN, maxScore |-> RECLAIM_PRIORITY_MAX,
     ratios |-> <<MEMCG_MEM_2_ZRAM_RATIO, MEMCG_ZRAM_2_UFS_RATIO, MEMCG_REFAULT_THRESHOLD>>]>>

\* The param map after child n.
Accumulated(kids) ==
  LET param[n \in 0 .. Len(kids)] ==
        IF n = 0 THEN NoParam ELSE GetModuleParam(param[n - 1], kids[n].kids)
  IN param

ParseReclaim(section, old) ==
  LET kids == Before(LAMBDA n : ModuleParamOk(n.kids), section.kids)
      param == Accumulated(kids)
  IN IF Readable(section) THEN old \o [n \in DOMAIN kids |-> ZswapdParam(param[n])] ELSE old

\* reclaimConfigSet_: by minScore, and of equals the one inserted last comes first.
RatiosOrder(set, i, j) ==
  set[i].minScore < set[j].minScore \/ (set[i].minScore = set[j].minScore /\ i > j)

-----------------------------------------------------------------------------
(* The other sections.                                                     *)
ParseAvailBuffer(section, old) ==
  LET param == GetModuleParam(NoParam, section.kids) IN
  IF Readable(section) /\ ModuleParamOk(section.kids)
  THEN [avail |-> SetUnsignedIntParam(param, "availBuffer", 800),
        min |-> SetUnsignedIntParam(param, "minAvailBuffer", 750),
        high |-> SetUnsignedIntParam(param, "highAvailBuffer", 850),
        reserve |-> SetUnsignedIntParam(param, "swapReserve", 200)]
  ELSE old

DefaultAvailBuffer == [avail |-> 800, min |-> 750, high |-> 850, reserve |-> 200]

\* In MB; the product with KB_PER_MB wraps at 32 bits.
ParseMemoryLevel(section, old) ==
  LET param == GetModuleParam(NoParam, section.kids)
      level(key, default) == SetUnsignedIntParam(param, key, default) % UINT_MB
  IN IF Readable(section) /\ ModuleParamOk(section.kids)
     THEN [purgeable |-> level("purgeable", 1024), moderate |-> level("moderate", 800),
           low |-> level("low", 700), critical |-> level("critical", 600)]
     ELSE old

LastContent(kids, name, old) ==
  IF Named(kids, name) = {} THEN old
  ELSE ParseUnsignedLongLongContent(kids[Max(Named(kids, name))].value)

ParseNandLife(section, old) ==
  IF Readable(section)
  THEN [daily |-> LastContent(section.kids, "dailySwapOutQuotaMB", old.daily),
        total |-> LastContent(section.kids, "totalSwapOutQuotaMB", old.total)]
  ELSE old

ParseSwitch(section, old) ==
  IF Readable(section) THEN LastContent(section.kids, "bigMemKillSwitch", old) ELSE old

\* Empty names are inserted too.
ParsePurgeable(section, old) ==
  LET kids == Before(CheckNode, section.kids)
      name(n) == SetStringParam(GetModuleParam(NoParam, Before(CheckNode, n.kids)), "procName", "")
  IN IF Readable(section)
     THEN old \union {name(kids[i]) : i \in Named(kids, "purgeWhiteAppList")}
     ELSE old

KillableApps(node) ==
  IF ~Readable(node) THEN {}
  ELSE LET kids == Before(LAMBDA n : CheckNode(n) /\ n.name = "killableSysApp", node.kids) IN
       {v[1] : v \in Values(kids, "killableSysApp") \ {<<>>}}

\* Nodes with an empty name or a priority out of range are passed over; an app that is
\* listed twice keeps its first priority.
ImportantApps(node, old) ==
  LET kids == Before(CheckNode, node.kids)
      param(i) == GetModuleParam(NoParam, Before(CheckNode, kids[i].kids))
      app(i) == SetStringParam(param(i), "procName", "")
      prio(i) == SetIntParam(param(i), "minPriority", RECLAIM_PRIORITY_MAX + 1)
      good == {i \in Named(kids, "importantBgApp") :
                 app(i) # "" /\ prio(i) \in RECLAIM_PRIORITY_MIN .. RECLAIM_PRIORITY_MAX + 1}
      first(a) == Min({i \in good : app(i) = a})
  IN IF ~Readable(node) THEN old
     ELSE [a \in DOMAIN old \union {app(i) : i \in good} |->
            IF a \in DOMAIN old THEN old[a] ELSE prio(first(a))]

PriorityChildren == {"killalbeSystemApps", "importantBgApps"}
ParseReclaimPriority(section, old) ==
  LET kids == Before(LAMBDA n : CheckNode(n) /\ n.name \in PriorityChildren, section.kids)
      killable == UNION {KillableApps(kids[i]) : i \in Named(kids, "killalbeSystemApps")}
      important == FoldLeft(LAMBDA apps, n : IF n.name = "importantBgApps"
                                             THEN ImportantApps(n, apps) ELSE apps,
                            old.important, kids)
  IN IF Readable(section)
     THEN [killable |-> old.killable \union killable, important |-> important]
     ELSE old

-----------------------------------------------------------------------------
DefaultConfig ==
  [reclaim |-> DefaultReclaim, avail |-> DefaultAvailBuffer,
   level |-> [purgeable |-> 0, moderate |-> 0, low |-> 0, critical |-> 0],
   priority |-> [killable |-> {}, important |-> [a \in {} |-> 0]],
   nand |-> [daily |-> 0, total |-> 0], switch |-> 0, purge |-> {}, loaded |-> FALSE]

Sections == {"availBufferConfig", "reclaimConfig", "killConfig", "systemMemoryLevelConfig",
             "reclaimPriorityConfig", "nandLifeConfig", "switchConfig", "purgeablememConfig"}

\* One child of the root, as ParseXmlRootNode dispatches on its name.
ParseSection(config, section) ==
  CASE section.name = "availBufferConfig" ->
         [config EXCEPT !.avail = ParseAvailBuffer(section, @)]
    [] section.name = "reclaimConfig" -> [config EXCEPT !.reclaim = ParseReclaim(section, @)]
    [] section.name = "systemMemoryLevelConfig" ->
         [config EXCEPT !.level = ParseMemoryLevel(section, @)]
    [] section.name = "reclaimPriorityConfig" ->
         [config EXCEPT !.priority = ParseReclaimPriority(section, @)]
    [] section.name = "nandLifeConfig" -> [config EXCEPT !.nand = ParseNandLife(section, @)]
    [] section.name = "switchConfig" -> [config EXCEPT !.switch = ParseSwitch(section, @)]
    [] section.name = "purgeablememConfig" -> [config EXCEPT !.purge = ParsePurgeable(section, @)]
    [] OTHER -> config

\* The configuration after the first sections, read one after the other.
ReadSections(sections) ==
  LET read[n \in 0 .. Len(sections)] ==
        IF n = 0 THEN [DefaultConfig EXCEPT !.reclaim = <<>>]
        ELSE ParseSection(read[n - 1], sections[n])
  IN read[Len(sections)]

\* A document that can be read first empties the reclaim configuration; the first unknown
\* section ends the reading.
ReadParamFromXml(doc) ==
  LET sections == Before(LAMBDA s : s.name \in Sections, doc)
  IN [ReadSections(sections) EXCEPT !.loaded = sections = doc]
=============================================================================

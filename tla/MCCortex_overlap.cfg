SPECIFICATION CortexSpec
CONSTANTS
 LastStep = 3
 LoadBearing = {1}
 edit = edit
 backup = backup
 deploy = deploy
 release = release
 c1 = c1
 c2 = c2
 ann = ann
 ben = ben
 boss = boss
 Actions = {edit, backup, deploy, release}
 Edits = {edit}
 Matches <- MCMatches
 Agents = {ann, ben}
 Calls = {c1, c2}
 Reconciles = {r1}
 Parts = {"corpus"}
 MaxExec = 2
 MaxAcks = 2
 MaxOpen = 2
 Nil = Nil
 Writers = {ann, ben, boss}
 SourceAdmins = {boss}
 Ingests = {i1, i2}
 MaxGens = 3
 LastChunk = 3
 Absent = Absent
PROPERTIES OnlyDeletionEmpties
SYMMETRY MCSymmetry
CHECK_DEADLOCK FALSE

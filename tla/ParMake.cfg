SPECIFICATION Spec
CONSTANTS
    Thread = {t1, t2}
    Rule = {"prog", "lib", "doc", "util"}
    Makefiles <- AllMakefiles
    Built <- Worked
    Stop = ""
    NoThread = NoThread
INVARIANTS RunOnce DependenciesFirst GoalsDecided 
PROPERTIES OrderIsRight AllStop

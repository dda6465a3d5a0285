SPECIFICATION Spec
CONSTANTS
    c1 = c1
    c2 = c2
    Cmds = {c1, c2}
SYMMETRY Symmetry
INVARIANT MarkersTrue
PROPERTIES DropSparesApi ClusterSurvives

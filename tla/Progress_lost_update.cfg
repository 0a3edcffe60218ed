CONSTANTS
    c1 = c1
    c2 = c2
    Client = {c1, c2}
    MaxOrder = 4
    Episodes <- MCEpisodes
SPECIFICATION Spec
PROPERTIES
    ViewOnlyKeepsWatched

SPECIFICATION Spec
CONSTANTS
    m1 = m1
    m2 = m2
    de = de
    nl = nl
    NULL = NULL
    Markers <- MCMarkers
    Countries <- MCCountries
    Flag <- MCFlag
    DefaultLatLng = m1
    Tiles = 1
    MaxDelayed = 1
PROPERTIES SessionUsesAnnounced

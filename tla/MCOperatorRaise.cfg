SPECIFICATION FairSpec
CONSTANTS
    Names <- MCNames
    Specs <- MCSpecs
    Clusters <- MCClusters
    Catalogue <- MCCatalogue
    MaxEvents = 2
    Start <- MCStart
PROPERTIES NeverRaises

